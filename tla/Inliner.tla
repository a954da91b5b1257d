------------------------------ MODULE Inliner ------------------------------
(***************************************************************************)
(* cfg/src/ssa/inline.rs, inline(): in a basic block in SSA form, a value  *)
(* that is used once moves from its assignment into the statement, or the  *)
(* edge argument, that uses it; assignments nobody reads are swept away.   *)
(* Expressions are flattened into tokens in the order in which they are    *)
(* evaluated, operands first, so that inlining splices one sequence into   *)
(* another.  The model covers one block and the arguments of its edge; the *)
(* foldings of table constructors and of the operands of a generic for are *)
(* left out.                                                               *)
(***************************************************************************)
EXTENDS Integers, FiniteSets, SequencesExt, NaturalSums

CONSTANTS
  Locals,   \* the locals of the function in SSA form
  Names,    \* the operators that occur in it
  Cases     \* what inline() may be called with

(* A read of a local, a pure operator, a load that may run a metamethod (a *)
(* global, an index, arithmetic), a comparison, or a call.                 *)
Token == [op : {"read", "pure", "load", "compare", "converse", "call"},
          name : Locals \cup Names, arity : Nat]

(* An assignment to locals, or another statement, which assigns none.      *)
Statement == [dst : Seq(Locals), code : Seq(Token)]

Empty == [dst |-> <<>>, code |-> <<>>]

Argument == [param : Locals, code : Seq(Token)]

(* local_to_group maps a local to the register it is a version of.         *)
Case == [block : Seq(Statement), arguments : Seq(Argument),
         group : [Locals -> Nat], upvalues : SUBSET Locals]

ASSUME CasesAssumption == Cases \subseteq Case

ReadsIn(code) == {code[i].name : i \in {j \in DOMAIN code : code[j].op = "read"}}

Written(statement) == ToSet(statement.dst)

(* The values on the stack after the first j tokens.                       *)
Depth(code, j) == j - Total([i \in 0 .. Len(code) - 1 |-> code[i + 1].arity], j)

(* One expression: every token finds its operands, and one value is left.  *)
IsExpression(code) ==
    /\ \A i \in DOMAIN code :
          /\ code[i].op = "read" => code[i].name \in Locals /\ code[i].arity = 0
          /\ code[i].op \in {"compare", "converse"} => code[i].arity = 2
          /\ Depth(code, i) > 0
    /\ Depth(code, Len(code)) = 1

AreExpressions(statements, sides) ==
    /\ \A i \in DOMAIN statements : statements[i] = Empty \/ IsExpression(statements[i].code)
    /\ \A i \in DOMAIN sides : IsExpression(sides[i].code)

(* SSA form: no local is assigned twice, or read before it is assigned.    *)
IsSSA(statements) ==
    \A i, j \in DOMAIN statements :
        /\ i < j => Written(statements[i]) \cap Written(statements[j]) = {}
        /\ i <= j => ReadsIn(statements[i].code) \cap Written(statements[j]) = {}

ASSUME FormAssumption ==
    \A case \in Cases : AreExpressions(case.block, case.arguments) /\ IsSSA(case.block)

VARIABLES
  original,        \* the case: the block before inline()
  block,           \* the statements; one without tokens is Empty
  arguments,       \* the arguments of the edge that leaves the block
  usages,          \* local_usages
  part,            \* "statements" or "arguments": what is inlined into
  index,           \* the statement or argument that is inlined into
  at,              \* the statement that may be moved there
  wanted,          \* stat_to_values_read, arg_to_values_read
  groupsWritten,   \* the registers written between at and index
  allowEffects,    \* allow_side_effects
  anyChange,       \* what inline() will return
  pc               \* "begin", "scan", "sweep", "done"

vars == <<original, block, arguments, usages, part, index, at, wanted,
          groupsWritten, allowEffects, anyChange, pc>>

-----------------------------------------------------------------------------
Effectful(token) == token.op \in {"load", "compare", "converse", "call"}

HasEffects(code) == \E i \in DOMAIN code : Effectful(code[i])

UsesIn(code, local) ==
    Cardinality({i \in DOMAIN code : code[i].op = "read" /\ code[i].name = local})

Sum(numbers) == Total([i \in 0 .. Len(numbers) - 1 |-> numbers[i + 1]], Len(numbers))

Uses(statements, sides, local) ==
    Sum([i \in DOMAIN statements |-> UsesIn(statements[i].code, local)])
    + Sum([i \in DOMAIN sides |-> UsesIn(sides[i].code, local)])

Group(locals) == {original.group[l] : l \in locals}

WritesUpvalue(statement) == Written(statement) \cap original.upvalues # {}

ReadsUpvalue(code) == ReadsIn(code) \cap original.upvalues # {}

(* new_rvalue_has_side_effects                                             *)
Observable(code) == HasEffects(code) \/ ReadsUpvalue(code)

(* Where an operand that ends at token j may begin; the operand begins at  *)
(* the last of these.                                                      *)
OperandStarts(code, j) == {k \in 1 .. j : Depth(code, j) - Depth(code, k - 1) = 1}

Position(code, local) == Min({i \in DOMAIN code : code[i].op = "read" /\ code[i].name = local})

Flipped(token) == [token EXCEPT !.op = IF @ = "compare" THEN "converse" ELSE "compare"]

(* The local is the right operand of a comparison whose left operand has   *)
(* effects: the operands change sides so that the value comes first.       *)
Swaps(code, i) ==
    /\ OperandStarts(code, i - 1) # {} /\ i < Len(code)
    /\ code[i + 1].op \in {"compare", "converse"}
    /\ HasEffects(SubSeq(code, Max(OperandStarts(code, i - 1)), i - 1))

(* The place the value will be evaluated at.                               *)
Place(code, local) ==
    LET i == Position(code, local)
    IN  IF Swaps(code, i) THEN Max(OperandStarts(code, i - 1)) ELSE i

(* try_inline refuses to move a value with effects behind another one.     *)
Inlines(code, local, value) ==
    Observable(value) => ~ HasEffects(SubSeq(code, 1, Place(code, local) - 1))

Inlined(code, local, value) ==
    LET i     == Position(code, local)
        start == Place(code, local)
    IN  IF Swaps(code, i)
        THEN SubSeq(code, 1, start - 1) \o value \o SubSeq(code, start, i - 1)
             \o <<Flipped(code[i + 1])>> \o SubSeq(code, i + 2, Len(code))
        ELSE SubSeq(code, 1, i - 1) \o value \o SubSeq(code, i + 1, Len(code))

-----------------------------------------------------------------------------
Init ==
    /\ original \in Cases
    /\ block = original.block /\ arguments = original.arguments
    /\ usages = [l \in Locals |-> Uses(block, arguments, l)]
    /\ part = "statements" /\ index = 1 /\ at = 0 /\ wanted = <<>>
    /\ groupsWritten = {} /\ allowEffects = TRUE
    /\ anyChange = FALSE
    /\ pc = "begin"

SingleUse(code) == {l \in ReadsIn(code) \ original.upvalues : usages[l] = 1}

Sites == IF part = "statements" THEN block ELSE arguments

(* The search for values starts anew behind the statement before i, or at  *)
(* the end of the block for an argument.                                   *)
SearchFor(p, i) ==
    /\ index' = i
    /\ at' = IF p = "statements" THEN i - 1 ELSE Len(block)
    /\ groupsWritten' = {}
    /\ allowEffects' = TRUE

BeginStatements ==
    /\ pc = "begin"
    /\ pc' = "scan" /\ part' = "statements"
    /\ wanted' = [i \in DOMAIN block |-> SingleUse(block[i].code)]
    /\ SearchFor("statements", 1)
    /\ UNCHANGED <<original, block, arguments, usages, anyChange>>

BeginArguments ==
    /\ pc = "scan" /\ part = "statements" /\ index > Len(block)
    /\ part' = "arguments"
    /\ wanted' = [i \in DOMAIN arguments |-> SingleUse(arguments[i].code)]
    /\ SearchFor("arguments", 1)
    /\ UNCHANGED <<original, block, arguments, usages, anyChange, pc>>

EndPass ==
    /\ pc = "scan" /\ part = "arguments" /\ index > Len(arguments)
    /\ pc' = "sweep"
    /\ UNCHANGED <<original, block, arguments, usages, part, index, at, wanted,
                   groupsWritten, allowEffects, anyChange>>

AtSite == pc = "scan" /\ index <= Len(Sites)

NextSite ==
    /\ AtSite
    /\ at = 0 \/ wanted[index] = {}
    /\ SearchFor(part, index + 1)
    /\ UNCHANGED <<original, block, arguments, usages, part, wanted, anyChange, pc>>

Searching == AtSite /\ at > 0 /\ wanted[index] # {}

(* An edge argument does not look across the write of an upvalue.          *)
GivesUp == part = "arguments" /\ WritesUpvalue(block[at])

GiveUp ==
    /\ Searching /\ GivesUp
    /\ SearchFor(part, index + 1)
    /\ UNCHANGED <<original, block, arguments, usages, part, wanted, anyChange, pc>>

EffectsAllowed == allowEffects /\ ~ WritesUpvalue(block[at])

(* A statement that reads a register written below it is not moved, nor is *)
(* what it does looked at.                                                 *)
Skips == Group(ReadsIn(block[at].code)) \cap groupsWritten # {}

SkipReader ==
    /\ Searching /\ ~ GivesUp /\ Skips
    /\ allowEffects' = EffectsAllowed
    /\ at' = at - 1
    /\ UNCHANGED <<original, block, arguments, usages, part, index, wanted,
                   groupsWritten, anyChange, pc>>

(* The statement at `at` assigns a wanted local a value that may be moved. *)
Moves ==
    /\ Len(block[at].dst) = 1
    /\ block[at].dst[1] \in wanted[index]
    /\ Observable(block[at].code) => part = "statements" /\ EffectsAllowed
    /\ Inlines(Sites[index].code, block[at].dst[1], block[at].code)

(* The assignment whose value was moved becomes Empty.                     *)
Emptied(statement) == Empty

(* A plausible slip: a rewritten edge argument is not reported.            *)
StatementChanged == anyChange \/ part = "statements"

(* Every site that rewrites something reports it.                          *)
Changed == TRUE

MoveValue ==
    /\ Searching /\ ~ GivesUp /\ ~ Skips /\ Moves
    /\ LET local    == block[at].dst[1]
           code     == Inlined(Sites[index].code, local, block[at].code)
           remains  == [block EXCEPT ![at] = Emptied(@)]
       IN  /\ IF part = "statements"
              THEN /\ block' = [remains EXCEPT ![index].code = code]
                   /\ UNCHANGED arguments
              ELSE /\ block' = remains
                   /\ arguments' = [arguments EXCEPT ![index].code = code]
           /\ wanted' = [wanted EXCEPT ![index] = @ \ {local}]
    /\ SearchFor(part, index)
    /\ anyChange' = Changed
    /\ UNCHANGED <<original, usages, part, pc>>

(* A plausible slip: a statement with effects is passed like any other.    *)
PassFreely ==
    /\ Searching /\ ~ GivesUp /\ ~ Skips /\ ~ Moves
    /\ groupsWritten' = groupsWritten \cup Group(Written(block[at]))
    /\ allowEffects' = EffectsAllowed
    /\ at' = at - 1
    /\ UNCHANGED <<original, block, arguments, usages, part, index, wanted, anyChange, pc>>

PassStatement ==
    /\ Searching /\ ~ GivesUp /\ ~ Skips /\ ~ Moves
    /\ groupsWritten' = groupsWritten \cup Group(Written(block[at]))
    /\ allowEffects' = (EffectsAllowed /\ ~ HasEffects(block[at].code))
    /\ at' = at - 1
    /\ UNCHANGED <<original, block, arguments, usages, part, index, wanted, anyChange, pc>>

(* An assignment to a local that is never used.                            *)
Unused(statement) ==
    /\ Len(statement.dst) = 1
    /\ statement.dst[1] \notin original.upvalues
    /\ usages[statement.dst[1]] = 0

(* A plausible slip: an unused call is dropped with its assignment.        *)
DroppedWithCall(statement) ==
    IF Unused(statement) THEN Empty ELSE statement

(* Of an unused assignment the call remains, or nothing if it had no       *)
(* effects; any other effect keeps it.                                     *)
Swept(statement) ==
    IF ~ Unused(statement) THEN statement
    ELSE IF ~ HasEffects(statement.code) THEN Empty
    ELSE IF Last(statement.code).op = "call" THEN [statement EXCEPT !.dst = <<>>]
    ELSE statement

(* Empty statements are removed.                                           *)
Retained(statements) ==
    LET retained[i \in 0 .. Len(statements)] ==
            IF i = 0 THEN <<>>
            ELSE IF statements[i] = Empty THEN retained[i - 1]
            ELSE Append(retained[i - 1], statements[i])
    IN  retained[Len(statements)]

(* A plausible slip: the loop goes on without a change.                    *)
SweepAgain ==
    /\ pc = "sweep"
    /\ LET swept == [i \in DOMAIN block |-> Swept(block[i])]
       IN  /\ block' = Retained(swept)
           /\ anyChange' = (anyChange \/ swept # block)
           /\ pc' = IF anyChange' THEN "begin" ELSE "done"
    /\ UNCHANGED <<original, arguments, usages, part, index, at, wanted,
                   groupsWritten, allowEffects>>

Sweep ==
    /\ pc = "sweep"
    /\ LET swept == [i \in DOMAIN block |-> Swept(block[i])]
       IN  /\ block' = Retained(swept)
           /\ anyChange' = (anyChange \/ swept # block)
           /\ pc' = IF swept # block THEN "begin" ELSE "done"
    /\ UNCHANGED <<original, arguments, usages, part, index, at, wanted,
                   groupsWritten, allowEffects>>

Next == \/ BeginStatements
        \/ BeginArguments
        \/ EndPass
        \/ NextSite
        \/ GiveUp
        \/ SkipReader
        \/ MoveValue
        \/ PassStatement
        \/ Sweep

Spec == Init /\ [][Next]_vars /\ WF_vars(Next)

-----------------------------------------------------------------------------
(* What a block does.  A machine has the value of every local, the stack   *)
(* of the expression it evaluates, and the log of the effects, in order.   *)
(* A call or a load sees the effects before it, so its result depends on   *)
(* the time, and so does a read of an upvalue, which any call may change.  *)
Result(name, args, time) == [name |-> name, args |-> args, time |-> time]

Fresh == [values |-> [l \in Locals |-> Result(l, <<>>, 0)], stack |-> <<>>, log |-> <<>>]

Operands(machine, token) ==
    LET n == Len(machine.stack)
        operands == SubSeq(machine.stack, n - token.arity + 1, n)
    IN  IF token.op = "converse" THEN Reverse(operands) ELSE operands

Pushed(machine, token, result) ==
    Append(SubSeq(machine.stack, 1, Len(machine.stack) - token.arity), result)

EvaluateToken(machine, token) ==
    LET args == Operands(machine, token)
        now  == Len(machine.log)
        of   == machine.values[token.name]
    IN  CASE token.op = "read" /\ token.name \in original.upvalues ->
                [machine EXCEPT !.stack = Append(@, Result(token.name, <<of>>, now))]
          [] token.op = "read" /\ token.name \notin original.upvalues ->
                [machine EXCEPT !.stack = Append(@, of)]
          [] token.op = "pure" ->
                [machine EXCEPT !.stack = Pushed(machine, token, Result(token.name, args, 0))]
          [] Effectful(token) ->
                [machine EXCEPT !.stack = Pushed(machine, token, Result(token.name, args, now + 1)),
                                !.log = Append(@, Result(token.name, args, now))]

Cleared(machine) == [machine EXCEPT !.stack = <<>>]

(* The machine after an expression.                                        *)
Evaluated(machine, code) ==
    LET after[i \in 0 .. Len(code)] ==
            IF i = 0 THEN machine ELSE EvaluateToken(after[i - 1], code[i])
    IN  after[Len(code)]

(* The value of one expression, or one of the results of a call.           *)
Assigned(machine, dst, i) ==
    IF Len(dst) = 1 THEN Last(machine.stack) ELSE Result(dst[i], <<Last(machine.stack)>>, 0)

Execute(machine, statement) ==
    LET after == Evaluated(Cleared(machine), statement.code)
        dst   == statement.dst
    IN  [after EXCEPT
            !.values = [l \in Locals |->
                IF \E i \in DOMAIN dst : dst[i] = l
                THEN Assigned(after, dst, CHOOSE i \in DOMAIN dst : dst[i] = l)
                ELSE @[l]],
            !.log = IF WritesUpvalue(statement)
                    THEN Append(@, Result(dst[1], <<Last(after.stack)>>, Len(@)))
                    ELSE @]

(* The machine after a block.                                              *)
Executed(machine, statements) ==
    LET after[i \in 0 .. Len(statements)] ==
            IF i = 0 THEN machine ELSE Execute(after[i - 1], statements[i])
    IN  after[Len(statements)]

(* The effects of a block and the values its edge passes, read at once.    *)
Meaning(statements, sides) ==
    LET after == Executed(Fresh, statements)
    IN  [log  |-> after.log,
         args |-> [i \in DOMAIN sides |-> Evaluated(Cleared(after), sides[i].code).stack]]

SameMeaning == Meaning(block, arguments) = Meaning(original.block, original.arguments)

-----------------------------------------------------------------------------
(* Cursors stay inside what they point into, and only locals that are      *)
(* still read where they are inlined are wanted.                           *)
InlinerTypeOK ==
    /\ original \in Case
    /\ block \in Seq(Statement) /\ arguments \in Seq(Argument)
    /\ usages \in [Locals -> Nat]
    /\ allowEffects \in BOOLEAN /\ anyChange \in BOOLEAN
    /\ part \in {"statements", "arguments"} /\ pc \in {"begin", "scan", "sweep", "done"}
    /\ pc = "scan" =>
          /\ DOMAIN wanted = DOMAIN Sites
          /\ index \in 1 .. Len(Sites) + 1
          /\ at \in 0 .. Len(block) /\ (part = "statements" => at < index)
          /\ \A i \in index .. Len(Sites) : wanted[i] \subseteq ReadsIn(Sites[i].code)

OwnRegisters ==
    \A l, m \in Locals : original.group[l] = original.group[m] => l = m

(* Every step keeps what the block does and in which order, provided that  *)
(* no register is assigned twice and no upvalue is read.                   *)
MeaningIsKept == OwnRegisters /\ original.upvalues = {} => SameMeaning

(* How often a token occurs.                                               *)
Times(code, token) == Cardinality({i \in DOMAIN code : code[i] = token})

Occurrences(statements, sides, token) ==
    Sum([i \in DOMAIN statements |-> Times(statements[i].code, token)])
    + Sum([i \in DOMAIN sides |-> Times(sides[i].code, token)])

CallsIn(items) == UNION {{t \in ToSet(items[i].code) : t.op = "call"} : i \in DOMAIN items}

(* Whatever the registers and upvalues, no call is lost or made twice.     *)
CallsSurvive ==
    \A call \in CallsIn(block) \cup CallsIn(arguments)
                \cup CallsIn(original.block) \cup CallsIn(original.arguments) :
        Occurrences(block, arguments, call)
            = Occurrences(original.block, original.arguments, call)

(* The reported flag agrees with a comparison of the function before and   *)
(* after, in both directions, as the scheduler needs (lib.rs, the pass     *)
(* "inline").                                                              *)
ReportIsTrue ==
    pc = "done" =>
        (anyChange <=> <<block, arguments>> # <<original.block, original.arguments>>)

(* The usages are counted once and never updated here.  They remain upper  *)
(* bounds of the uses that are left: what the sweep takes out is not read. *)
UsagesAreBounds == \A l \in Locals : Uses(block, arguments, l) <= usages[l]

(* Empty statements are removed without a report, so that the report is    *)
(* only true where there is none to begin with.                            *)
NothingIsEmpty == \A i \in DOMAIN original.block : original.block[i] # Empty

(* Every step that reports a change makes the block smaller.               *)
Size(statements, sides) ==
    Sum([i \in DOMAIN statements |-> Len(statements[i].dst) + Len(statements[i].code)])
    + Sum([i \in DOMAIN sides |-> Len(sides[i].code)])

(* The inductive invariant behind ReportIsTrue.                            *)
InlinerInvariant ==
    /\ InlinerTypeOK
    /\ UsagesAreBounds
    /\ NothingIsEmpty =>
          IF anyChange
          THEN Size(block, arguments) < Size(original.block, original.arguments)
          ELSE block = original.block /\ arguments = original.arguments

(* What is between the value that is looked for and its use.               *)
Between == at + 1 .. (IF part = "statements" THEN index - 1 ELSE Len(block))

(* While a value is looked for, it is known what may stand in its way.     *)
SearchHolds ==
    /\ \A i \in DOMAIN wanted : \A l \in wanted[i] : usages[l] = 1
    /\ groupsWritten \subseteq UNION {Group(Written(block[j])) : j \in Between}
    /\ allowEffects => \A j \in Between : ~ HasEffects(block[j].code)

(* The inductive invariant behind MeaningIsKept: SSA form and expressions  *)
(* are kept, too.                                                          *)
MeaningInvariant ==
    OwnRegisters /\ original.upvalues = {} =>
        /\ AreExpressions(block, arguments)
        /\ IsSSA(block)
        /\ SameMeaning
        /\ pc = "scan" => SearchHolds

(* The loop of inline() ends.                                              *)
InlinerTerminates == <>(pc = "done")

(* "Only that compiler-origin import prefix may be reordered"              *)
(* (docs/decompiler-baseline-findings.md, Provenance and ordering policy): *)
(* the calls and other effects of the block keep their order.              *)
EffectsKeepTheirOrder == SameMeaning

(* "we cant inline [...] anything that depends on other params because     *)
(* block params are executed in parallel" (inline.rs, before the edges):   *)
(* an argument that was rewritten reads no other parameter of the edge.    *)
ArgumentsAreIndependent ==
    \A i \in DOMAIN arguments :
        arguments[i].code # original.arguments[i].code =>
            \A j \in DOMAIN arguments : j # i => arguments[j].param \notin ReadsIn(arguments[i].code)
=============================================================================
