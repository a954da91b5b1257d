----------------------------- MODULE AstCleanup -----------------------------
(***************************************************************************)
(* The clean-up of control flow (control_flow_cleanup.rs): constant        *)
(* branches are resolved, empty ones inverted, terminal ones flattened,    *)
(* loop tails and function tails turned into guards; and, for Lua 5.1,     *)
(* continue is lowered into a break of an inner loop that runs once.       *)
(***************************************************************************)
EXTENDS Ast

CONSTANT FlagNames   \* names for the break flags, a sequence

InvertCondition(c) == IF c.op = "not" THEN c.args[1] ELSE ReduceCondition(Not(c))

Inverted(s) == [s EXCEPT !.right = <<InvertCondition(@[1])>>, !.blocks = <<@[2], @[1]>>]

RECURSIVE BlockTerminates(_)
Terminates(s) ==
  \/ s.kind \in {"return", "break", "continue"}
  \/ s.kind = "if" /\ s.blocks[2] # <<>> /\ \A b \in {1, 2} : BlockTerminates(s.blocks[b])
BlockTerminates(block) == block # <<>> /\ Terminates(Last(block))

\* Statements i of the block become the statements ss.
Spliced(block, i, ss) == SubSeq(block, 1, i - 1) \o ss \o SubSeq(block, i + 1, Len(block))

\* A branch whose condition decides nothing is replaced by what it selects.
IsConstant(s) == /\ s.kind = "if" /\ ~HasSideEffects(s.right[1])
                 /\ IsBoolean(ReduceCondition(s.right[1]))
Selected(s) == s.blocks[IF ReduceCondition(s.right[1]) = True THEN 1 ELSE 2]

RECURSIVE ResolveFrom(_, _), NormalizeFrom(_, _), FlattenFrom(_, _)
ResolveFrom(block, i) ==
  IF i > Len(block) THEN block
  ELSE IF IsConstant(block[i])
       THEN ResolveFrom(Spliced(block, i, Selected(block[i])), i + Len(Selected(block[i])))
       ELSE ResolveFrom(block, i + 1)

NormalizeFrom(block, i) ==
  IF i > Len(block) THEN block
  ELSE CASE block[i].kind = "if" /\ block[i].blocks = <<<<>>, <<>>>> /\ ~HasSideEffects(block[i].right[1]) ->
              NormalizeFrom(RemoveAt(block, i), i)
         [] block[i].kind = "if" /\ block[i].blocks[1] = <<>> /\ block[i].blocks[2] # <<>> ->
              NormalizeFrom([block EXCEPT ![i] = Inverted(@)], i + 1)
         [] OTHER -> NormalizeFrom(block, i + 1)

\* The branch that does not terminate moves behind the one that does.
Flattened(s) ==
  LET guard == IF BlockTerminates(s.blocks[1]) THEN s ELSE Inverted(s)
  IN <<[guard EXCEPT !.blocks[2] = <<>>]>> \o guard.blocks[2]
MayFlatten(s) == /\ s.kind = "if" /\ s.blocks[2] # <<>>
                 /\ \E b \in {1, 2} : BlockTerminates(s.blocks[b])

FlattenFrom(block, i) ==
  IF i > Len(block) THEN block
  ELSE FlattenFrom(IF MayFlatten(block[i]) THEN Spliced(block, i, Flattened(block[i])) ELSE block, i + 1)

\* The last statement "if c then body end" of a block becomes a guard that
\* leaves, followed by the body.
Guarded(block, leave) ==
  LET s == Last(block)
  IN Front(block) \o <<[s EXCEPT !.right = <<InvertCondition(@[1])>>, !.blocks = <<<<leave>>, <<>>>>]>>
       \o s.blocks[1]

IsTailGuard(block) ==
  /\ block # <<>> /\ Last(block).kind = "if" /\ Last(block).blocks[2] = <<>>
  /\ LET then == Last(block).blocks[1]
     IN /\ then # <<>> /\ ~BlockTerminates(then)
        /\ Len(then) >= 2 \/ \E i \in DOMAIN then : IsStructured(then[i])

\* Ordering comparisons stay negated when they are inverted, so a negated
\* one at the end of a function was a guard.
IsComparisonGuard(block) ==
  /\ block # <<>> /\ Last(block).kind = "if" /\ Last(block).blocks[2] = <<>>
  /\ LET c == Last(block).right[1]
     IN c.op = "not" /\ c.args[1].op = "binary" /\ c.args[1].name \in {"<", "<=", ">", ">="}
  /\ Last(block).blocks[1] # <<>> /\ ~BlockTerminates(Last(block).blocks[1])

RECURSIVE CleanBlock(_, _, _), TrailingGuards(_)
CleanBlock(block, isLoop, allowContinue) ==
  LET Inside(s) == IF ~IsStructured(s) THEN s ELSE [s EXCEPT !.blocks =
                     [b \in DOMAIN @ |-> CleanBlock(@[b], s.kind # "if", allowContinue)]]
      Guard(once) == IF isLoop /\ allowContinue /\ IsTailGuard(once)
                     THEN CleanBlock(Guarded(once, Continue), isLoop, allowContinue) ELSE once
  IN Guard(FlattenFrom(NormalizeFrom(ResolveFrom([i \in DOMAIN block |-> Inside(block[i])], 1), 1), 1))

TrailingGuards(block) ==
  IF IsComparisonGuard(block) THEN TrailingGuards(Guarded(block, Return(<<>>))) ELSE block

CleanupControlFlow(block, allowContinue) == TrailingGuards(CleanBlock(block, FALSE, allowContinue))

(***************************************************************************)
(* Continue in Lua 5.1.                                                    *)
(***************************************************************************)
RECURSIVE LoopControls(_)
\* The kinds of control statements of the current loop that a block holds.
LoopControls(block) ==
  UNION {CASE s.kind \in {"break", "continue"} -> {s.kind}
           [] s.kind \in {"if", "do"} -> UNION {LoopControls(s.blocks[b]) : b \in DOMAIN s.blocks}
           [] OTHER -> {} : s \in ToSet(block)}

\* continue becomes break; break first raises the flag.
RECURSIVE Rewritten(_, _)
Rewritten(block, flag) ==
  FlattenSeq([i \in DOMAIN block |->
    CASE block[i].kind = "continue" -> <<Break>>
      [] block[i].kind = "break"    -> flag \o <<Break>>
      [] block[i].kind \in {"if", "do"} ->
           <<[block[i] EXCEPT !.blocks = [b \in DOMAIN @ |-> Rewritten(@[b], flag)]]>>
      [] OTHER -> <<block[i]>>])

RECURSIVE LocalsIn(_)
LocalsIn(block) ==
  UNION {StatValues(s) \cup UNION {LocalsIn(s.blocks[b]) : b \in DOMAIN s.blocks} : s \in ToSet(block)}

\* A slip: a loop that also breaks is left as it is.
LowersWithoutBreak(block) ==
  IF LoopControls(block) = {"continue"} THEN <<Repeat(True, Rewritten(block, <<>>))>> ELSE block

LowerBody(block) ==
  LET controls == LoopControls(block)
      flag == SelectSeq(FlagNames, LAMBDA x : x \notin LocalsIn(block))[1]
      Wrapped(raise) == Repeat(True, Rewritten(block, raise))
  IN CASE "continue" \notin controls -> block
       [] controls = {"continue"} -> <<Wrapped(<<>>)>>
       [] OTHER -> <<Declare(<<Local(flag)>>, <<False>>), Wrapped(<<Set(flag, True)>>),
                     If(Local(flag), <<Break>>, <<>>)>>

\* The condition of a repeat reads what its body declares.
DeclaresFor(s, condition) ==
  s.kind = "assign" /\ s.prefix /\ \E i \in DOMAIN s.left : s.left[i].name \in ReadSet(condition)

Boundary(block, condition) ==
  LET at == {i \in DOMAIN block : DeclaresFor(block[i], condition)}
  IN IF at = {} THEN 0 ELSE CHOOSE i \in at : \A j \in at : j <= i

\* The declarations go in front, what they assign stays where it was.
Hoisted(block, condition) ==
  LET declared == SelectSeq(block, LAMBDA s : DeclaresFor(s, condition))
  IN [declarations |-> [i \in DOMAIN declared |-> Declare(declared[i].left, <<>>)],
      body |-> FlattenSeq([i \in DOMAIN block |->
                 IF ~DeclaresFor(block[i], condition) THEN <<block[i]>>
                 ELSE IF block[i].right = <<>> THEN <<>> ELSE <<[block[i] EXCEPT !.prefix = FALSE]>>])]

\* The body of a repeat up to the last declaration its condition reads stays
\* outside; a continue in front of that needs the declarations hoisted.
LowerRepeat(block, boundary, hoisted) ==
  IF "continue" \in LoopControls(SubSeq(block, 1, boundary))
  THEN hoisted.declarations \o LowerBody(hoisted.body)
  ELSE SubSeq(block, 1, boundary) \o LowerBody(SubSeq(block, boundary + 1, Len(block)))

LowerLoop(s, block) ==
  LET boundary == IF s.kind = "repeat" THEN Boundary(block, s.right[1]) ELSE 0
  IN CASE "continue" \notin LoopControls(block) -> block
       [] "continue" \in LoopControls(block) /\ boundary = 0 -> LowerBody(block)
       [] OTHER -> LowerRepeat(block, boundary, Hoisted(block, s.right[1]))

RECURSIVE LowerContinues(_)
LowerLoopBody(s) == LowerLoop(s, LowerContinues(s.blocks[1]))

LowerContinues(block) ==
  [i \in DOMAIN block |->
    CASE block[i].kind \in {"if", "do"} ->
           [block[i] EXCEPT !.blocks = [b \in DOMAIN @ |-> LowerContinues(@[b])]]
      [] block[i].kind \in {"while", "repeat", "for"} ->
           [block[i] EXCEPT !.blocks = <<LowerLoopBody(block[i])>>]
      [] OTHER -> block[i]]
=============================================================================
