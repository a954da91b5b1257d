---------------------------- MODULE AstRecovery ----------------------------
(***************************************************************************)
(* The recovery passes over a restructured body: single-use copies of      *)
(* locals are dropped (alias_elimination.rs), constant slots of private    *)
(* tables are folded into their one read (slot_folding.rs), and branches   *)
(* and temporaries are turned back into expressions                        *)
(* (expression_recovery.rs).  Each moves a value from its own statement    *)
(* into a later one, and may do so only where nothing can tell.            *)
(***************************************************************************)
EXTENDS Ast

\* One step of a walk in evaluation order over the expressions es: Place
\* says of each whether it held the place looked for ("no", "placed",
\* "refused"), what it became, and whether an effect has been crossed.
InOrder(Place(_, _), es, crossed) ==
  FoldLeft(LAMBDA acc, i :
             IF acc.found # "no" THEN acc
             ELSE LET r == Place(es[i], acc.crossed)
                  IN [found |-> r.found, list |-> [acc.list EXCEPT ![i] = r.e],
                      crossed |-> r.crossed],
           [found |-> "no", list |-> es, crossed |-> crossed], [i \in DOMAIN es |-> i])

Here(e, value, refused, crossed) ==
  [found |-> IF refused THEN "refused" ELSE "placed",
   e |-> IF refused THEN e ELSE value, crossed |-> crossed]

\* The expressions of a statement, its targets' before its values.
TargetExpressions(s) ==
  FlattenSeq([i \in DOMAIN s.left |-> IF s.left[i].op = "index" THEN s.left[i].args ELSE <<>>])
StatExpressions(s) == TargetExpressions(s) \o s.right
WithExpressions(s, es) ==
  LET before(i) == 2 * Cardinality({j \in 1 .. i - 1 : s.left[j].op = "index"})
      targets == Len(TargetExpressions(s))
  IN [s EXCEPT !.left = [i \in DOMAIN s.left |->
                          IF s.left[i].op = "index"
                          THEN [s.left[i] EXCEPT !.args = SubSeq(es, before(i) + 1, before(i) + 2)]
                          ELSE s.left[i]],
               !.right = SubSeq(es, targets + 1, Len(es))]

\* The statement from "start" on that holds the only read of x in the rest
\* of the block, or 0.
SingleRead(block, start, x) ==
  LET rest  == start .. Len(block)
      reads == {i \in rest : x \in ToSet(StatReads(block[i]))}
  IN IF \/ \E i \in rest : IsStructured(block[i]) \/ x \in StatWrites(block[i])
        \/ Cardinality(reads) # 1
     THEN 0
     ELSE LET at == CHOOSE i \in reads : TRUE
          IN IF Len(SelectSeq(StatReads(block[at]), LAMBDA y : y = x)) = 1 THEN at ELSE 0

Moved(block, from, at, s) == RemoveAt([block EXCEPT ![at] = s], from)

(***************************************************************************)
(* Alias elimination.                                                      *)
(***************************************************************************)
IsAlias(s) == /\ s.kind = "assign" /\ Len(s.left) = 1 /\ Len(s.right) = 1
              /\ s.left[1].op = "local" /\ s.right[1].op = "local"

RECURSIVE PlaceAlias(_, _, _, _)
PlaceAlias(e, x, source, crossed) ==
  IF e = Local(x) THEN Here(e, Local(source), crossed, crossed)
  ELSE LET r == InOrder(LAMBDA child, c : PlaceAlias(child, x, source, c), Children(e), crossed)
       IN [found |-> r.found,
           e |-> IF e.op = "closure" THEN e ELSE [e EXCEPT !.args = r.list],
           crossed |-> r.crossed \/ (r.found = "no" /\ IsObservable(e))]

\* The last read of an alias looked for in the whole block, as if nothing
\* between the copy and it mattered.
AliasMayGo(block, i, at) ==
  LET source == block[i].right[1].name IN
  /\ \A j \in i + 1 .. at : source \notin StatWrites(block[j])
  /\ \A j \in i + 1 .. at - 1 : ~StatHasEffects(block[j])

AliasPlaced(block, i, at) ==
  LET x == block[i].left[1].name
      source == block[i].right[1].name
      r == InOrder(LAMBDA e, c : PlaceAlias(e, x, source, c), StatExpressions(block[at]), FALSE)
  IN [ok |-> r.found = "placed", s |-> WithExpressions(block[at], r.list)]

RECURSIVE AliasesFrom(_, _, _)
AliasesFrom(block, i, protected) ==
  IF i > Len(block) THEN block
  ELSE LET at == IF IsAlias(block[i]) /\ block[i].left[1].name \notin protected
                 THEN SingleRead(block, i + 1, block[i].left[1].name) ELSE 0
       IN IF at # 0 /\ AliasMayGo(block, i, at) /\ AliasPlaced(block, i, at).ok
          THEN AliasesFrom(Moved(block, i, at, AliasPlaced(block, i, at).s), i, protected)
          ELSE AliasesFrom(block, i + 1, protected)

RECURSIVE EliminateAliases(_, _)
EliminateAliases(block, protected) ==
  LET once == AliasesFrom(block, 1, protected) IN
  IF once # block THEN EliminateAliases(once, protected)
  ELSE [i \in DOMAIN block |-> [block[i] EXCEPT !.blocks =
         [b \in DOMAIN @ |-> EliminateAliases(@[b], protected)]]]

(***************************************************************************)
(* Slot folding.  A slot is a table and a constant key.                    *)
(***************************************************************************)
CONSTANT SlotScanLimit   \* how far a fold looks for its read (SLOT_SCAN_LIMIT)

IsSlotKey(k) == k.op = "literal" /\ k.name \notin {"nil", "true", "false"}
IsSlot(e, t, k) == e = Index(Local(t), k)
IsSlotOf(e, tables) == e.op = "index" /\ e.args[1].op = "local" /\ e.args[1].name \in tables

RECURSIVE SlotReadsIn(_, _, _)
SlotReadsIn(e, t, k) ==
  IF IsSlot(e, t, k) THEN 1
  ELSE FoldLeft(LAMBDA n, c : n + SlotReadsIn(c, t, k), 0, Children(e))

TotalReads(es, t, k) == FoldLeft(LAMBDA n, e : n + SlotReadsIn(e, t, k), 0, es)

\* Writing the slot is not reading it.
StatSlotReads(s, t, k) ==
  TotalReads(FlattenSeq([i \in DOMAIN s.left |->
               IF s.left[i].op # "index" \/ IsSlot(s.left[i], t, k) THEN <<>> ELSE s.left[i].args]), t, k)
    + TotalReads(s.right, t, k)

RECURSIVE TreeSlotReads(_, _, _), TreeWrites(_, _), TreeStatements(_)
TreeSlotReads(block, t, k) ==
  FoldLeft(LAMBDA n, s : n + StatSlotReads(s, t, k)
                           + FoldLeft(LAMBDA m, b : m + TreeSlotReads(b, t, k), 0, s.blocks),
           0, block)
TreeWrites(block, x) ==
  FoldLeft(LAMBDA n, s : n + Len(SelectSeq(s.left, LAMBDA e : e = Local(x)))
                           + FoldLeft(LAMBDA m, b : m + TreeWrites(b, x), 0, s.blocks),
           0, block)
TreeStatements(block) ==
  ToSet(block) \cup UNION {UNION {TreeStatements(s.blocks[i]) : i \in DOMAIN s.blocks} :
                            s \in ToSet(block)}

\* The tables an expression uses otherwise than as the base of a constant slot.
RECURSIVE OpaqueIn(_, _)
OpaqueIn(e, tables) ==
  CASE IsSlotOf(e, tables) -> (IF IsSlotKey(e.args[2]) THEN {} ELSE {e.args[1].name})
                                \cup OpaqueIn(e.args[2], tables)
    [] e.op \in {"local", "closure"} -> ReadSet(e) \cap tables
    [] OTHER -> UNION {OpaqueIn(e.args[i], tables) : i \in DOMAIN e.args}

\* A computed key that is only written leaves the table transparent.
OpaqueInTarget(e, tables) ==
  CASE e.op # "index" -> {}
    [] IsSlotOf(e, tables) -> OpaqueIn(e.args[2], tables)
    [] OTHER -> OpaqueIn(e.args[1], tables) \cup OpaqueIn(e.args[2], tables)

OpaqueInStat(s, tables) ==
  UNION {OpaqueIn(s.right[i], tables) : i \in DOMAIN s.right}
    \cup (IF s.kind # "assign" THEN {}
          ELSE UNION {OpaqueInTarget(s.left[i], tables) : i \in DOMAIN s.left})

\* Locals written once, by a table literal, whose every use is a slot's.
FoldableTables(block, protected) ==
  LET all == TreeStatements(block)
      bound == {s.left[1].name : s \in {t \in all : /\ t.kind = "assign" /\ ~t.parallel
                                                     /\ Len(t.left) = 1 /\ t.left[1].op = "local"
                                                     /\ Len(t.right) = 1 /\ t.right[1].op = "table"}}
      candidates == {t \in bound \ protected : TreeWrites(block, t) = 1}
  IN candidates \ UNION {OpaqueInStat(s, candidates) : s \in all}

IsSlotWrite(s) ==
  /\ s.kind = "assign" /\ ~s.prefix /\ ~s.parallel /\ Len(s.left) = 1 /\ Len(s.right) = 1
  /\ s.left[1].op = "index" /\ s.left[1].args[1].op = "local" /\ IsSlotKey(s.left[1].args[2])

WritesSlot(s, t, k) == s.kind = "assign" /\ \E i \in DOMAIN s.left : IsSlot(s.left[i], t, k)

\* Any call may run code that observes the slot, any indexed write may hit
\* a table the value reads.
BlocksWindow(s) ==
  s.kind # "assign" \/ StatHasEffects(s) \/ \E i \in DOMAIN s.left : s.left[i].op # "local"

\* The read the slot written at i may be folded into, or 0.  counts gives
\* the reads of every slot in the whole body.
FoldTarget(block, i, foldable, counts) ==
  LET t == block[i].left[1].args[1].name
      k == block[i].left[1].args[2]
      value == block[i].right[1]
      Passes(s) == /\ ~IsStructured(s) /\ StatSlotReads(s, t, k) = 0 /\ ~BlocksWindow(s)
                   /\ HasSideEffects(value) => StatValues(s) = {}
      last == IF i + SlotScanLimit < Len(block) THEN i + SlotScanLimit ELSE Len(block)
      found == {r \in i + 1 .. last :
                  /\ ~IsStructured(block[r]) /\ StatSlotReads(block[r], t, k) = 1
                  /\ \A j \in i + 1 .. r - 1 : Passes(block[j])
                  /\ \A j \in i + 1 .. r : StatWrites(block[j]) \cap ReadSet(value) = {}
                  /\ WritesSlot(block[r], t, k) \/ counts[t, k] = 1}
  IN IF t \in foldable /\ SlotReadsIn(value, t, k) = 0 /\ found # {}
     THEN CHOOSE r \in found : TRUE ELSE 0

\* A constant slot of a foldable table is plain memory.
ObservableSlot(e, foldable) ==
  ~(IsSlotOf(e, foldable) /\ IsSlotKey(e.args[2])) /\ IsObservable(e)

IsOrderSensitive(value) == HasSideEffects(value) \/ ReadSet(value) # {}

\* fold is [slot, value, tables].
RECURSIVE PlaceSlot(_, _, _)
PlaceSlot(e, fold, crossed) ==
  LET Walk(es, c) == InOrder(LAMBDA child, d : PlaceSlot(child, fold, d), es, c)
      \* a later operand that may be skipped, or that a method lookup precedes
      split == \/ e.op \in {"conditional", "method", "selectmethod"}
               \/ e.op = "binary" /\ e.name \in {"and", "or"}
      head == Walk(<<e.args[1]>>, crossed)
      tail == Walk(Tail(e.args), TRUE)
      r == CASE split /\ head.found # "no" -> [head EXCEPT !.list = @ \o Tail(e.args)]
             [] split /\ head.found = "no" -> [tail EXCEPT !.list = <<e.args[1]>> \o @]
             [] OTHER -> Walk(Children(e), crossed)
  IN IF e = fold.slot
     THEN Here(e, fold.value, IsOrderSensitive(fold.value) /\ crossed, crossed)
     ELSE [found |-> r.found,
           e |-> IF e.op = "closure" THEN e ELSE [e EXCEPT !.args = r.list],
           crossed |-> \/ r.crossed
                       \/ /\ r.found = "no"
                          /\ \/ ObservableSlot(e, fold.tables)
                             \/ HasSideEffects(fold.value) /\ ReadSet(e) # {}]

InTarget(s, t, k) ==
  \E i \in DOMAIN s.left : /\ s.left[i].op = "index" /\ ~IsSlot(s.left[i], t, k)
                           /\ TotalReads(s.left[i].args, t, k) > 0

\* The object of a method is looked at before the method is found.
PlaceInOperands(s, fold, inTarget) ==
  LET Operands(m) == [found |-> m.found, list |-> m.e.args]
      targetEffect == \E i \in DOMAIN TargetExpressions(s) :
                        ObservableSlot(TargetExpressions(s)[i], fold.tables)
  IN IF s.kind = "method" THEN Operands(PlaceSlot(Expr("method", "", s.right), fold, FALSE))
     ELSE InOrder(LAMBDA e, c : PlaceSlot(e, fold, c),
                  IF inTarget THEN TargetExpressions(s) ELSE s.right,
                  s.kind = "assign" /\ targetEffect)

\* The statement with the value placed.  A value whose position matters is
\* not placed in a target, and an effect in a target comes before any value.
SlotPlaced(s, fold) ==
  LET inTarget == s.kind = "assign" /\ InTarget(s, fold.slot.args[1].name, fold.slot.args[2])
      Finish(r) == [ok |-> r.found = "placed" /\ ~(inTarget /\ IsOrderSensitive(fold.value)),
                    s |-> IF inTarget THEN WithExpressions(s, r.list \o s.right)
                          ELSE [s EXCEPT !.right = r.list]]
  IN Finish(PlaceInOperands(s, fold, inTarget))

\* Backwards through the block; after a fold the same place is tried again.
RECURSIVE FoldBlock(_, _, _, _), FoldTree(_, _, _)
FoldBlock(block, i, foldable, counts) ==
  LET slot == block[i].left[1]
      Place(at, placed) ==
        IF placed.ok
        THEN FoldBlock(Moved(block, i, at, placed.s), i, foldable,
                       [counts EXCEPT ![slot.args[1].name, slot.args[2]] = @ - 1])
        ELSE FoldBlock(block, i - 1, foldable, counts)
      Try(at) ==
        IF at = 0 THEN FoldBlock(block, i - 1, foldable, counts)
        ELSE Place(at, SlotPlaced(block[at], [slot |-> slot, value |-> block[i].right[1], tables |-> foldable]))
  IN IF i = 0 THEN [block |-> block, counts |-> counts]
     ELSE Try(IF i <= Len(block) /\ IsSlotWrite(block[i]) THEN FoldTarget(block, i, foldable, counts) ELSE 0)

FoldHere(r, foldable) == FoldBlock(r.block, Len(r.block), foldable, r.counts)

FoldTree(block, foldable, counts) ==
  LET places == FlattenSeq([i \in DOMAIN block |-> [b \in DOMAIN block[i].blocks |-> <<i, b>>]])
      Put(acc, at, r) == [block |-> [acc.block EXCEPT ![at[1]].blocks[at[2]] = r.block], counts |-> r.counts]
      Inside(acc, at) == Put(acc, at, FoldTree(acc.block[at[1]].blocks[at[2]], foldable, acc.counts))
  IN FoldHere(FoldLeft(Inside, [block |-> block, counts |-> counts], places), foldable)

FoldTableSlots(block, protected) ==
  LET foldable == FoldableTables(block, protected)
      keys == {e \in UNION {Subexpressions(x) : x \in
                 UNION {ToSet(StatExpressions(s)) \cup ToSet(s.left) : s \in TreeStatements(block)}} :
                 IsSlotKey(e)}
  IN IF foldable = {} THEN block
     ELSE FoldTree(block, foldable,
                   [slot \in foldable \X keys |-> TreeSlotReads(block, slot[1], slot[2])]).block

(***************************************************************************)
(* Expression recovery.                                                    *)
(***************************************************************************)
\* if c then x = a else x = b end   becomes   x = if c then a else b.
IsConditional(s) ==
  /\ s.kind = "if"
  /\ \A b \in {1, 2} : Len(s.blocks[b]) = 1 /\ IsSimpleAssign(s.blocks[b][1])
  /\ s.blocks[1][1].left = s.blocks[2][1].left
  /\ LET x == s.blocks[1][1].left[1].name
     IN x \notin ReadSet(s.right[1]) \cup ReadSet(s.blocks[1][1].right[1])
                   \cup ReadSet(s.blocks[2][1].right[1])
ConditionalOf(s) ==
  Assign(s.blocks[1][1].left,
         <<Conditional(s.right[1], s.blocks[1][1].right[1], s.blocks[2][1].right[1])>>)

\* x = a; if x then x = b end   becomes   x = a and b,   and not x: or.
Extends(first, second, protected) ==
  /\ IsSimpleAssign(first) /\ first.left[1].name \notin protected
  /\ first.left[1].name \notin ReadSet(first.right[1])
  /\ second.kind = "if" /\ second.right[1] \in {first.left[1], Not(first.left[1])}
  /\ second.blocks[2] = <<>>
  /\ Len(second.blocks[1]) = 1 /\ IsSimpleAssign(second.blocks[1][1])
  /\ second.blocks[1][1].left = first.left
  /\ first.left[1].name \notin ReadSet(second.blocks[1][1].right[1])
Extended(first, second) ==
  [first EXCEPT !.right = <<Binary(@[1], IF second.right[1] = first.left[1] THEN "and" ELSE "or",
                                   second.blocks[1][1].right[1])>>]

RECURSIVE ShortCircuits(_, _, _)
ShortCircuits(block, i, protected) ==
  IF i + 1 > Len(block) THEN block
  ELSE IF Extends(block[i], block[i + 1], protected)
       THEN ShortCircuits(Moved(block, i + 1, i, Extended(block[i], block[i + 1])), i, protected)
       ELSE ShortCircuits(block, i + 1, protected)

IsCandidate(s, protected) ==
  /\ IsSimpleAssign(s) /\ s.left[1].name \notin protected
  /\ s.right[1].op \notin {"local", "call", "method", "closure", "table"}
  /\ s.left[1].name \notin ReadSet(s.right[1])

RECURSIVE PlaceValue(_, _, _, _)
PlaceValue(e, x, value, crossed) ==
  LET Walk(es, c) == InOrder(LAMBDA child, d : PlaceValue(child, x, value, d), es, c)
      guarded == e.op = "conditional" \/ (e.op = "binary" /\ e.name \in {"and", "or"})
      isMethod == e.op \in {"method", "selectmethod"}
      head == Walk(<<e.args[1]>>, crossed)
      tail == Walk(Tail(e.args), TRUE)
      whole == IF guarded \/ isMethod THEN head ELSE Walk(Children(e), crossed)
      Crosses == IsObservable(e) \/ (HasSideEffects(value) /\ ReadSet(e) # {})
  IN CASE e = Local(x) -> Here(e, value, crossed, crossed)
       [] (guarded \/ isMethod) /\ head.found # "no" ->
            [found |-> head.found, e |-> [e EXCEPT !.args[1] = head.list[1]], crossed |-> head.crossed]
       \* what may be skipped cannot take a value that always runs
       [] guarded /\ head.found = "no" /\ (\E i \in 2 .. Len(e.args) : x \in ReadSet(e.args[i])) ->
            [found |-> "refused", e |-> e, crossed |-> head.crossed]
       [] guarded /\ head.found = "no" /\ (\A i \in 2 .. Len(e.args) : x \notin ReadSet(e.args[i])) ->
            [found |-> "no", e |-> e, crossed |-> head.crossed \/ Crosses]
       \* the method is looked up before its arguments
       [] isMethod /\ head.found = "no" ->
            [found |-> tail.found, e |-> [e EXCEPT !.args = <<@[1]>> \o tail.list], crossed |-> TRUE]
       [] OTHER ->
            [found |-> whole.found,
             e |-> IF e.op = "closure" THEN e ELSE [e EXCEPT !.args = whole.list],
             crossed |-> whole.crossed \/ (whole.found = "no" /\ Crosses)]

\* The consumer with the temporary x replaced by its value.
Consumed(s, x, value) ==
  LET targetCrossed == \E i \in DOMAIN s.left :
                         \/ TargetHasEffects(s.left[i])
                         \/ HasSideEffects(value) /\ TargetReads(s.left[i]) # <<>>
      Finish(found, list) == [ok |-> s.kind \in {"assign", "call", "method", "return"} /\ found = "placed",
                              s |-> [s EXCEPT !.right = list]]
      Method(m) == Finish(m.found, m.e.args)
      Operands(r) == Finish(r.found, r.list)
  IN IF s.kind = "method" THEN Method(PlaceValue(Expr("method", "", s.right), x, value, FALSE))
     ELSE Operands(InOrder(LAMBDA e, c : PlaceValue(e, x, value, c), s.right, s.kind = "assign" /\ targetCrossed))

\* A slip: what the value does itself is forgotten.
MovesPastReads(block, i, at) ==
  LET value == block[i].right[1] IN
  /\ \A j \in i + 1 .. at - 1 : ~StatHasEffects(block[j])
  /\ \A j \in i + 1 .. at : StatWrites(block[j]) \cap ReadSet(value) = {}

\* The value may move from i to "at" past everything between.
MayMove(block, i, at) ==
  LET value == block[i].right[1] IN
  /\ \A j \in i + 1 .. at - 1 : ~StatHasEffects(block[j])
  /\ HasSideEffects(value) => \A j \in i + 1 .. at - 1 : StatValues(block[j]) = {}
  /\ \A j \in i + 1 .. at : StatWrites(block[j]) \cap ReadSet(value) = {}

RECURSIVE InlineFrom(_, _, _)
InlineFrom(block, i, protected) ==
  LET Place(at, placed) == IF placed.ok THEN InlineFrom(Moved(block, i, at, placed.s), i, protected)
                           ELSE InlineFrom(block, i + 1, protected)
      Try(at) == IF at # 0 /\ MayMove(block, i, at)
                 THEN Place(at, Consumed(block[at], block[i].left[1].name, block[i].right[1]))
                 ELSE InlineFrom(block, i + 1, protected)
  IN IF i > Len(block) THEN block
     ELSE Try(IF IsCandidate(block[i], protected) THEN SingleRead(block, i + 1, block[i].left[1].name) ELSE 0)

\* The temporaries of a run, met in the order they were defined in, with
\* nothing observable before the last of them.
RECURSIVE GroupWalk(_, _, _, _)
GroupWalk(e, isPrefix, targets, walk) ==
  LET mentions == ReadSet(e) \cap ToSet(targets) # {}
      at == SelectInSeq(targets, LAMBDA x : Local(x) = e)
  IN CASE ~walk.ordered -> walk
       [] walk.ordered /\ at # 0 -> [matched |-> walk.matched + 1, ordered |-> at = walk.matched + 1]
       [] walk.ordered /\ at = 0 /\ ~mentions ->
            [walk EXCEPT !.ordered = isPrefix \/ walk.matched = Len(targets) \/ ~HasSideEffects(e)]
       [] walk.ordered /\ at = 0 /\ mentions
            /\ (e.op \in {"conditional", "closure"} \/ (e.op = "binary" /\ e.name \in {"and", "or"})) ->
            [walk EXCEPT !.ordered = FALSE]
       [] OTHER -> FoldLeft(LAMBDA w, c : GroupWalk(c, isPrefix, targets, w), walk, Children(e))

\* The first read of x in evaluation order becomes the value.
RECURSIVE ReplaceRead(_, _, _)
ReplaceRead(e, x, value) ==
  IF e = Local(x) THEN Here(e, value, FALSE, FALSE)
  ELSE LET r == InOrder(LAMBDA child, c : ReplaceRead(child, x, value), Children(e), FALSE)
       IN [found |-> r.found, e |-> IF e.op = "closure" THEN e ELSE [e EXCEPT !.args = r.list],
           crossed |-> FALSE]

WalkAll(es, targets, walk) == FoldLeft(LAMBDA w, e : GroupWalk(e, FALSE, targets, w), walk, es)

\* The walk over all operands of a statement; a callee goes first.
WalkOperands(s, targets) ==
  LET begun == [matched |-> 0, ordered |-> TRUE] IN
  IF s.kind = "return" THEN WalkAll(s.right, targets, begun)
  ELSE WalkAll(Tail(s.right), targets, GroupWalk(s.right[1], TRUE, targets, begun))

\* The definitions from first to c may be folded into c together.
IsGroup(block, run, first, c) ==
  LET targets == [i \in 1 .. c - first |-> block[first + i - 1].left[1].name]
      Complete(walk) == walk.ordered /\ walk.matched = Len(targets)
  IN /\ block[c].kind \in {"call", "method", "return"}
     /\ c - first >= 2
     /\ \A i \in run .. first - 1 : block[i].left[1].name \notin ToSet(StatReads(block[c]))
     /\ Complete(WalkOperands(block[c], targets))

\* The first of the definitions before consumer c that are folded into it,
\* or c: all of them or none, so that no order is invented.
GroupStart(block, c, protected) ==
  LET ReadHere(i) == SingleRead(block, i + 1, block[i].left[1].name) = c
      Checked(run, first) == IF IsGroup(block, run, first, c) THEN first ELSE c
      From(run) == Checked(run, CHOOSE f \in run .. c : /\ \A i \in f .. c - 1 : ReadHere(i)
                                                        /\ f = run \/ ~ReadHere(f - 1))
  IN From(CHOOSE s \in 1 .. c : /\ \A i \in s .. c - 1 : IsCandidate(block[i], protected)
                                /\ s = 1 \/ ~IsCandidate(block[s - 1], protected))

\* The statement with the values of all these definitions in place.
Folded(s, definitions) ==
  FoldLeft(LAMBDA t, d :
    [t EXCEPT !.right = InOrder(LAMBDA e, c : ReplaceRead(e, d.left[1].name, d.right[1]), @, FALSE).list],
    s, definitions)

RECURSIVE FoldGroups(_, _, _)
FoldGroups(block, c, protected) ==
  LET From(first) ==
        IF first < c
        THEN FoldGroups(SubSeq(block, 1, first - 1) \o <<Folded(block[c], SubSeq(block, first, c - 1))>>
                          \o SubSeq(block, c + 1, Len(block)), first + 1, protected)
        ELSE FoldGroups(block, c + 1, protected)
  IN IF c > Len(block) THEN block ELSE From(GroupStart(block, c, protected))

RECURSIVE InlineAll(_, _), RecoverBlock(_, _, _)
InlineAll(block, protected) ==
  LET Again(once) == IF once = block THEN block ELSE InlineAll(once, protected)
  IN Again(FoldGroups(InlineFrom(block, 1, protected), 2, protected))

\* Branches are only made expressions where the language has them.
RecoverBlock(block, protected, conditionals) ==
  LET Recovered(s) == IF conditionals /\ IsConditional(s) THEN ConditionalOf(s) ELSE s
      Nested(s) == [s EXCEPT !.blocks = [b \in DOMAIN @ |-> RecoverBlock(@[b], protected, conditionals)]]
  IN InlineAll(ShortCircuits([i \in DOMAIN block |-> Recovered(Nested(block[i]))], 1, protected), protected)
=============================================================================
