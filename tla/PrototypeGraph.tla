--------------------------- MODULE PrototypeGraph ---------------------------
(***************************************************************************)
(* validate_prototype_graph (luau-lifter/src/lib.rs): an iterative         *)
(* depth-first search over every prototype of a chunk.  It rejects a       *)
(* reference to a missing prototype and a cycle, and otherwise returns the *)
(* order in which the expansion budget and the decompiler process the      *)
(* prototypes: every prototype before the prototypes it names.             *)
(*                                                                         *)
(* The chunk is its prototype table, as far as the driver looks at it:     *)
(* which prototypes a prototype names, and where its instruction stream    *)
(* creates closures.  Constants that are not closures and instructions     *)
(* that neither create a closure, nor return, nor end a basic block carry  *)
(* no information here and are left out.                                   *)
(***************************************************************************)
EXTENDS Integers, SequencesExt

(* An instruction: create a closure from the child table (NEWCLOSURE) or   *)
(* from a closure constant (DUPCLOSURE), RETURN, a JUMP after which a new  *)
(* basic block starts, one the lifter refuses (UNSUPPORTED: an opcode or   *)
(* operand it cannot lift), or anything else.  slot is the signed operand. *)
Instruction == [op : {"NEWCLOSURE", "DUPCLOSURE", "RETURN", "JUMP", "UNSUPPORTED", "OTHER"},
                slot : Int]

(* functions is the child table and constants the closure constants, each  *)
(* a list of prototype ids that need not be in range.                      *)
Function == [functions : Seq(Nat), constants : Seq(Nat), code : Seq(Instruction)]

(* A chunk has at least one prototype and names one of them as its main    *)
(* function: the deserializer refuses any other (chunk.rs, main >= len).   *)
IsChunk(c) ==
    /\ c = [count |-> c.count, main |-> c.main, functions |-> c.functions]
    /\ c.count \in Nat \ {0}
    /\ c.main \in 0 .. c.count - 1
    /\ c.functions \in [0 .. c.count - 1 -> Function]

Prototypes(c) == 0 .. c.count - 1

(* The ids PrototypeFrame::next_child yields one after another: the whole  *)
(* child table, then every closure constant.                               *)
Children(c, f) == c.functions[f].functions \o c.functions[f].constants

(* The prototypes a prototype names.                                       *)
Named(c, f) == {Children(c, f)[i] : i \in 1 .. Len(Children(c, f))}

IsClosure(instruction) == instruction.op \in {"NEWCLOSURE", "DUPCLOSURE"}

(* The table an instruction's operand indexes.                             *)
ClosureTable(c, f, instruction) ==
    IF instruction.op = "NEWCLOSURE" THEN c.functions[f].functions
                                     ELSE c.functions[f].constants

(* closure_child answers Ok only for an operand that is an index of its    *)
(* table and names a prototype of the chunk.                               *)
ValidClosure(c, f, instruction) ==
    LET table == ClosureTable(c, f, instruction)
    IN  /\ instruction.slot \in 0 .. Len(table) - 1
        /\ table[instruction.slot + 1] \in Prototypes(c)

ClosureChild(c, f, instruction) ==
    ClosureTable(c, f, instruction)[instruction.slot + 1]

-----------------------------------------------------------------------------
CONSTANT Chunks     \* the chunks the search may be run on

ASSUME ChunksAssumption == \A c \in Chunks : IsChunk(c)

VARIABLES
  chunk,       \* the deserialized chunk
  states,      \* per prototype: 0 not visited, 1 on the stack, 2 finished
  postorder,   \* the finished prototypes, in the order they finished
  stack,       \* frames [function, cursor]; cursor children were yielded
  root,        \* the loop variable of the outer loop
  result       \* "running", or what the function returned

graphVars == <<chunk, states, postorder, stack, root, result>>

(* PrototypeFrame::new; one cursor stands for nested_cursor followed by    *)
(* constant_cursor, which only starts when the child table is exhausted.   *)
Frame(f) == [function |-> f, cursor |-> 0]

Top == stack[Len(stack)]

(* The prototype order is the postorder reversed.                          *)
PrototypeOrder == Reverse(postorder)

-----------------------------------------------------------------------------
Init ==
    /\ chunk \in Chunks
    /\ states = [p \in Prototypes(chunk) |-> 0]
    /\ postorder = <<>>
    /\ stack = <<>>
    /\ root = 0
    /\ result = "running"

(* The outer loop passes over a prototype that was already reached ...     *)
SkipRoot ==
    /\ result = "running" /\ stack = <<>> /\ root < chunk.count
    /\ states[root] # 0
    /\ root' = root + 1
    /\ UNCHANGED <<chunk, states, postorder, stack, result>>

(* ... and starts a search from every other.                               *)
StartRoot ==
    /\ result = "running" /\ stack = <<>> /\ root < chunk.count
    /\ states[root] = 0
    /\ states' = [states EXCEPT ![root] = 1]
    /\ stack' = <<Frame(root)>>
    /\ UNCHANGED <<chunk, postorder, root, result>>

Accept ==
    /\ result = "running" /\ stack = <<>> /\ root = chunk.count
    /\ result' = "accepted"
    /\ UNCHANGED <<chunk, states, postorder, stack, root>>

-----------------------------------------------------------------------------
(* The inner loop: the frame on top of the stack asks for its next child.  *)
HasChild ==
    /\ result = "running" /\ stack # <<>>
    /\ Top.cursor < Len(Children(chunk, Top.function))

Child == Children(chunk, Top.function)[Top.cursor + 1]

Advanced == [stack EXCEPT ![Len(stack)].cursor = @ + 1]

(* A plausible slip: a prototype counts as finished as soon as it is seen. *)
EnterFinished ==
    /\ HasChild /\ Child < chunk.count /\ states[Child] = 0
    /\ states' = [states EXCEPT ![Child] = 2]
    /\ stack' = Append(Advanced, Frame(Child))
    /\ UNCHANGED <<chunk, postorder, root, result>>

Descend ==
    /\ HasChild /\ Child < chunk.count /\ states[Child] = 0
    /\ states' = [states EXCEPT ![Child] = 1]
    /\ stack' = Append(Advanced, Frame(Child))
    /\ UNCHANGED <<chunk, postorder, root, result>>

PassFinished ==
    /\ HasChild /\ Child < chunk.count /\ states[Child] = 2
    /\ stack' = Advanced
    /\ UNCHANGED <<chunk, states, postorder, root, result>>

RejectCycle ==
    /\ HasChild /\ Child < chunk.count /\ states[Child] = 1
    /\ stack' = Advanced
    /\ result' = "cycle"
    /\ UNCHANGED <<chunk, states, postorder, root>>

RejectMissing ==
    /\ HasChild /\ Child >= chunk.count
    /\ stack' = Advanced
    /\ result' = "missing_child"
    /\ UNCHANGED <<chunk, states, postorder, root>>

(* A plausible slip: the frame is popped without being marked finished.    *)
PopUnmarked ==
    /\ result = "running" /\ stack # <<>>
    /\ Top.cursor = Len(Children(chunk, Top.function))
    /\ states' = [states EXCEPT ![Top.function] = 0]
    /\ postorder' = Append(postorder, Top.function)
    /\ stack' = Front(stack)
    /\ UNCHANGED <<chunk, root, result>>

(* No child is left: the prototype is finished.                            *)
Finish ==
    /\ result = "running" /\ stack # <<>>
    /\ Top.cursor = Len(Children(chunk, Top.function))
    /\ states' = [states EXCEPT ![Top.function] = 2]
    /\ postorder' = Append(postorder, Top.function)
    /\ stack' = Front(stack)
    /\ UNCHANGED <<chunk, root, result>>

Visit == \/ Descend
         \/ PassFinished
         \/ RejectCycle
         \/ RejectMissing

Next == \/ SkipRoot
        \/ StartRoot
        \/ Accept
        \/ Visit
        \/ Finish

(* The search is a plain sequential function: it runs until it returns.    *)
Spec == Init /\ [][Next]_graphVars /\ WF_graphVars(Next)

-----------------------------------------------------------------------------
Results == {"running", "accepted", "cycle", "missing_child"}

(* The variables hold values of the types the code declares for them.      *)
TypeOK ==
    /\ IsChunk(chunk)
    /\ states \in [Prototypes(chunk) -> 0 .. 2]
    /\ postorder \in Seq(Prototypes(chunk))
    /\ stack \in Seq([function : Prototypes(chunk), cursor : Nat])
    /\ root \in 0 .. chunk.count
    /\ result \in Results

(* f comes before g in the sequence s.                                     *)
Before(s, f, g) == \E i, j \in 1 .. Len(s) : i < j /\ s[i] = f /\ s[j] = g

(* What validate_expansion_budget relies on when it walks the returned     *)
(* order once: it lists every prototype exactly once and a prototype ahead *)
(* of all the prototypes it names, shared ones included.                   *)
OrderIsTopological ==
    result = "accepted" =>
        /\ \A p \in Prototypes(chunk) :
              \E i \in 1 .. Len(postorder) : PrototypeOrder[i] = p
        /\ \A i, j \in 1 .. Len(postorder) :
              PrototypeOrder[i] = PrototypeOrder[j] => i = j
        /\ \A f \in Prototypes(chunk) :
              \A g \in Named(chunk, f) : Before(PrototypeOrder, f, g)

(* A rejection for a cycle is never spurious: the frames from the one      *)
(* that holds the offending child up to the top name each other in turn    *)
(* and the last of them names the first.                                   *)
CycleIsReal ==
    result = "cycle" =>
        \E first \in 1 .. Len(stack) :
            /\ \A i \in first .. Len(stack) - 1 :
                  stack[i + 1].function \in Named(chunk, stack[i].function)
            /\ stack[first].function \in Named(chunk, Top.function)

(* The frames of the stack are different prototypes, and exactly the       *)
(* prototypes that are marked 1.                                           *)
StackIsMarked ==
    /\ \A i, j \in 1 .. Len(stack) : stack[i].function = stack[j].function => i = j
    /\ \A p \in Prototypes(chunk) :
          states[p] = 1 <=> \E i \in 1 .. Len(stack) : stack[i].function = p

(* Exactly the finished prototypes are listed, each one once.              *)
FinishedIsListed ==
    /\ \A i, j \in 1 .. Len(postorder) : postorder[i] = postorder[j] => i = j
    /\ \A p \in Prototypes(chunk) :
          states[p] = 2 <=> \E i \in 1 .. Len(postorder) : postorder[i] = p

(* A frame stands on the child its predecessor yielded last.               *)
StackIsPath ==
    \A i \in 1 .. Len(stack) - 1 :
        /\ stack[i].cursor \in 1 .. Len(Children(chunk, stack[i].function))
        /\ Children(chunk, stack[i].function)[stack[i].cursor] = stack[i + 1].function

(* While the search runs, the children a frame has yielded are finished,   *)
(* except the one the next frame stands on.                                *)
YieldedIsFinished ==
    result = "running" =>
        \A i \in 1 .. Len(stack) :
            /\ stack[i].cursor <= Len(Children(chunk, stack[i].function))
            /\ \A k \in 1 .. stack[i].cursor :
                  LET child == Children(chunk, stack[i].function)[k]
                  IN  /\ child \in Prototypes(chunk)
                      /\ states[child] = 2 \/ (i < Len(stack) /\ k = stack[i].cursor)

(* The children of a listed prototype are listed before it.                *)
ListsChildrenFirst(c, list) ==
    \A i \in 1 .. Len(list) : \A g \in Named(c, list[i]) :
        \E j \in 1 .. i - 1 : list[j] = g

ChildrenAreListed == ListsChildrenFirst(chunk, postorder)

(* The outer loop has left no prototype unvisited behind it.               *)
RootsAreVisited ==
    /\ \A p \in Prototypes(chunk) : p < root => states[p] # 0
    /\ result = "accepted" => stack = <<>> /\ root = chunk.count

(* The inductive invariant of the search.                                  *)
SearchInvariant ==
    /\ TypeOK
    /\ StackIsMarked
    /\ FinishedIsListed
    /\ StackIsPath
    /\ YieldedIsFinished
    /\ ChildrenAreListed
    /\ RootsAreVisited
    /\ CycleIsReal

(* The search returns on every chunk, cyclic ones included.                *)
Terminates == <>(result # "running")
=============================================================================
