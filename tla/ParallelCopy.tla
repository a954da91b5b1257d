---------------------------- MODULE ParallelCopy ----------------------------
(***************************************************************************)
(* Destructor::sequentialize (cfg/src/ssa/destruct.rs) turns the parallel  *)
(* assignment of an edge into a sequence of single ones.  A copy whose     *)
(* target nobody has to read any more is ready; a cycle of copies is       *)
(* broken by saving one local in a spill local; right sides that are not   *)
(* locals are emitted at the end.  The model executes every assignment as  *)
(* it is emitted, so that memory is what the sequence computes.            *)
(***************************************************************************)
EXTENDS EdgeAssignment, SequencesExt

CONSTANT Spill     \* the local sequentialize creates the first time it needs one

ASSUME SpillAssumption == Spill \notin Locals

VARIABLES
  assignment,   \* the parallel assignment
  memory,       \* what every local holds after the emitted assignments
  toDo,         \* stack of targets of copies that may be left
  ready,        \* stack of targets whose old value nobody needs
  loc,          \* where the old value of a source is now
  target,       \* the target taken from toDo, while ready is emptied
  ends,         \* the assignments kept for the end
  pc            \* "collect", "next", "drain", "done"

copyVars == <<assignment, memory, toDo, ready, loc, target, ends, pc>>

Copies == {side \in ToSet(assignment) : side.kind = "local"}
Targets == {side.dst : side \in Copies}
Sources == {side.of : side \in Copies}

(* pred: the source of a copy's target.                                    *)
Pred(b) == (CHOOSE side \in Copies : side.dst = b).of

Init ==
    /\ assignment \in Assignments
    /\ memory = [x \in Locals \cup {Spill} |-> Holds(x)]
    /\ toDo = <<>> /\ ready = <<>> /\ loc = <<>> /\ target = Spill /\ ends = <<>>
    /\ pc = "collect"

Store(x, value) == memory' = [memory EXCEPT ![x] = value]

(* A single assignment is not parallel at all.                             *)
AssignSingle ==
    /\ pc = "collect" /\ Len(assignment) = 1
    /\ Store(assignment[1].dst, Value(assignment[1], memory))
    /\ pc' = "done"
    /\ UNCHANGED <<assignment, toDo, ready, loc, target, ends>>

(* The members of T in the order they have in s.                           *)
Selected(s, T) ==
    LET kept[i \in 0 .. Len(s)] ==
            IF i = 0 THEN <<>>
            ELSE IF s[i] \in T THEN Append(kept[i - 1], s[i]) ELSE kept[i - 1]
    IN  kept[Len(s)]

Destinations(sides) == [i \in 1 .. Len(sides) |-> sides[i].dst]

(* The copies are sorted from the rest; those whose target is no source    *)
(* are ready.                                                              *)
Collect ==
    /\ pc = "collect" /\ Len(assignment) # 1
    /\ toDo' = Destinations(Selected(assignment, Copies))
    /\ ready' = Destinations(Selected(assignment, {side \in Copies : side.dst \notin Sources}))
    /\ loc' = [x \in Sources |-> x]
    /\ ends' = Selected(assignment, ToSet(assignment) \ Copies)
    /\ pc' = "next"
    /\ UNCHANGED <<assignment, memory, target>>

TakeTarget ==
    /\ pc = "next" /\ toDo # <<>>
    /\ target' = Last(toDo)
    /\ toDo' = Front(toDo)
    /\ pc' = "drain"
    /\ UNCHANGED <<assignment, memory, ready, loc, ends>>

(* loc.insert, which may also add a key.                                   *)
Moved(x, to) == [y \in DOMAIN loc \cup {x} |-> IF y = x THEN to ELSE loc[y]]

(* Plausible slips: the copy is not recorded, or its source is not made    *)
(* ready.                                                                  *)
EmitUnmoved ==
    /\ pc = "drain" /\ ready # <<>>
    /\ LET b == Last(ready)
           a == Pred(b)
           c == loc[a]
       IN  /\ Store(b, memory[c])
           /\ ready' = Front(ready) \o IF a = c /\ a \in Targets THEN <<a>> ELSE <<>>
    /\ UNCHANGED <<assignment, toDo, loc, target, ends, pc>>

(* A ready copy is emitted from wherever its source's value is.  The first *)
(* copy out of a local that is a target itself makes that target ready.    *)
EmitReady ==
    /\ pc = "drain" /\ ready # <<>>
    /\ LET b == Last(ready)
           a == Pred(b)
           c == loc[a]
       IN  /\ Store(b, memory[c])
           /\ ready' = Front(ready) \o IF a = c /\ a \in Targets THEN <<a>> ELSE <<>>
           /\ loc' = Moved(a, b)
    /\ UNCHANGED <<assignment, toDo, target, ends, pc>>

(* A target that does not hold its source's value is saved, so that it can *)
(* be overwritten.                                                         *)
SaveTarget ==
    /\ pc = "drain" /\ ready = <<>> /\ target # loc[Pred(target)]
    /\ Store(Spill, memory[target])
    /\ loc' = Moved(target, Spill)
    /\ ready' = <<target>>
    /\ pc' = "next"
    /\ UNCHANGED <<assignment, toDo, target, ends>>

SkipTarget ==
    /\ pc = "drain" /\ ready = <<>> /\ target = loc[Pred(target)]
    /\ pc' = "next"
    /\ UNCHANGED <<assignment, memory, toDo, ready, loc, target, ends>>

(* What is not a copy comes last.                                          *)
EmitEnd ==
    /\ pc = "next" /\ toDo = <<>> /\ ends # <<>>
    /\ Store(Head(ends).dst, Value(Head(ends), memory))
    /\ ends' = Tail(ends)
    /\ UNCHANGED <<assignment, toDo, ready, loc, target, pc>>

Finish ==
    /\ pc = "next" /\ toDo = <<>> /\ ends = <<>>
    /\ pc' = "done"
    /\ UNCHANGED <<assignment, memory, toDo, ready, loc, target, ends>>

CopyNext == \/ AssignSingle
            \/ Collect
            \/ TakeTarget
            \/ EmitReady
            \/ SaveTarget
            \/ SkipTarget
            \/ EmitEnd
            \/ Finish

CopySpec == Init /\ [][CopyNext]_copyVars /\ WF_copyVars(CopyNext)

-----------------------------------------------------------------------------
(* What is not a local is read when all copies were emitted, so it must    *)
(* not read a destination.  Inlining can break this for the argument of a  *)
(* loop, see ArgumentsAreIndependent of Inliner.                           *)
EndsAreIndependent ==
    \A a \in Assignments : \A i, j \in 1 .. Len(a) :
        a[i].kind = "expression" => a[i].of # a[j].dst

(* A copy is made when its target holds its source's old value.            *)
Made(b) == memory[b] = Holds(Pred(b))
Unmade == {b \in Targets : ~ Made(b)}

(* Copies may still be emitted.                                            *)
Walking == pc = "drain" \/ (pc = "next" /\ toDo # <<>>)

(* The stacks hold targets, loc is known for every source, and nothing but *)
(* a target is ever overwritten.                                           *)
CopyTypeOK ==
    /\ assignment \in Seq(Side)
    /\ DOMAIN memory = Locals \cup {Spill}
    /\ pc \in {"collect", "next", "drain", "done"}
    /\ pc = "collect" =>
           /\ \A x \in Locals : memory[x] = Holds(x)
           /\ toDo = <<>> /\ ready = <<>> /\ ends = <<>>
    /\ pc # "done" => \A x \in Locals :
           memory[x] = Holds(x) \/ \E side \in ToSet(assignment) : side.dst = x
    /\ toDo \in Seq(Targets) /\ ready \in Seq(Targets) /\ ends \in Seq(ToSet(assignment) \ Copies)
    /\ pc = "drain" => target \in Targets
    /\ pc \in {"next", "drain"} =>
           /\ Sources \subseteq DOMAIN loc /\ DOMAIN loc \subseteq Locals
           /\ \A x \in DOMAIN loc :
                  \/ loc[x] = x \/ loc[x] = Spill
                  \/ loc[x] \in Targets /\ Pred(loc[x]) = x

(* The old value of a source is where loc says, or every copy of it is     *)
(* made and the spill local was used again.                                *)
SourcesAreKept ==
    \A a \in Sources :
        \/ memory[loc[a]] = Holds(a)
        \/ loc[a] = Spill /\ \A b \in Targets : Pred(b) = a => Made(b)

(* A ready target can be overwritten and its source's value is at hand.    *)
ReadyIsReady ==
    /\ IsInjective(ready)
    /\ \A b \in ToSet(ready) :
           /\ b \in DOMAIN loc => loc[b] # b
           /\ memory[loc[Pred(b)]] = Holds(Pred(b))

(* What is neither made nor ready is a source in its own place, and none   *)
(* of the copies out of it was made: the copies left, when none is ready,  *)
(* are cycles.                                                             *)
TheRestWaits ==
    \A b \in Unmade :
        /\ b \in ToSet(ready) \/ (b \in Sources /\ loc[b] = b)
        /\ b \in Sources /\ loc[b] = b =>
               \A t \in Targets : Pred(t) = b /\ t # b => ~ Made(t)

CopyInvariant ==
    /\ CopyTypeOK
    /\ Walking => SourcesAreKept /\ ReadyIsReady /\ TheRestWaits
    /\ pc \in {"next", "drain"} =>
           Unmade \subseteq IF Walking
                            THEN ToSet(toDo) \cup ToSet(ready)
                                 \cup (IF pc = "drain" THEN {target} ELSE {})
                            ELSE {}
    /\ pc \in {"next", "drain"} =>
           \A side \in ToSet(assignment) \ Copies :
               side \in ToSet(ends) \/ memory[side.dst] = Value(side, Initially)
    /\ Walking => \A side \in ToSet(assignment) \ Copies : side \in ToSet(ends)
    /\ pc = "done" => \A x \in Locals : memory[x] = After(assignment)[x]

(* As long as a copy is to be made, the old value of its source is where   *)
(* loc says: no emitted assignment, and no second use of the one spill     *)
(* local, overwrites a value somebody still has to read.                   *)
NoValueIsLost ==
    pc \in {"next", "drain"} =>
        \A b \in Targets :
            \/ memory[b] = Holds(Pred(b))
            \/ memory[loc[Pred(b)]] = Holds(Pred(b))

(* The sequence of assignments has the effect of the parallel assignment,  *)
(* and it is always finished.  Readers see the locals when it is done.     *)
Parallel ==
    INSTANCE ParallelAssign
        WITH values <- IF pc = "done" THEN [x \in Locals |-> memory[x]] ELSE Initially,
             assigned <- pc = "done"

Implements == Parallel!Spec
=============================================================================
