--------------------------- MODULE ChunkDecompiler ---------------------------
(***************************************************************************)
(* decompile_chunk (luau-lifter/src/lib.rs): the driver that follows the   *)
(* expansion plan.  It keeps a worklist of prototype instances, lifts the  *)
(* one on top, schedules an instance for every closure the lifter met,     *)
(* releases the bytecode of a prototype when its last planned instance was *)
(* lifted, replaces an instance whose recovery fails by a stub, and at the *)
(* end holds what it did against the plan before it links the upvalues of  *)
(* every closure.                                                          *)
(***************************************************************************)
EXTENDS PrototypeExpansion

VARIABLES
  worklist,     \* stack of [instance, function]
  remaining,    \* remaining_instances, per prototype
  released,     \* the prototypes whose instructions and tables were dropped
  scheduled,    \* scheduled_instances; instances are numbered in this order
  processed,    \* processed_instructions
  bodies,       \* per instance: the instances its recovered body creates
  upvalues,     \* the instances that are keys of decompiled_upvalues
  phase         \* "idle", "lifting", "linking", or how decompile_chunk ended

driverVars == <<worklist, remaining, released, scheduled, processed, bodies, upvalues, phase>>

allVars == <<graphVars, expansionVars, driverVars>>

DriverInit ==
    /\ ExpansionInit
    /\ worklist = <<>>
    /\ remaining = [p \in Prototypes(chunk) |-> 0]
    /\ released = {}
    /\ scheduled = 0 /\ processed = 0
    /\ bodies = <<>>
    /\ upvalues = {}
    /\ phase = "idle"

-----------------------------------------------------------------------------
(* The lifter cuts the instruction stream into basic blocks, a new one     *)
(* after each JUMP, and stops lifting a block at its RETURN.               *)
StopAtReturn(code) ==
    {i \in 1 .. Len(code) : \A j \in 1 .. i - 1 : code[j].op # "RETURN"}

LiftedPart(code) ==
    {i \in 1 .. Len(code) :
        \A j \in 1 .. i - 1 :
            code[j].op = "RETURN" => \E k \in j + 1 .. i - 1 : code[k].op = "JUMP"}

(* What is left of a prototype's instructions.                             *)
KeptCode(f) == IF f \in released THEN <<>> ELSE Code(f)

(* Lifter::lift succeeds on a stream that is not empty and has nothing it  *)
(* refuses in the part it lifts.                                           *)
Lifts(code) ==
    /\ code # <<>>
    /\ \A i \in LiftedPart(code) : code[i].op # "UNSUPPORTED"

(* The children of an instance: the closures the lifter met, by prototype. *)
LiftedChildren(f) ==
    LET code     == KeptCode(f)
        closures == {i \in LiftedPart(code) : IsClosure(code[i])}
        below(g) == Cardinality({i \in closures : ClosureChild(chunk, f, code[i]) < g})
    IN  [n \in 1 .. Cardinality(closures) |->
            CHOOSE g \in Prototypes(chunk) : below(g) < n /\ n <= below(g + 1)]

Decompile ==
    /\ phase = "idle" /\ plan = "planned"
    /\ phase' = "lifting"
    /\ worklist' = <<[instance |-> 1, function |-> chunk.main]>>
    /\ remaining' = occurrences
    /\ scheduled' = 1
    /\ bodies' = <<{}>>
    /\ UNCHANGED <<released, processed, upvalues>>

Pending == worklist[Len(worklist)]
PendingCode == KeptCode(Pending.function)

(* The instance on top of the worklist is taken.                           *)
Popping == phase = "lifting" /\ worklist # <<>>

(* An error of the lifter leaves decompile_chunk.                          *)
FailLift ==
    /\ Popping
    /\ remaining[Pending.function] > 0 /\ ~ Lifts(PendingCode)
    /\ worklist' = Front(worklist)
    /\ processed' = processed + Len(PendingCode)
    /\ phase' = "lift_error"
    /\ UNCHANGED <<remaining, released, scheduled, bodies, upvalues>>

(* A plausible slip: the prototype is released with its first instance.    *)
ReleaseFirst(children) ==
    LET f == Pending.function
    IN  /\ remaining' = [remaining EXCEPT ![f] = @ - 1]
        /\ released' = released \cup {f}
        /\ processed' = processed + Len(PendingCode)
        /\ scheduled' = scheduled + Len(children)
        /\ phase' = IF scheduled' > instances THEN "beyond_plan" ELSE "lifting"
        /\ worklist' = Front(worklist) \o
              [n \in DOMAIN children |-> [instance |-> scheduled + n, function |-> children[n]]]

(* A lifted instance is struck off the plan, its prototype is released     *)
(* with the last one, and an instance is pushed for each of its children.  *)
Schedule(children) ==
    LET f == Pending.function
    IN  /\ remaining' = [remaining EXCEPT ![f] = @ - 1]
        /\ released' = IF remaining[f] = 1 THEN released \cup {f} ELSE released
        /\ processed' = processed + Len(PendingCode)
        /\ scheduled' = scheduled + Len(children)
        /\ phase' = IF scheduled' > instances THEN "beyond_plan" ELSE "lifting"
        /\ worklist' = Front(worklist) \o
              [n \in DOMAIN children |-> [instance |-> scheduled + n, function |-> children[n]]]

(* decompile_function either recovers the instance's body, which creates   *)
(* all the children, or fails and leaves a stub that creates none.  Either *)
(* way the instance gets its entry among the upvalues.                     *)
Fill(body) ==
    /\ bodies' = [n \in 1 .. scheduled' |-> IF n = Pending.instance THEN body
                                            ELSE IF n <= scheduled THEN bodies[n] ELSE {}]
    /\ upvalues' = upvalues \cup {Pending.instance}

(* An instance that is not in the plan fails the chunk.                    *)
Recover ==
    /\ Popping
    /\ IF remaining[Pending.function] = 0
       THEN /\ phase' = "exhausted"
            /\ UNCHANGED <<worklist, remaining, released, scheduled, processed, bodies, upvalues>>
       ELSE /\ Lifts(PendingCode)
            /\ Schedule(LiftedChildren(Pending.function))
            /\ Fill(scheduled + 1 .. scheduled')

(* A plausible slip: a stubbed instance gets no entry.                     *)
StubWithoutEntry ==
    /\ Popping
    /\ remaining[Pending.function] > 0 /\ Lifts(PendingCode)
    /\ Schedule(LiftedChildren(Pending.function))
    /\ bodies' = [n \in 1 .. scheduled' |-> IF n <= scheduled THEN bodies[n] ELSE {}]
    /\ UNCHANGED upvalues

Stub ==
    /\ Popping
    /\ remaining[Pending.function] > 0 /\ Lifts(PendingCode)
    /\ Schedule(LiftedChildren(Pending.function))
    /\ Fill({})

(* When the worklist is empty, the plan must be used up exactly.           *)
PlanUsedUp ==
    /\ scheduled = instances
    /\ processed = instructions
    /\ \A p \in Prototypes(chunk) : remaining[p] = 0

(* A plausible slip: only a plan that is used up ends the loop.            *)
EndWhenUsedUp ==
    /\ phase = "lifting" /\ worklist = <<>> /\ PlanUsedUp
    /\ phase' = "linking"
    /\ UNCHANGED <<worklist, remaining, released, scheduled, processed, bodies, upvalues>>

EndLifting ==
    /\ phase = "lifting" /\ worklist = <<>>
    /\ phase' = IF PlanUsedUp THEN "linking" ELSE "mismatch"
    /\ UNCHANGED <<worklist, remaining, released, scheduled, processed, bodies, upvalues>>

(* The instances in the tree of bodies under main, the first instance.     *)
InTree ==
    LET below[n \in 0 .. scheduled] ==
            IF n = 0 THEN {1} ELSE below[n - 1] \cup UNION {bodies[i] : i \in below[n - 1]}
    IN  below[scheduled]

(* main's entry is taken out, then link_upvalues walks the bodies from     *)
(* main and looks up every closure it meets: a closure without an entry    *)
(* panics, and the panic fails the chunk.                                  *)
Link ==
    /\ phase = "linking"
    /\ phase' = IF InTree \subseteq upvalues THEN "linked" ELSE "link_panic"
    /\ upvalues' = upvalues \ {1}
    /\ UNCHANGED <<worklist, remaining, released, scheduled, processed, bodies>>

DecompileNext == Recover \/ Stub \/ FailLift \/ EndLifting \/ Link

DriverNext ==
    \/ ExpansionNext /\ UNCHANGED driverVars
    \/ (Decompile \/ DecompileNext) /\ UNCHANGED <<graphVars, expansionVars>>

DriverSpec == DriverInit /\ [][DriverNext]_allVars /\ WF_allVars(DriverNext)

-----------------------------------------------------------------------------
Phases == {"idle", "lifting", "linking", "linked", "lift_error", "exhausted", "beyond_plan",
           "mismatch", "link_panic"}

DriverTypeOK ==
    /\ ExpansionTypeOK
    /\ worklist \in Seq([instance : 1 .. scheduled, function : Prototypes(chunk)])
    /\ remaining \in [Prototypes(chunk) -> 0 .. MaxUsize]
    /\ released \subseteq Prototypes(chunk)
    /\ scheduled \in 0 .. MaxUsize /\ processed \in 0 .. MaxUsize
    /\ bodies \in [1 .. scheduled -> SUBSET (1 .. scheduled)]
    /\ upvalues \subseteq 1 .. scheduled
    /\ phase \in Phases

(* A closure instruction of an expanded prototype that follows a RETURN in *)
(* its basic block.                                                        *)
HasDeadClosure ==
    \E f \in Prototypes(chunk) : \E i, j \in 1 .. Len(Code(f)) :
        /\ occurrences[f] > 0
        /\ j < i /\ Code(f)[j].op = "RETURN" /\ IsClosure(Code(f)[i])
        /\ \A k \in j + 1 .. i - 1 : Code(f)[k].op # "JUMP"

(* The driver never lifts an instance the plan does not have: no matter    *)
(* what fails to lift or to be recovered, the checks inside the loop never *)
(* fire, and the check at its end only fires for a chunk with dead         *)
(* closures.                                                               *)
PlanIsFollowed ==
    /\ phase \notin {"exhausted", "beyond_plan"}
    /\ phase = "mismatch" => HasDeadClosure

(* The chunk as decompile_chunk lifts it.                                  *)
LiveClosuresOf(f, g) == LiftedPart(Code(f)) \cap ClosuresOf(chunk, f, g)

LiveEdges(f, g) == Cardinality(LiveClosuresOf(f, g))

(* The live edges, turned round.                                           *)
LiveEdgesInto == [g \in Prototypes(chunk) |-> [f \in Prototypes(chunk) |-> LiveEdges(f, g)]]

(* How many instances of p there will be under one instance of each        *)
(* prototype: itself, those one closure away, two away, and so on.         *)
Under(p) ==
    AllWalks(LiveEdgesInto, [f \in Prototypes(chunk) |-> IF f = p THEN 1 ELSE 0], chunk.count)

(* The instances of p the worklist still leads to.                         *)
Ahead(p) ==
    Total([n \in 0 .. Len(worklist) - 1 |-> Under(p)[worklist[n + 1].function]], Len(worklist))

(* What the worklist still leads to is still in the plan, for every        *)
(* prototype; without dead closures it is all that is left of the plan.    *)
WorkIsPlanned ==
    phase = "lifting" =>
        \A p \in Prototypes(chunk) :
            /\ Ahead(p) <= remaining[p]
            /\ ~ HasDeadClosure => Ahead(p) = remaining[p]

(* A prototype whose bytecode was dropped is not needed any more: nothing  *)
(* on the worklist instantiates it, directly or through its children.      *)
ReleasedIsUnneeded ==
    phase = "lifting" => \A p \in released : Ahead(p) = 0

(* Every closure of the recovered program has its upvalues, whichever      *)
(* instances were replaced by stubs, and none is created twice.            *)
EveryClosureLinks ==
    /\ phase # "link_panic"
    /\ \A i, j \in DOMAIN bodies : i # j => bodies[i] \cap bodies[j] = {}

-----------------------------------------------------------------------------
(* The inductive invariant of the driver, next to that of the walk.  The   *)
(* driver begins once the plan is made, with an instance of main.          *)
DriverIsInStep ==
    /\ IF phase = "idle"
       THEN /\ worklist = <<>> /\ bodies = <<>>
            /\ scheduled = 0 /\ processed = 0
            /\ released = {} /\ upvalues = {}
       ELSE plan = "planned" /\ scheduled > 0
    /\ phase = "linking" => worklist = <<>>

(* The instances lifted so far.                                            *)
LiftedInstances == [p \in Prototypes(chunk) |-> occurrences[p] - remaining[p]]

LiftedInstructions ==
    [p \in Prototypes(chunk) |-> (occurrences[p] - remaining[p]) * Len(Code(p))]

(* An instance that was scheduled was lifted or is on the worklist, and    *)
(* the bytecode of a prototype is kept until all its instances are lifted. *)
LiftedIsStruckOff ==
    phase = "lifting" =>
        /\ \A p \in Prototypes(chunk) : remaining[p] <= occurrences[p]
        /\ \A p \in released : remaining[p] = 0
        /\ scheduled = Total(LiftedInstances, chunk.count) + Len(worklist)
        /\ processed = Total(LiftedInstructions, chunk.count)

(* Every instance that was scheduled and is not on the worklist any more   *)
(* has its entry among the upvalues.                                       *)
LiftedHasEntry ==
    phase \in {"lifting", "linking"} =>
        \A i \in 1 .. scheduled :
            i \in upvalues \/ \E k \in 1 .. Len(worklist) : worklist[k].instance = i

DriverInvariant ==
    /\ DriverTypeOK
    /\ DriverIsInStep
    /\ WorkIsPlanned
    /\ LiftedIsStruckOff
    /\ LiftedHasEntry
    /\ PlanIsFollowed
    /\ EveryClosureLinks

(* The driver returns for every chunk.                                     *)
DriverReturns ==
    <>(\/ result \in {"cycle", "missing_child"}
       \/ plan \in {"overflow", "over_budget", "invalid_closure", "too_deep"}
       \/ phase \in Phases \ {"idle", "lifting", "linking"})

(* A prototype that cannot be recovered is stubbed, and the other          *)
(* functions of the chunk are still returned ("Failing the whole file for  *)
(* it throws away every function that did decompile"): so a chunk whose    *)
(* instances all lift is decompiled.                                       *)
LiftedChunkIsReturned == phase # "mismatch"
=============================================================================
