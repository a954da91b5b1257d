--------------------------- MODULE UpvalueEpochs ---------------------------
(***************************************************************************)
(* UpvaluesOpen (cfg/src/ssa/upvalues.rs): where in a function a register  *)
(* is attached to an upvalue, and by which capture.  A capture by          *)
(* reference attaches the register to a box unless it is attached already; *)
(* a Close detaches it.  Captures that one path finds attached to the same *)
(* box, or that meet where paths join, form an epoch, which is named after *)
(* its first capture.  The analysis is a worklist over the blocks; it then *)
(* rejects joins where the register may be attached to a box on one path   *)
(* and already detached from it on another.  After it, the model executes  *)
(* the function, so that its result can be compared with what happens.     *)
(* Registers do not influence each other: the model has one, which holds   *)
(* one variable after the other, and temporaries in between.               *)
(***************************************************************************)
EXTENDS Integers, FiniteSets, SequencesExt

CONSTANTS
  Nodes,        \* the indices of the blocks of the function
  Entry,        \* its entry block
  Functions     \* the functions that are analysed

(* What a statement does with the register: it begins to hold a variable,  *)
(* a local function that captures itself included, the variable is         *)
(* captured, written, read, or ends.                                       *)
Effects == {"declare", "function", "capture", "write", "read", "close"}

IsCapture(effect) == effect \in {"capture", "function"}
IsDeclaration(effect) == effect \in {"declare", "function"}

Statement == Nodes \X Nat

(* The variable a register holds is named by the statement that declares   *)
(* it; the variable of a parameter is declared in front of the first one.  *)
Nothing == <<>>

(* successors of a block, its statements, and the variable it begins with. *)
Function == [next : [Nodes -> SUBSET Nodes], code : [Nodes -> Seq(Effects)],
             scope : [Nodes -> Statement \cup {Nothing}]]

(* The variable behind a statement.                                        *)
ScopeAfter(variable, effect, site) ==
    IF effect = "close" THEN Nothing ELSE IF IsDeclaration(effect) THEN site ELSE variable

ScopesIn(f, node) ==
    LET variable[i \in 0 .. Len(f.code[node])] ==
            IF i = 0 THEN f.scope[node]
            ELSE ScopeAfter(variable[i - 1], f.code[node][i], <<node, i>>)
    IN  variable

ScopeIn(f, node, n) == ScopesIn(f, node)[n]

(* What a compiler emits: scopes nest, so that a join is reached with one  *)
(* variable; only a variable is captured; and a register is free when it   *)
(* is declared.                                                            *)
IsLexical(f) ==
    /\ f.scope[Entry] \in {Nothing, <<Entry, 0>>}
    /\ \A node \in Nodes :
          /\ \A m \in f.next[node] : f.scope[m] = ScopeIn(f, node, Len(f.code[node]))
          /\ \A i \in DOMAIN f.code[node] :
                /\ f.code[node][i] = "capture" => ScopeIn(f, node, i - 1) # Nothing
                /\ IsDeclaration(f.code[node][i]) => ScopeIn(f, node, i - 1) = Nothing

ASSUME FunctionsAssumption ==
    /\ Nodes \subseteq Nat /\ IsFiniteSet(Nodes) /\ Entry \in Nodes
    /\ Functions \subseteq Function

Unattached == <<>>

VARIABLES
  function,
  leader,       \* EpochForest: the first capture of the epoch of a capture
  entries,      \* entry_states, of the blocks processed so far
  exits,        \* exit_states
  worklist,     \* blocks to be processed, each at most once
  opening,      \* opening_location of every statement
  pc,           \* "analyse", "validate", "materialize", "run", "rejected"
  at,           \* execution: the block and statement to be executed next
  box           \* the capture that opened the box the register is attached to

analysisVars == <<function, leader, entries, exits, worklist, opening, pc>>
executionVars == <<at, box>>
vars == <<analysisVars, executionVars>>

Code(node) == function.code[node]
Effect(site) == Code(site[1])[site[2]]
Successors(node) == function.next[node]
Predecessors(node) == {m \in Nodes : node \in Successors(m)}

(* The nodes reached from some nodes by passing only some nodes.           *)
Reached(starts, passed) ==
    LET reached[n \in 0 .. Cardinality(Nodes)] ==
            IF n = 0 THEN starts
            ELSE reached[n - 1] \cup UNION {Successors(m) : m \in reached[n - 1] \cap passed}
    IN  reached

ReachedFrom(starts, passed) == Reached(starts, passed)[Cardinality(Nodes)]

Reachable == ReachedFrom({Entry}, Nodes)

InOrder(nodes) ==
    CHOOSE order \in [1 .. Cardinality(nodes) -> nodes] :
        \A i, j \in 1 .. Cardinality(nodes) : i < j => order[i] < order[j]

-----------------------------------------------------------------------------
(* Captures, and the epochs they belong to.                                *)
Sites == {s \in UNION {{n} \X DOMAIN Code(n) : n \in Reachable} : IsCapture(Effect(s))}

Precedes(s, t) == s[1] < t[1] \/ (s[1] = t[1] /\ s[2] < t[2])

First(sites) == CHOOSE s \in sites : \A t \in sites : s = t \/ Precedes(s, t)

(* EpochForest::union of the epochs of these captures.                     *)
United(leaders, sites) ==
    LET led == {leaders[s] : s \in sites}
    IN  [s \in DOMAIN leaders |-> IF leaders[s] \in led THEN First(led) ELSE leaders[s]]

Init ==
    /\ function \in Functions
    /\ leader = [s \in Sites |-> s]
    /\ entries = <<>> /\ exits = <<>>
    /\ worklist = InOrder(Reachable)
    /\ opening = <<>>
    /\ pc = "analyse"
    /\ at = <<Entry, 1>> /\ box = Unattached

(* A state of the analysis: the epochs, and the capture the register is    *)
(* attached by.                                                            *)
Attach(state, site) ==
    IF state.open = Unattached THEN [state EXCEPT !.open = site]
    ELSE LET united == United(state.leaders, {state.open, site})
         IN  [leaders |-> united, open |-> united[site]]

(* Slip: a Close is passed over.                                           *)
TransferWithoutClose(state, site) ==
    IF IsCapture(Effect(site)) THEN Attach(state, site) ELSE state

Transfer(state, site) ==
    CASE IsCapture(Effect(site))  -> Attach(state, site)
      [] Effect(site) = "close"   -> [state EXCEPT !.open = Unattached]
      [] OTHER                    -> state

(* The states in front of a block's statements, and behind the last.       *)
StatesIn(state, node) ==
    LET states[i \in 0 .. Len(Code(node))] ==
            IF i = 0 THEN state ELSE Transfer(states[i - 1], <<node, i>>)
    IN  states

(* transfer_block                                                          *)
AfterBlock(state, node) == StatesIn(state, node)[Len(Code(node))]

OpenExits(node) == {exits[m] : m \in Predecessors(node) \cap DOMAIN exits} \ {Unattached}

(* Slip: the epochs that meet at a join are not united.                    *)
MergedApart(node) ==
    LET open == OpenExits(node)
    IN  [leaders |-> leader, open |-> IF open = {} THEN Unattached ELSE First({leader[s] : s \in open})]

(* merge_predecessors                                                      *)
Merged(node) ==
    LET open == OpenExits(node)
    IN  IF open = {} THEN [leaders |-> leader, open |-> Unattached]
        ELSE LET united == United(leader, open)
             IN  [leaders |-> united, open |-> First({united[s] : s \in open})]

(* Slip: a state is never found to be the same as before.                  *)
NeverSameOpen(leaders, s, t) == FALSE

SameOpen(leaders, s, t) ==
    IF s = Unattached \/ t = Unattached THEN s = t ELSE leaders[s] = leaders[t]

IsKnown(states, node, leaders, open) ==
    node \in DOMAIN states /\ SameOpen(leaders, states[node], open)

Replaced(states, node, leaders, open) ==
    IF IsKnown(states, node, leaders, open) THEN states
    ELSE [n \in DOMAIN states \cup {node} |-> IF n = node THEN open ELSE states[n]]

ProcessBlock ==
    /\ pc = "analyse" /\ worklist # <<>>
    /\ LET node     == Head(worklist)
           incoming == Merged(node)
           outgoing == AfterBlock(incoming, node)
       IN  /\ leader' = outgoing.leaders
           /\ entries' = Replaced(entries, node, leader', incoming.open)
           /\ exits' = Replaced(exits, node, leader', outgoing.open)
           /\ worklist' = Tail(worklist) \o
                 (IF IsKnown(exits, node, leader', outgoing.open) THEN <<>>
                  ELSE InOrder(Successors(node) \ ToSet(Tail(worklist))))
    /\ UNCHANGED <<function, opening, pc, executionVars>>

EndAnalysis ==
    /\ pc = "analyse" /\ worklist = <<>>
    /\ pc' = "validate"
    /\ UNCHANGED <<function, leader, entries, exits, worklist, opening, executionVars>>

-----------------------------------------------------------------------------
(* node_dominates_cached: the block is not reached around the dominator.   *)
Dominates(dominator, node) ==
    \/ dominator \in {node, Entry}
    \/ node \notin ReachedFrom({Entry}, Nodes \ {dominator})

IsObservation(effect) == effect \in {"declare", "function", "capture", "write"}

Ends(node) == {i \in DOMAIN Code(node) : Code(node)[i] # "read"}

(* Slip: only the block of the join is looked at.                          *)
UnobservableInJoin(node) ==
    Ends(node) # {} => ~ IsObservation(Code(node)[Min(Ends(node))])

(* The blocks that only read.                                              *)
Quiet == {k \in Nodes : Ends(k) = {}}

(* openness_is_unobservable_after_merge: every path closes the register,   *)
(* or leaves, before it writes or captures it.                             *)
Unobservable(node) ==
    \A m \in ReachedFrom({node}, Quiet) :
        Ends(m) # {} => ~ IsObservation(Code(m)[Min(Ends(m))])

(* epoch_detachment: whether an epoch may be live, or may have been        *)
(* detached, behind a statement, and at the end of every block.            *)
FlagsAfter(epoch, flags, site) ==
    CASE IsCapture(Effect(site)) ->
            IF leader[site] # epoch THEN {}
            ELSE IF site = epoch THEN {"live"}
            ELSE (flags \cap {"detached"}) \cup {"live"}
      [] Effect(site) = "close" ->
            IF "live" \in flags THEN {"detached"} ELSE flags
      [] OTHER -> flags

FlagsIn(epoch, flags, node) ==
    LET behind[i \in 0 .. Len(Code(node))] ==
            IF i = 0 THEN flags ELSE FlagsAfter(epoch, behind[i - 1], <<node, i>>)
    IN  behind

Round(epoch, pass) ==
    [m \in Nodes |->
        IF m \notin Reachable THEN {}
        ELSE FlagsIn(epoch, UNION {pass[k] : k \in Predecessors(m)}, m)[Len(Code(m))]]

Passes(epoch) ==
    LET passes[n \in 0 .. 2 * Cardinality(Nodes) + 1] ==
            IF n = 0 THEN [m \in Nodes |-> {}] ELSE Round(epoch, passes[n - 1])
    IN  passes

Detachment(epoch) == Passes(epoch)[2 * Cardinality(Nodes) + 1]

(* epoch_status: what an edge from the predecessor says about the epoch.   *)
Status(epoch, active, flags) ==
    CASE active = epoch        -> IF "detached" \in flags THEN "ambiguous" ELSE "open"
      [] active = Unattached   -> IF "detached" \in flags THEN "closed"
                                  ELSE IF "live" \in flags THEN "ambiguous" ELSE "unseen"
      [] OTHER                 -> IF "detached" \in flags THEN "unseen"
                                  ELSE IF "live" \in flags THEN "ambiguous" ELSE "unseen"

Active(node) ==
    IF node \notin DOMAIN exits \/ exits[node] = Unattached THEN Unattached ELSE leader[exits[node]]

(* Slip: every close counts, whichever capture it belongs to.              *)
EdgeStatusOfAnyClose(epoch, flags, node) == Status(epoch, Active(node), flags[node])

(* A close that the capture does not dominate is not one of its epoch.     *)
EdgeStatus(epoch, flags, node) ==
    LET status == Status(epoch, Active(node), flags[node])
    IN  IF status \in {"open", "unseen"} \/ Dominates(epoch[1], node) THEN status
        ELSE IF status = "closed" THEN "unseen"
        ELSE IF Active(node) = epoch THEN "open"
        ELSE status

IsMixed(node) ==
    LET predecessors == Predecessors(node) \cap DOMAIN exits
    IN  /\ Cardinality(predecessors) > 1
        /\ OpenExits(node) # {}
        /\ \/ Cardinality(OpenExits(node)) > 1
           \/ \E m \in predecessors : exits[m] = Unattached

(* An epoch that is open at one edge into the block is detached at one.    *)
MeetsDetached(node) ==
    \E epoch \in {leader[s] : s \in OpenExits(node)} :
       LET flags    == Detachment(epoch)
           statuses == {EdgeStatus(epoch, flags, m) : m \in Predecessors(node)}
       IN  /\ statuses \cap {"open", "ambiguous"} # {}
           /\ statuses \cap {"closed", "ambiguous"} # {}

(* validate_local_merge_openness                                           *)
IsPathDependent(node) == IsMixed(node) /\ ~ Unobservable(node) /\ MeetsDetached(node)

Validate ==
    /\ pc = "validate"
    /\ pc' = IF \E node \in Reachable : IsPathDependent(node) THEN "rejected" ELSE "materialize"
    /\ UNCHANGED <<function, leader, entries, exits, worklist, opening, executionVars>>

-----------------------------------------------------------------------------
(* materialize_ranges: the epoch the register is attached by in every      *)
(* statement, a capture included and a close excluded.                     *)
Materialize ==
    /\ pc = "materialize"
    /\ opening' =
          [node \in Reachable |->
              LET states == StatesIn([leaders |-> leader, open |-> entries[node]], node)
              IN  [i \in DOMAIN Code(node) |->
                      IF states[i].open = Unattached THEN Unattached
                      ELSE states[i].leaders[states[i].open]]]
    /\ pc' = "run"
    /\ UNCHANGED <<function, leader, entries, exits, worklist, executionVars>>

-----------------------------------------------------------------------------
(* The execution of the function that was analysed.                        *)
Executing == pc = "run" /\ at[2] <= Len(Code(at[1]))

Execute ==
    /\ Executing
    /\ box' = CASE Effect(at) = "close"                            -> Unattached
                [] IsCapture(Effect(at)) /\ box = Unattached       -> at
                [] OTHER                                           -> box
    /\ at' = <<at[1], at[2] + 1>>
    /\ UNCHANGED analysisVars

Jump ==
    /\ pc = "run" /\ ~ Executing
    /\ \E node \in Successors(at[1]) : at' = <<node, 1>>
    /\ UNCHANGED <<analysisVars, box>>

Analyse == \/ ProcessBlock
           \/ EndAnalysis
           \/ Validate
           \/ Materialize

Next == \/ Analyse
        \/ Execute
        \/ Jump

Spec == Init /\ [][Next]_vars /\ WF_vars(Analyse)

-----------------------------------------------------------------------------
TypeOK ==
    /\ function \in Functions
    /\ leader \in [Sites -> Sites]
    /\ \A s \in Sites : leader[leader[s]] = leader[s] /\ (leader[s] = s \/ Precedes(leader[s], s))
    /\ DOMAIN entries = DOMAIN exits /\ DOMAIN exits \subseteq Reachable
    /\ \A n \in DOMAIN exits : {entries[n], exits[n]} \subseteq Sites \cup {Unattached}
    /\ worklist \in Seq(Reachable) /\ IsInjective(worklist)
    /\ pc \in {"analyse", "validate", "materialize", "run", "rejected"}
    /\ at \in Reachable \X Nat /\ at[2] \in 1 .. Len(Code(at[1])) + 1
    /\ box \in Sites \cup {Unattached}

(* What is last said of the register from the start of a block on: the     *)
(* capture that attaches it, or that it is detached.                       *)
LastCaptures(open, node) ==
    LET last[i \in 0 .. Len(Code(node))] ==
            IF i = 0 THEN open
            ELSE IF IsCapture(Effect(<<node, i>>)) THEN <<node, i>>
            ELSE IF Effect(<<node, i>>) = "close" THEN Unattached
            ELSE last[i - 1]
    IN  last

LastIn(node) == LastCaptures(entries[node], node)

EpochOf(open) == IF open = Unattached THEN Unattached ELSE leader[open]

(* A block that needs not be processed again begins with every epoch its   *)
(* predecessors end with.                                                  *)
JoinAgrees(node) ==
    /\ node \in DOMAIN exits
    /\ \A m \in Predecessors(node) \cap DOMAIN exits :
          exits[m] # Unattached =>
              entries[node] # Unattached /\ leader[entries[node]] = leader[exits[m]]

(* A capture of a register that is attached belongs to the epoch it is     *)
(* attached by, and a block ends with the epoch of its last capture.       *)
BlockAgrees(node) ==
    /\ \A i \in DOMAIN Code(node) :
          IsCapture(Effect(<<node, i>>)) /\ LastIn(node)[i - 1] # Unattached =>
              leader[LastIn(node)[i - 1]] = leader[<<node, i>>]
    /\ SameOpen(leader, LastIn(node)[Len(Code(node))], exits[node])

OpeningAgrees(node) ==
    \A i \in DOMAIN Code(node) : opening[node][i] = EpochOf(LastIn(node)[i])

(* The box the register is attached to belongs to the epoch of the last    *)
(* capture of the block that is executed, or of those in front of it.      *)
BoxAgrees ==
    IF pc = "run"
    THEN box # Unattached =>
             LET last == LastIn(at[1])[at[2] - 1]
             IN  last # Unattached /\ leader[last] = leader[box]
    ELSE at = <<Entry, 1>> /\ box = Unattached

(* The inductive invariant behind AttachedIsOpen.                          *)
EpochsInvariant ==
    /\ TypeOK
    /\ \A node \in Reachable \ ToSet(worklist) : JoinAgrees(node)
    /\ \A node \in DOMAIN exits : BlockAgrees(node)
    /\ pc # "analyse" => worklist = <<>>
    /\ pc = "run" => \A node \in Reachable : OpeningAgrees(node)
    /\ BoxAgrees

(* What may be said of an epoch in front of and behind the statements of a *)
(* block: Detachment, statement by statement.                              *)
FlagsOf(epoch, node) ==
    FlagsIn(epoch, UNION {Detachment(epoch)[k] : k \in Predecessors(node)}, node)

(* The register is captured once, at the start.                            *)
IsCapturedOnce == Sites = {<<Entry, 1>>}

(* What the execution did with the register shows in what is said behind   *)
(* the statement.                                                          *)
BoxIsKnown(open, node, i) ==
    (IF open = Unattached THEN "detached" ELSE "live") \in FlagsOf(<<Entry, 1>>, node)[i]

(* A join of paths on which the register is attached and detached was      *)
(* passed, and only reads since.                                           *)
JoinIsPassed(node, i) ==
    /\ \E join \in Reachable :
          IsMixed(join) /\ MeetsDetached(join) /\ node \in ReachedFrom({join}, Quiet)
    /\ \A j \in 1 .. i : Code(node)[j] = "read"

(* The inductive invariant behind DetachedIsNotWritten: a register that is *)
(* detached is taken to be attached only behind such a join.               *)
DetachmentInvariant ==
    /\ \A node \in DOMAIN exits : entries[node] # Unattached => OpenExits(node) # {}
    /\ pc \in {"materialize", "run"} => \A node \in Reachable : ~ IsPathDependent(node)
    /\ pc = "run" /\ IsCapturedOnce /\ at # <<Entry, 1>> =>
          /\ BoxIsKnown(box, at[1], at[2] - 1)
          /\ box = Unattached /\ LastIn(at[1])[at[2] - 1] # Unattached =>
                JoinIsPassed(at[1], at[2] - 1)

(* The variable a capture captures.                                        *)
Captured(site) == ScopeIn(function, site[1], site[2])

(* Captures of one epoch capture one variable.                             *)
EpochsAreScoped(leaders) ==
    \A s, t \in Sites : leaders[s] = leaders[t] => Captured(s) = Captured(t)

(* The inductive invariant behind EpochIsOneVariable: a block begins with  *)
(* an epoch of the variable it begins with.                                *)
ScopesInvariant ==
    IsLexical(function) =>
        /\ EpochsAreScoped(leader)
        /\ \A node \in DOMAIN exits :
              entries[node] # Unattached => Captured(entries[node]) = function.scope[node]

(* Wherever the register is attached to a box when a statement reads,      *)
(* writes or captures it, opening_location names the epoch of the capture  *)
(* that opened the box: versions of a captured variable are never missed.  *)
AttachedIsOpen ==
    Executing /\ Effect(at) # "close" /\ box # Unattached => opening[at[1]][at[2]] = leader[box]

(* An epoch belongs to one variable: whatever the compiler keeps in the    *)
(* register before, in between and after is not taken for it.              *)
EpochIsOneVariable ==
    pc = "run" /\ IsLexical(function) =>
        \A node \in Reachable : \A i \in DOMAIN Code(node) :
            LET site == opening[node][i]
            IN  site # Unattached =>
                    /\ ScopeIn(function, node, i) # Nothing
                    /\ ScopeIn(function, node, i) = ScopeIn(function, site[1], site[2])

(* "Divergent openness is only ambiguous when the same epoch is involved": *)
(* what a compiler emits is never rejected.                                *)
CompiledIsAccepted == IsLexical(function) => pc # "rejected"

(* "Rejects merges where a capture epoch is live on one path and already   *)
(* detached on another": a register that is captured once, at the start,   *)
(* is never written as the captured variable where it is detached.         *)
DetachedIsNotWritten ==
    Executing /\ IsCapturedOnce /\ Effect(at) = "write" /\ box = Unattached =>
        opening[at[1]][at[2]] = Unattached

(* The analysis comes to an end.                                           *)
AnalysisEnds == <>(pc \in {"run", "rejected"})
=============================================================================
