--------------------------- MODULE PassScheduler ---------------------------
(***************************************************************************)
(* PassScheduler::run (cfg/src/recovery.rs): the passes that reconstruct a *)
(* function run in rounds, always in the same order, until a round reports *)
(* no change.  A fingerprint of the function that comes back, or too many  *)
(* rounds, is an error.  Facts about the function are derived before the   *)
(* first round and after every round that changed something.  What a pass  *)
(* does to a function, and whether it reports it, is a parameter.          *)
(***************************************************************************)
EXTENDS Integers, Sequences, FiniteSets

CONSTANTS
  Functions,      \* the forms a function takes
  Passes,         \* the lists of passes that may be scheduled
  Fingerprints,   \* structural_fingerprint: what of a function it hashes
  Broken,         \* the forms facts cannot be derived from
  MaxRounds       \* the rounds the scheduler allows, 32

Kinds == {"dataflow", "cfg", "regions", "ast"}

(* What a pass makes of each function, and the PassChange it returns.      *)
Pass == [Functions -> [function : Functions, change : SUBSET Kinds]]

ASSUME SchedulerAssumption ==
    /\ Passes \subseteq Seq(Pass)
    /\ Broken \subseteq Functions
    /\ DOMAIN Fingerprints = Functions
    /\ MaxRounds \in Nat \ {0}

VARIABLES
  passes,         \* the scheduled passes
  function,       \* the function as it is now
  facts,          \* the form of the function the facts were derived from
  seen,           \* the fingerprints met so far
  round,          \* the current round
  position,       \* the passes of the round that ran
  roundChange,    \* what they reported
  invalidations,  \* how many changes invalidated what
  outcome         \* "start", "running", or what run() returned

schedulerVars == <<passes, function, facts, seen, round, position, roundChange,
                   invalidations, outcome>>

SchedulerInit ==
    /\ passes \in Passes
    /\ function \in Functions
    /\ facts = function
    /\ seen = {}
    /\ round = 0 /\ position = 0
    /\ roundChange = {}
    /\ invalidations = [k \in Kinds |-> 0]
    /\ outcome = "start"

(* A plausible slip: only what rounds produce is entered as seen.          *)
DeriveUnseen ==
    /\ outcome = "start" /\ function \notin Broken
    /\ outcome' = "running"
    /\ facts' = function
    /\ round' = 1
    /\ UNCHANGED <<passes, function, seen, position, roundChange, invalidations>>

(* The facts and the fingerprint of the function given to the scheduler.   *)
DeriveFirst ==
    /\ outcome = "start" /\ function \notin Broken
    /\ outcome' = "running"
    /\ facts' = function
    /\ seen' = {Fingerprints[function]}
    /\ round' = 1
    /\ UNCHANGED <<passes, function, position, roundChange, invalidations>>

(* PassChange::invalidates_*: what a change makes stale.                   *)
Invalidated(change) ==
    {k \in Kinds :
        CASE k = "dataflow" -> change \cap {"dataflow", "cfg", "ast"} # {}
          [] k = "cfg"      -> "cfg" \in change
          [] k = "regions"  -> change \cap {"cfg", "regions"} # {}
          [] k = "ast"      -> "ast" \in change}

(* A plausible slip: only the last change of the round is remembered.      *)
LastChange(changes, change) == change

Union(changes, change) == changes \cup change

RunPass ==
    /\ outcome = "running" /\ position < Len(passes)
    /\ LET result == passes[position + 1][function]
       IN  /\ function' = result.function
           /\ roundChange' = Union(roundChange, result.change)
           /\ invalidations' =
                 [k \in Kinds |-> invalidations[k] + IF k \in Invalidated(result.change) THEN 1 ELSE 0]
    /\ position' = position + 1
    /\ UNCHANGED <<passes, facts, seen, round, outcome>>

RoundIsOver == outcome = "running" /\ position = Len(passes)

(* A plausible slip: a function that needs no reconstruction is forgotten. *)
ReturnChanged ==
    /\ RoundIsOver /\ roundChange = {} /\ round > 1
    /\ outcome' = "ok"
    /\ UNCHANGED <<passes, function, facts, seen, round, position, roundChange, invalidations>>

(* A round that changed nothing: the function is reconstructed.            *)
Return ==
    /\ RoundIsOver /\ roundChange = {}
    /\ outcome' = "ok"
    /\ UNCHANGED <<passes, function, facts, seen, round, position, roundChange, invalidations>>

(* A plausible slip: the facts of the round before are kept.               *)
OldFacts == facts

(* RecoveryFacts::derive_subset                                            *)
DerivedFacts == function

(* Plausible slips: the function is only compared with the one before the  *)
(* last round, or is entered before it is looked up.                       *)
RepeatsLast == function = facts
AlreadyEntered == TRUE

Repeats == Fingerprints[function] \in seen

LastRound == round = MaxRounds

(* A round with a change: facts are derived again, and the next round      *)
(* begins unless the function was seen before or the rounds are used up.   *)
EndRound ==
    /\ RoundIsOver /\ roundChange # {} /\ function \notin Broken
    /\ facts' = DerivedFacts
    /\ seen' = seen \cup {Fingerprints[function]}
    /\ outcome' = IF Repeats THEN "repeated"
                  ELSE IF LastRound THEN "round_limit"
                  ELSE "running"
    /\ IF outcome' = "running"
       THEN round' = round + 1 /\ position' = 0 /\ roundChange' = {}
       ELSE UNCHANGED <<round, position, roundChange>>
    /\ UNCHANGED <<passes, function, invalidations>>

(* Facts cannot be derived, at first or after a round with a change.       *)
FailDerive ==
    /\ outcome = "start" \/ (RoundIsOver /\ roundChange # {})
    /\ function \in Broken
    /\ outcome' = "no_facts"
    /\ UNCHANGED <<passes, function, facts, seen, round, position, roundChange, invalidations>>

SchedulerNext == \/ DeriveFirst
                 \/ RunPass
                 \/ Return
                 \/ EndRound
                 \/ FailDerive

SchedulerSpec ==
    /\ SchedulerInit
    /\ [][SchedulerNext]_schedulerVars
    /\ WF_schedulerVars(SchedulerNext)

-----------------------------------------------------------------------------
Outcomes == {"start", "running", "ok", "no_facts", "repeated", "round_limit"}

SchedulerTypeOK ==
    /\ passes \in Seq(Pass)
    /\ function \in Functions /\ facts \in Functions
    /\ seen \subseteq {Fingerprints[f] : f \in Functions}
    /\ round \in 0 .. MaxRounds
    /\ position \in 0 .. Len(passes)
    /\ roundChange \subseteq Kinds
    /\ invalidations \in [Kinds -> Nat]
    /\ outcome \in Outcomes

(* A pass that reports no change made none.                                *)
ReportsItsChanges(pass) == \A f \in Functions : pass[f].change = {} => pass[f].function = f

NoHiddenChange == \A i \in 1 .. Len(passes) : ReportsItsChanges(passes[i])

(* Facts are never stale while a pass has yet to change the function: the  *)
(* next round starts from facts of the function it works on.               *)
FactsAreCurrent ==
    NoHiddenChange =>
        (outcome = "running" /\ roundChange = {} => facts = function)

(* A function that is returned is a fixed point of every pass, and comes   *)
(* with its own facts, as long as no pass hides a change.                  *)
ResultIsStable ==
    outcome = "ok" /\ NoHiddenChange =>
        /\ facts = function
        /\ function \notin Broken
        /\ \A i \in 1 .. Len(passes) :
              passes[i][function].function = function /\ passes[i][function].change = {}

(* What the passes of one round make of a function, one after the other.   *)
AfterPasses(f) ==
    LET after[i \in 0 .. Len(passes)] == IF i = 0 THEN f ELSE passes[i][after[i - 1]].function
    IN  after

RoundOf(f) == AfterPasses(f)[Len(passes)]

(* Rounds lead from one form of a circle to another, and report a change   *)
(* for each, so that the function of any of them is never reconstructed.   *)
IsCircle(forms) ==
    \A f \in forms :
        /\ RoundOf(f) \in forms
        /\ \E i \in 1 .. Len(passes) : passes[i][f].change # {}

FingerprintsAreUnique ==
    \A f, g \in Functions : Fingerprints[f] = Fingerprints[g] => f = g

(* A function is only given up as repeated if more rounds would never have *)
(* stabilised it: the passes, none of which hides a change, drive it in a  *)
(* circle.                                                                 *)
RepeatedIsACircle ==
    outcome = "repeated" /\ NoHiddenChange /\ FingerprintsAreUnique =>
        \E forms \in SUBSET Functions : function \in forms /\ IsCircle(forms)

(* The round limit is only met by a function that took a new form in every *)
(* one of the rounds.                                                      *)
LimitMeansProgress ==
    outcome = "round_limit" => Cardinality(seen) = MaxRounds + 1

(* "a false positive drives a round that changes nothing, which the        *)
(* scheduler reports as a repeated state" (luau-lifter/src/lib.rs, the     *)
(* pass "inline"): a round that reports a change and leaves the function   *)
(* it began with ends the run.                                             *)
IdleRoundIsRepeated ==
    [][EndRound /\ function = facts => outcome' = "repeated"]_schedulerVars

(* Whatever the passes do and report, the rounds end.                      *)
SchedulerReturns == <>(outcome \notin {"start", "running"})
=============================================================================
