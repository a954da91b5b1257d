------------------------ MODULE PassSchedulerProofs ------------------------
(***************************************************************************)
(* What the scheduler guarantees for every set of functions, every list of *)
(* passes and every round limit.                                           *)
(***************************************************************************)
EXTENDS PassScheduler, NaturalSums

(* There is at least one round.                                            *)
LEMMA RoundLimit == MaxRounds \in Nat /\ 1 <= MaxRounds
<1>1. MaxRounds \in Nat \ {0}
  BY SchedulerAssumption
<1> QED BY <1>1

(* What a pass returns for a function.                                     *)
LEMMA PassType ==
  ASSUME passes \in Seq(Pass), NEW i \in 1 .. Len(passes), NEW f \in Functions
  PROVE  /\ passes[i][f].function \in Functions
         /\ passes[i][f].change \subseteq Kinds
<1>1. passes[i] \in Pass
  OBVIOUS
<1>2. passes[i][f] \in [function : Functions, change : SUBSET Kinds]
  BY <1>1 DEF Pass
<1> QED BY <1>2

(* The variables keep their types.                                         *)
THEOREM SchedulerTypeCorrect == SchedulerSpec => []SchedulerTypeOK
<1>1. SchedulerInit => SchedulerTypeOK
  <2> SUFFICES ASSUME SchedulerInit PROVE SchedulerTypeOK
    OBVIOUS
  <2>1. passes \in Seq(Pass) /\ function \in Functions /\ facts \in Functions
    BY SchedulerAssumption DEF SchedulerInit
  <2>2. /\ seen \subseteq {Fingerprints[f] : f \in Functions}
        /\ round \in 0 .. MaxRounds /\ position \in 0 .. Len(passes)
    BY <2>1, SchedulerAssumption DEF SchedulerInit
  <2>3. /\ roundChange \subseteq Kinds /\ invalidations \in [Kinds -> Nat]
        /\ outcome \in Outcomes
    BY DEF SchedulerInit, Outcomes
  <2> QED BY <2>1, <2>2, <2>3 DEF SchedulerTypeOK
<1>2. SchedulerTypeOK /\ [SchedulerNext]_schedulerVars => SchedulerTypeOK'
  <2> SUFFICES ASSUME SchedulerTypeOK, [SchedulerNext]_schedulerVars
               PROVE  SchedulerTypeOK'
    OBVIOUS
  <2> USE DEF SchedulerTypeOK
  <2>1. CASE DeriveFirst
    <3>1. seen' \subseteq {Fingerprints[f] : f \in Functions}
      BY <2>1 DEF DeriveFirst
    <3>2. outcome' \in Outcomes
      BY <2>1 DEF DeriveFirst, Outcomes
    <3>3. round' \in 0 .. MaxRounds
      <4>1. round' = 1
        BY <2>1 DEF DeriveFirst
      <4> QED BY <4>1, RoundLimit
    <3> QED BY <2>1, <3>1, <3>2, <3>3 DEF DeriveFirst
  <2>2. CASE RunPass
    <3> DEFINE result == passes[position + 1][function]
    <3>1. position + 1 \in 1 .. Len(passes)
      BY <2>2 DEF RunPass
    <3>2. result.function \in Functions /\ result.change \subseteq Kinds
      BY <3>1, PassType
    <3>3. function' \in Functions /\ roundChange' \subseteq Kinds
      BY <2>2, <3>2 DEF RunPass, Union
    <3>4. invalidations' \in [Kinds -> Nat]
      <4> DEFINE counted(k) == invalidations[k] + IF k \in Invalidated(result.change) THEN 1 ELSE 0
      <4>1. invalidations' = [k \in Kinds |-> counted(k)]
        BY <2>2 DEF RunPass
      <4>2. \A k \in Kinds : counted(k) \in Nat
        OBVIOUS
      <4> QED BY <4>1, <4>2
    <3>5. position' \in 0 .. Len(passes')
      BY <2>2, <3>1 DEF RunPass
    <3> QED BY <2>2, <3>3, <3>4, <3>5 DEF RunPass
  <2>3. CASE Return
    BY <2>3 DEF Return, Outcomes
  <2>4. CASE EndRound
    <3>1. facts' \in Functions /\ seen' \subseteq {Fingerprints[f] : f \in Functions}
      BY <2>4 DEF EndRound, DerivedFacts
    <3>2. outcome' \in Outcomes
      BY <2>4 DEF EndRound, Outcomes
    <3>3. round' \in 0 .. MaxRounds
      <4>1. round' = round \/ (round' = round + 1 /\ round # MaxRounds)
        BY <2>4 DEF EndRound, LastRound
      <4> QED BY <4>1, RoundLimit
    <3>4. /\ passes' = passes /\ function' = function /\ invalidations' = invalidations
          /\ position' \in {0, position} /\ roundChange' \in {{}, roundChange}
      BY <2>4 DEF EndRound
    <3>5. position' \in 0 .. Len(passes') /\ roundChange' \subseteq Kinds
      BY <3>4
    <3> QED BY <3>1, <3>2, <3>3, <3>4, <3>5
  <2>5. CASE FailDerive
    BY <2>5 DEF FailDerive, Outcomes
  <2>6. CASE UNCHANGED schedulerVars
    BY <2>6 DEF schedulerVars
  <2> QED BY <2>1, <2>2, <2>3, <2>4, <2>5, <2>6 DEF SchedulerNext
<1> QED BY <1>1, <1>2, PTL DEF SchedulerSpec

-----------------------------------------------------------------------------
(* While a round has reported nothing, the function is the one its facts   *)
(* were derived from, and the passes that ran have nothing to change.      *)
QuietRound ==
    /\ outcome = "start" => position = 0
    /\ outcome = "running" /\ roundChange = {} /\ NoHiddenChange =>
          /\ facts = function
          /\ function \notin Broken
          /\ \A i \in 1 .. position : passes[i][function].change = {}

(* Before the first round there is nothing to say.                         *)
LEMMA QuietInit == SchedulerInit => QuietRound /\ ResultIsStable
BY DEF SchedulerInit, QuietRound, ResultIsStable

(* A pass that reports no change leaves a quiet round quiet.               *)
LEMMA QuietRunPass ==
  ASSUME SchedulerTypeOK, QuietRound, RunPass
  PROVE  QuietRound'
<1> DEFINE result == passes[position + 1][function]
<1>1. position + 1 \in 1 .. Len(passes) /\ position \in Nat
  BY DEF RunPass, SchedulerTypeOK
<1>2. /\ passes' = passes /\ facts' = facts /\ outcome' = outcome
      /\ function' = result.function
      /\ roundChange' = roundChange \cup result.change
      /\ position' = position + 1
  BY DEF RunPass, Union
<1> SUFFICES ASSUME outcome' = "running", roundChange' = {}, NoHiddenChange'
             PROVE  /\ facts' = function'
                    /\ function' \notin Broken
                    /\ \A i \in 1 .. position' : passes'[i][function'].change = {}
  BY DEF QuietRound, RunPass
<1>3. roundChange = {} /\ result.change = {} /\ NoHiddenChange
  BY <1>2 DEF NoHiddenChange
<1>4. function' = function
  BY <1>1, <1>2, <1>3 DEF NoHiddenChange, ReportsItsChanges, SchedulerTypeOK
<1>5. /\ facts = function /\ function \notin Broken
      /\ \A i \in 1 .. position : passes[i][function].change = {}
  BY <1>2, <1>3 DEF QuietRound
<1>6. \A i \in 1 .. position + 1 : i \in 1 .. position \/ i = position + 1
  BY <1>1
<1> QED BY <1>2, <1>3, <1>4, <1>5, <1>6

(* A round that is over and quiet has run every pass.                      *)
LEMMA QuietReturn ==
  ASSUME SchedulerTypeOK, QuietRound, Return
  PROVE  ResultIsStable'
<1>1. /\ outcome = "running" /\ position = Len(passes) /\ roundChange = {}
      /\ passes' = passes /\ function' = function /\ facts' = facts
  BY DEF Return, RoundIsOver
<1> SUFFICES ASSUME NoHiddenChange
             PROVE  /\ facts = function /\ function \notin Broken
                    /\ \A i \in 1 .. Len(passes) :
                          passes[i][function].function = function /\ passes[i][function].change = {}
  BY <1>1 DEF ResultIsStable, NoHiddenChange
<1>2. /\ facts = function /\ function \notin Broken
      /\ \A i \in 1 .. Len(passes) : passes[i][function].change = {}
  BY <1>1 DEF QuietRound
<1> QED BY <1>2 DEF NoHiddenChange, ReportsItsChanges, SchedulerTypeOK

(* Every step of the scheduler keeps a quiet round quiet.                  *)
LEMMA QuietInductive ==
  ASSUME SchedulerTypeOK, QuietRound, ResultIsStable, [SchedulerNext]_schedulerVars
  PROVE  QuietRound' /\ ResultIsStable'
<1>1. CASE DeriveFirst
  <2>1. /\ outcome = "start" /\ outcome' # "ok"
        /\ outcome' = "running" => function \notin Broken
        /\ outcome' # "start"
        /\ facts' = function /\ UNCHANGED <<passes, function, position, roundChange>>
    BY <1>1 DEF DeriveFirst
  <2>2. position = 0
    BY <2>1 DEF QuietRound
  <2> QED BY <2>1, <2>2 DEF QuietRound, ResultIsStable
<1>2. CASE RunPass
  <2>1. outcome' # "ok"
    BY <1>2 DEF RunPass
  <2> QED BY <1>2, <2>1, QuietRunPass DEF ResultIsStable
<1>3. CASE Return
  <2>1. outcome' \notin {"start", "running"}
    BY <1>3 DEF Return
  <2> QED BY <1>3, <2>1, QuietReturn DEF QuietRound
<1>4. CASE EndRound
  <2>1. outcome' \notin {"start", "ok"}
    BY <1>4 DEF EndRound
  <2>2. ASSUME outcome' = "running"
        PROVE  facts' = function' /\ function' \notin Broken /\ position' = 0
    BY <1>4, <2>2 DEF EndRound, DerivedFacts
  <2> QED BY <2>1, <2>2 DEF QuietRound, ResultIsStable
<1>5. CASE FailDerive
  BY <1>5 DEF FailDerive, QuietRound, ResultIsStable
<1>6. CASE UNCHANGED schedulerVars
  BY <1>6 DEF schedulerVars, QuietRound, ResultIsStable, NoHiddenChange
<1> QED BY <1>1, <1>2, <1>3, <1>4, <1>5, <1>6 DEF SchedulerNext

(* So what is returned after a quiet round is stable.                      *)
LEMMA QuietHolds == SchedulerSpec => [](QuietRound /\ ResultIsStable)
BY QuietInit, QuietInductive, SchedulerTypeCorrect, PTL DEF SchedulerSpec

(* PassScheduler::run, the returns of ReconstructionResult: whatever the   *)
(* passes are, as long as none hides a change, what is returned is a fixed *)
(* point of all of them and carries facts of its own.                      *)
THEOREM ReturnedFunctionIsStable == SchedulerSpec => []ResultIsStable
BY QuietHolds, PTL

(* The facts a round starts from are those of the function it works on,    *)
(* and stay so until a pass reports a change.                              *)
THEOREM RoundFactsAreCurrent == SchedulerSpec => []FactsAreCurrent
<1>1. QuietRound => FactsAreCurrent
  BY DEF QuietRound, FactsAreCurrent
<1> QED BY <1>1, QuietHolds, PTL

-----------------------------------------------------------------------------
(* Every round that begins entered one fingerprint that was new.           *)
FreshRounds ==
    /\ IsFiniteSet(seen)
    /\ outcome = "start" => round = 0
    /\ outcome = "running" => Cardinality(seen) = round
    /\ LimitMeansProgress

(* Every step of the scheduler keeps the rounds fresh.                     *)
LEMMA FreshInductive ==
  ASSUME SchedulerTypeOK, FreshRounds, [SchedulerNext]_schedulerVars
  PROVE  FreshRounds'
<1> USE DEF FreshRounds, LimitMeansProgress
<1>1. CASE DeriveFirst
  <2>1. /\ seen' = {Fingerprints[function]} /\ round' = 1
        /\ outcome' = "running"
    BY <1>1 DEF DeriveFirst
  <2>2. IsFiniteSet(seen') /\ Cardinality(seen') = 1
    BY <2>1, FS_Singleton
  <2> QED BY <2>1, <2>2
<1>2. CASE RunPass
  BY <1>2 DEF RunPass
<1>3. CASE Return
  BY <1>3 DEF Return
<1>4. CASE EndRound
  <2> DEFINE print == Fingerprints[function]
  <2>1. /\ outcome = "running" /\ seen' = seen \cup {print}
        /\ outcome' \in {"running", "repeated", "round_limit"}
        /\ outcome' \in {"running", "round_limit"} => print \notin seen
        /\ outcome' = "round_limit" => round = MaxRounds
        /\ outcome' = "running" => round' = round + 1
    BY <1>4 DEF EndRound, RoundIsOver, Repeats, LastRound
  <2>2. IsFiniteSet(seen')
    BY <2>1, FS_AddElement
  <2>3. print \notin seen => Cardinality(seen') = round + 1
    BY <2>1, FS_AddElement
  <2> QED BY <2>1, <2>2, <2>3
<1>5. CASE FailDerive
  BY <1>5 DEF FailDerive
<1>6. CASE UNCHANGED schedulerVars
  BY <1>6 DEF schedulerVars
<1> QED BY <1>1, <1>2, <1>3, <1>4, <1>5, <1>6 DEF SchedulerNext

(* "max_rounds" of PassScheduler::run: the error of the last round is only *)
(* returned for a function that took more forms than there are rounds.     *)
THEOREM RoundLimitMeansProgress == SchedulerSpec => []LimitMeansProgress
<1>1. SchedulerInit => FreshRounds
  BY FS_EmptySet DEF SchedulerInit, FreshRounds, LimitMeansProgress
<1>2. FreshRounds => LimitMeansProgress
  BY DEF FreshRounds
<1> QED BY <1>1, <1>2, FreshInductive, SchedulerTypeCorrect, PTL DEF SchedulerSpec

-----------------------------------------------------------------------------
(* The form a round begins with is among those seen.                       *)
FactsAreSeen == outcome = "running" => Fingerprints[facts] \in seen

(* The pass "inline" of luau-lifter/src/lib.rs relies on it: a round that  *)
(* reports a change and ends where it began never starts another round.    *)
THEOREM IdleRoundEnds == SchedulerSpec => IdleRoundIsRepeated
<1>1. SchedulerInit => FactsAreSeen
  BY DEF SchedulerInit, FactsAreSeen
<1>2. FactsAreSeen /\ [SchedulerNext]_schedulerVars => FactsAreSeen'
  <2> SUFFICES ASSUME FactsAreSeen, [SchedulerNext]_schedulerVars PROVE FactsAreSeen'
    OBVIOUS
  <2> USE DEF FactsAreSeen
  <2>1. CASE DeriveFirst
    BY <2>1 DEF DeriveFirst
  <2>2. CASE RunPass
    BY <2>2 DEF RunPass
  <2>3. CASE Return
    BY <2>3 DEF Return
  <2>4. CASE EndRound
    BY <2>4 DEF EndRound, DerivedFacts
  <2>5. CASE FailDerive
    BY <2>5 DEF FailDerive, Outcomes
  <2>6. CASE UNCHANGED schedulerVars
    BY <2>6 DEF schedulerVars
  <2> QED BY <2>1, <2>2, <2>3, <2>4, <2>5, <2>6 DEF SchedulerNext
<1>3. FactsAreSeen =>
        [EndRound /\ function = facts => outcome' = "repeated"]_schedulerVars
  BY DEF FactsAreSeen, EndRound, RoundIsOver, Repeats
<1> QED BY <1>1, <1>2, <1>3, PTL DEF SchedulerSpec, IdleRoundIsRepeated

-----------------------------------------------------------------------------
(* What the passes make of f, up to the n-th.                              *)
AreForms(after, f, n) ==
    after = [i \in 0 .. n |-> IF i = 0 THEN f ELSE passes[i][after[i - 1]].function]

(* The recursive definition of AfterPasses has a solution.                 *)
LEMMA FormsExist ==
  ASSUME NEW n \in Nat, NEW f
  PROVE  \E after : AreForms(after, f, n)
<1> DEFINE T == {k \in 0 .. n : \E after : AreForms(after, f, k)}
<1>1. 0 \in T
  <2> DEFINE after == [i \in 0 .. 0 |-> f]
  <2>1. AreForms(after, f, 0)
    BY DEF AreForms
  <2> HIDE DEF after
  <2> QED BY <2>1
<1>2. ASSUME NEW k \in 0 .. n - 1, k \in T
      PROVE  k + 1 \in T
  <2>1. PICK g : AreForms(g, f, k)
    BY <1>2
  <2> DEFINE last == passes[k + 1][g[k]].function
             h == [i \in 0 .. k + 1 |-> IF i = k + 1 THEN last ELSE g[i]]
  <2>2. g = [i \in 0 .. k |-> IF i = 0 THEN f ELSE passes[i][g[i - 1]].function]
    BY <2>1 DEF AreForms
  <2>3. ASSUME NEW i \in 0 .. k + 1
        PROVE  h[i] = IF i = 0 THEN f ELSE passes[i][h[i - 1]].function
    <3>1. CASE i = k + 1
      <4>1. i # 0 /\ i - 1 = k /\ k \in 0 .. k + 1 /\ k # k + 1
        BY <3>1
      <4>2. h[i] = last /\ h[i - 1] = g[k]
        BY <3>1, <4>1
      <4> QED BY <3>1, <4>1, <4>2
    <3>2. CASE i # k + 1
      <4>1. i \in 0 .. k /\ h[i] = g[i]
        BY <3>2
      <4>2. CASE i = 0
        BY <2>2, <4>1, <4>2
      <4>3. CASE i # 0
        <5>1. i - 1 \in 0 .. k + 1 /\ i - 1 # k + 1
          BY <4>1, <4>3
        <5>2. h[i - 1] = g[i - 1]
          BY <5>1
        <5>3. g[i] = passes[i][g[i - 1]].function
          BY <2>2, <4>1, <4>3
        <5> QED BY <4>1, <4>3, <5>2, <5>3
      <4> QED BY <4>2, <4>3
    <3> QED BY <3>1, <3>2
  <2>4. h = [i \in 0 .. k + 1 |-> IF i = 0 THEN f ELSE passes[i][h[i - 1]].function]
    BY <2>3
  <2> HIDE DEF h
  <2>5. AreForms(h, f, k + 1)
    BY <2>4 DEF AreForms
  <2> QED BY <2>5
<1> HIDE DEF T
<1>3. \A k \in 0 .. n : k \in T
  BY <1>1, <1>2, InductionUpTo
<1> QED BY <1>3 DEF T

(* The passes take one form of a function to the next.                     *)
LEMMA FormsFollow ==
  ASSUME passes \in Seq(Pass), NEW f \in Functions
  PROVE  /\ AfterPasses(f)[0] = f
         /\ \A k \in 0 .. Len(passes) - 1 :
                AfterPasses(f)[k + 1] = passes[k + 1][AfterPasses(f)[k]].function
         /\ \A k \in 0 .. Len(passes) : AfterPasses(f)[k] \in Functions
<1> DEFINE n == Len(passes)
           after == AfterPasses(f)
           T == {k \in 0 .. n : after[k] \in Functions}
<1>1. n \in Nat
  OBVIOUS
<1>2. AreForms(after, f, n)
  <2>1. \E g : AreForms(g, f, n)
    BY <1>1, FormsExist
  <2> QED BY <2>1 DEF AfterPasses, AreForms
<1> HIDE DEF after
<1>3. after = [i \in 0 .. n |-> IF i = 0 THEN f ELSE passes[i][after[i - 1]].function]
  BY <1>2 DEF AreForms
<1>4. after[0] = f
  BY <1>1, <1>3
<1>5. ASSUME NEW k \in 0 .. n - 1
      PROVE  after[k + 1] = passes[k + 1][after[k]].function
  <2>1. k + 1 \in 0 .. n /\ k + 1 # 0 /\ (k + 1) - 1 = k
    BY <1>1
  <2> QED BY <1>3, <2>1
<1>6. 0 \in T
  BY <1>1, <1>4
<1>7. ASSUME NEW k \in 0 .. n - 1, k \in T
      PROVE  k + 1 \in T
  <2>1. k + 1 \in 1 .. Len(passes) /\ k + 1 \in 0 .. n
    BY <1>1
  <2>2. passes[k + 1][after[k]].function \in Functions
    BY <1>7, <2>1, PassType
  <2> QED BY <1>5, <2>1, <2>2
<1> HIDE DEF T
<1>8. \A k \in 0 .. n : k \in T
  BY <1>1, <1>6, <1>7, InductionUpTo
<1> QED BY <1>4, <1>5, <1>8 DEF after, T

(* The rounds so far, as long as no pass hides a change and a fingerprint  *)
(* stands for one form: the current round has made its function of the one *)
(* its facts were derived from, and every form seen before led, with a     *)
(* reported change, to one that was seen.                                  *)
RoundsGoOn ==
    /\ outcome = "start" => position = 0 /\ roundChange = {}
    /\ outcome = "running" /\ NoHiddenChange /\ FingerprintsAreUnique =>
           /\ Fingerprints[facts] \in seen
           /\ function = AfterPasses(facts)[position]
           /\ IF roundChange = {} THEN function = facts
              ELSE \E i \in 1 .. position : passes[i][facts].change # {}
           /\ \A f \in Functions \ {facts} : Fingerprints[f] \in seen =>
                  /\ Fingerprints[RoundOf(f)] \in seen
                  /\ \E i \in 1 .. Len(passes) : passes[i][f].change # {}
    /\ RepeatedIsACircle

(* What the scheduler knows of passes depends on nothing else.             *)
LEMMA SamePasses ==
  ASSUME passes' = passes
  PROVE  /\ NoHiddenChange' <=> NoHiddenChange
         /\ \A f : AfterPasses(f)' = AfterPasses(f) /\ RoundOf(f)' = RoundOf(f)
         /\ \A forms : IsCircle(forms)' <=> IsCircle(forms)
<1>1. NoHiddenChange' <=> NoHiddenChange
  BY DEF NoHiddenChange
<1>2. \A f : AfterPasses(f)' = AfterPasses(f)
  BY DEF AfterPasses
<1>3. \A f : RoundOf(f)' = RoundOf(f)
  BY <1>2 DEF RoundOf
<1>4. \A forms : IsCircle(forms)' <=> IsCircle(forms)
  BY <1>3 DEF IsCircle
<1> QED BY <1>1, <1>2, <1>3, <1>4

(* A pass takes the round one step further.                                *)
LEMMA RunPassGoesOn ==
  ASSUME SchedulerTypeOK, RoundsGoOn, RunPass
  PROVE  RoundsGoOn'
<1>1. PICK result : result = passes[position + 1][function]
  OBVIOUS
<1>2. /\ passes' = passes /\ facts' = facts /\ seen' = seen
      /\ outcome = "running" /\ outcome' = "running"
      /\ function' = result.function /\ roundChange' = roundChange \cup result.change
      /\ position' = position + 1 /\ position < Len(passes)
  BY <1>1 DEF RunPass, Union
<1>3. /\ position \in Nat /\ position + 1 \in 1 .. Len(passes) /\ position \in 0 .. Len(passes) - 1
      /\ position + 1 \in 1 .. position + 1
      /\ \A i \in 1 .. position : i \in 1 .. position + 1
      /\ passes \in Seq(Pass) /\ facts \in Functions /\ function \in Functions
  BY <1>2 DEF SchedulerTypeOK
<1>4. FingerprintsAreUnique' <=> FingerprintsAreUnique
  BY DEF FingerprintsAreUnique
<1>5. NoHiddenChange' <=> NoHiddenChange
  BY <1>2, SamePasses
<1> SUFFICES ASSUME NoHiddenChange, FingerprintsAreUnique
             PROVE  /\ Fingerprints[facts] \in seen
                    /\ function' = AfterPasses(facts)[position + 1]
                    /\ IF roundChange' = {} THEN function' = facts
                       ELSE \E i \in 1 .. position + 1 : passes[i][facts].change # {}
                    /\ \A f \in Functions \ {facts} : Fingerprints[f] \in seen =>
                           /\ Fingerprints[RoundOf(f)] \in seen
                           /\ \E i \in 1 .. Len(passes) : passes[i][f].change # {}
  BY <1>2, <1>4, <1>5, SamePasses DEF RoundsGoOn, RepeatedIsACircle
<1>6. /\ Fingerprints[facts] \in seen
      /\ function = AfterPasses(facts)[position]
      /\ IF roundChange = {} THEN function = facts
         ELSE \E i \in 1 .. position : passes[i][facts].change # {}
      /\ \A f \in Functions \ {facts} : Fingerprints[f] \in seen =>
             /\ Fingerprints[RoundOf(f)] \in seen
             /\ \E i \in 1 .. Len(passes) : passes[i][f].change # {}
  BY <1>2 DEF RoundsGoOn
<1>7. function' = AfterPasses(facts)[position + 1]
  BY <1>1, <1>2, <1>3, <1>6, FormsFollow
<1>8. ASSUME roundChange' = {}
      PROVE  function' = facts
  <2>1. roundChange = {} /\ result.change = {}
    BY <1>2, <1>8
  <2>2. result.function = function
    BY <1>1, <1>3, <2>1 DEF NoHiddenChange, ReportsItsChanges
  <2> QED BY <1>2, <1>6, <2>1, <2>2
<1>9. ASSUME roundChange' # {}
      PROVE  \E i \in 1 .. position + 1 : passes[i][facts].change # {}
  <2>1. CASE roundChange = {}
    BY <1>1, <1>2, <1>3, <1>6, <1>9, <2>1
  <2>2. CASE roundChange # {}
    BY <1>3, <1>6, <2>2
  <2> QED BY <2>1, <2>2
<1> QED BY <1>6, <1>7, <1>8, <1>9

(* A round with a change leads to a new form, or back to one seen before.  *)
LEMMA EndRoundGoesOn ==
  ASSUME SchedulerTypeOK, RoundsGoOn, EndRound
  PROVE  RoundsGoOn'
<1> DEFINE print == Fingerprints[function]
           IsPassed(f) == \E i \in 1 .. Len(passes) : passes[i][f].change # {}
<1>1. /\ passes' = passes /\ function' = function /\ facts' = function
      /\ seen' = seen \cup {print} /\ outcome = "running" /\ outcome' # "start"
      /\ position = Len(passes) /\ roundChange # {}
      /\ outcome' = "running" => print \notin seen /\ position' = 0 /\ roundChange' = {}
      /\ outcome' = "repeated" => print \in seen
  BY DEF EndRound, RoundIsOver, DerivedFacts, Repeats
<1>2. passes \in Seq(Pass) /\ facts \in Functions /\ function \in Functions
  BY DEF SchedulerTypeOK
<1>3. /\ FingerprintsAreUnique' <=> FingerprintsAreUnique
      /\ NoHiddenChange' <=> NoHiddenChange
      /\ \A f : AfterPasses(f)' = AfterPasses(f) /\ RoundOf(f)' = RoundOf(f)
      /\ \A forms : IsCircle(forms)' <=> IsCircle(forms)
  BY <1>1, SamePasses DEF FingerprintsAreUnique
<1>4. ASSUME NoHiddenChange, FingerprintsAreUnique
      PROVE  /\ Fingerprints[facts] \in seen /\ function = RoundOf(facts) /\ IsPassed(facts)
             /\ \A f \in Functions \ {facts} : Fingerprints[f] \in seen =>
                    Fingerprints[RoundOf(f)] \in seen /\ IsPassed(f)
  BY <1>1, <1>4 DEF RoundsGoOn, RoundOf
<1> HIDE DEF IsPassed
<1>5. ASSUME NoHiddenChange, FingerprintsAreUnique, NEW f \in Functions, Fingerprints[f] \in seen
      PROVE  Fingerprints[RoundOf(f)] \in seen' /\ IsPassed(f)
  BY <1>1, <1>4, <1>5
<1>6. ASSUME NoHiddenChange, FingerprintsAreUnique, outcome' = "repeated"
      PROVE  \E forms \in SUBSET Functions : function \in forms /\ IsCircle(forms)
  <2> DEFINE forms == {f \in Functions : Fingerprints[f] \in seen}
  <2>1. seen' = seen /\ function \in forms
    BY <1>1, <1>2, <1>6
  <2>2. ASSUME NEW f \in forms
        PROVE  RoundOf(f) \in forms /\ IsPassed(f)
    <3>1. f \in Functions /\ Fingerprints[f] \in seen
      OBVIOUS
    <3>2. Fingerprints[RoundOf(f)] \in seen /\ IsPassed(f)
      BY <1>5, <1>6, <2>1, <3>1
    <3>3. RoundOf(f) \in Functions
      <4>1. Len(passes) \in 0 .. Len(passes)
        BY <1>2
      <4> QED BY <1>2, <3>1, <4>1, FormsFollow DEF RoundOf
    <3> QED BY <3>2, <3>3
  <2>3. IsCircle(forms)
    BY <2>2 DEF IsCircle, IsPassed
  <2>4. forms \in SUBSET Functions
    OBVIOUS
  <2> HIDE DEF forms
  <2> QED BY <2>1, <2>3, <2>4
<1>7. RepeatedIsACircle'
  BY <1>1, <1>3, <1>6 DEF RepeatedIsACircle
<1>8. ASSUME NoHiddenChange, FingerprintsAreUnique, outcome' = "running"
      PROVE  /\ Fingerprints[function] \in seen'
             /\ function = AfterPasses(function)[0]
             /\ \A f \in Functions \ {function} : Fingerprints[f] \in seen' =>
                    Fingerprints[RoundOf(f)] \in seen' /\ IsPassed(f)
  <2>1. function = AfterPasses(function)[0]
    BY <1>2, FormsFollow
  <2>2. \A f \in Functions \ {function} : Fingerprints[f] \in seen' => Fingerprints[f] \in seen
    BY <1>1, <1>2, <1>8 DEF FingerprintsAreUnique
  <2> QED BY <1>1, <1>5, <1>8, <2>1, <2>2
<1> QED BY <1>1, <1>3, <1>7, <1>8 DEF RoundsGoOn, IsPassed

(* Every step of the scheduler keeps the history.                          *)
LEMMA RoundsGoOnInductive ==
  ASSUME SchedulerTypeOK, RoundsGoOn, [SchedulerNext]_schedulerVars
  PROVE  RoundsGoOn'
<1>1. passes' = passes
  BY DEF SchedulerNext, DeriveFirst, RunPass, Return, EndRound, FailDerive, schedulerVars
<1>2. /\ FingerprintsAreUnique' <=> FingerprintsAreUnique
      /\ NoHiddenChange' <=> NoHiddenChange
      /\ \A f : AfterPasses(f)' = AfterPasses(f) /\ RoundOf(f)' = RoundOf(f)
      /\ \A forms : IsCircle(forms)' <=> IsCircle(forms)
  BY <1>1, SamePasses DEF FingerprintsAreUnique
<1>3. CASE DeriveFirst
  <2>1. /\ outcome = "start" /\ outcome' = "running" /\ facts' = function
        /\ seen' = {Fingerprints[function]}
        /\ UNCHANGED <<function, position, roundChange>>
    BY <1>3 DEF DeriveFirst
  <2>2. position = 0 /\ roundChange = {} /\ passes \in Seq(Pass) /\ function \in Functions
    BY <2>1 DEF RoundsGoOn, SchedulerTypeOK
  <2>3. function = AfterPasses(function)[0]
    BY <2>2, FormsFollow
  <2>4. ASSUME FingerprintsAreUnique, NEW f \in Functions \ {function}
        PROVE  Fingerprints[f] \notin seen'
    BY <2>1, <2>2, <2>4 DEF FingerprintsAreUnique
  <2> QED BY <1>1, <1>2, <2>1, <2>2, <2>3, <2>4 DEF RoundsGoOn, RepeatedIsACircle
<1>4. CASE RunPass
  BY <1>4, RunPassGoesOn
<1>5. CASE Return
  <2>1. outcome' = "ok"
    BY <1>5 DEF Return
  <2> QED BY <2>1 DEF RoundsGoOn, RepeatedIsACircle
<1>6. CASE EndRound
  BY <1>6, EndRoundGoesOn
<1>7. CASE FailDerive
  <2>1. outcome' = "no_facts"
    BY <1>7 DEF FailDerive
  <2> QED BY <2>1 DEF RoundsGoOn, RepeatedIsACircle
<1>8. CASE UNCHANGED schedulerVars
  <2>1. /\ function' = function /\ facts' = facts /\ seen' = seen /\ position' = position
        /\ roundChange' = roundChange /\ outcome' = outcome
    BY <1>8 DEF schedulerVars
  <2> QED BY <1>1, <1>2, <2>1 DEF RoundsGoOn, RepeatedIsACircle
<1> QED BY <1>3, <1>4, <1>5, <1>6, <1>7, <1>8 DEF SchedulerNext

(* PassScheduler::run, "repeated structural state": a function is given up *)
(* before the rounds are used up only if no number of further rounds would *)
(* have left it alone.                                                     *)
THEOREM RepetitionIsACircle == SchedulerSpec => []RepeatedIsACircle
<1>1. SchedulerInit => RoundsGoOn
  BY DEF SchedulerInit, RoundsGoOn, RepeatedIsACircle
<1>2. RoundsGoOn => RepeatedIsACircle
  BY DEF RoundsGoOn
<1> QED BY <1>1, <1>2, RoundsGoOnInductive, SchedulerTypeCorrect, PTL DEF SchedulerSpec
=============================================================================
