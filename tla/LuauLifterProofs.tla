-------------------------- MODULE LuauLifterProofs --------------------------
(* Proofs about lifting: statements and their origins stay in step. All that  *)
(* matters of a list is its length.                                           *)
EXTENDS LuauLifter, SequenceTheorems, TLAPS

(* A list of values of any kind.                                              *)
IsList(s) == \E n \in Nat : s = [i \in 1..n |-> s[i]]

(* What every list has, and that it is a sequence over some set.              *)
LEMMA ListFacts ==
  ASSUME NEW s, IsList(s)
  PROVE  /\ Len(s) \in Nat /\ DOMAIN s = 1..Len(s)
         /\ s = [i \in 1..Len(s) |-> s[i]]
         /\ \E S : s \in Seq(S)
         /\ s # <<>> => Len(s) > 0
<1>1. PICK n \in Nat : s = [i \in 1..n |-> s[i]]
  BY DEF IsList
<1> DEFINE S == {s[i] : i \in 1..n}
<1>2. s \in [1..n -> S]
  BY <1>1
<1>3. s \in Seq(S)
  <2> HIDE DEF S
  <2> QED BY <1>2, SeqDef
<1>4. DOMAIN s = 1..n
  BY <1>1
<1>5. Len(s) = n
  <2> HIDE DEF S
  <2> QED BY <1>3, <1>4, LenProperties, SMT
<1>6. s # <<>> => n # 0
  <2> SUFFICES ASSUME n = 0 PROVE s = <<>>
    OBVIOUS
  <2>1. s = [i \in {} |-> s[i]]
    BY <1>1
  <2> QED BY <2>1
<1>7. \E R : s \in Seq(R)
  <2> HIDE DEF S
  <2> QED BY <1>3
<1> QED BY <1>1, <1>4, <1>5, <1>6, <1>7

(* And so is every sequence a list.                                           *)
LEMMA SequenceIsList ==
  ASSUME NEW S, NEW s \in Seq(S)
  PROVE  IsList(s)
<1>1. Len(s) \in Nat /\ s \in [1..Len(s) -> S]
  BY LenProperties
<1>2. s = [i \in 1..Len(s) |-> s[i]]
  BY <1>1
<1> QED BY <1>1, <1>2 DEF IsList

(* The list without values.                                                   *)
LEMMA EmptyList == IsList(<<>>) /\ Len(<<>>) = 0
<1>1. <<>> = [i \in 1..0 |-> <<>>[i]]
  OBVIOUS
<1> QED BY <1>1 DEF IsList

(* Lists of one value.                                                        *)
LEMMA ListOfOne == \A e : IsList(<<e>>)
<1> TAKE e
<1>1. <<e>> = [i \in 1..1 |-> <<e>>[i]]
  OBVIOUS
<1> QED BY <1>1 DEF IsList

(* A list that was changed in one place has its length.                       *)
LEMMA ListOfLength ==
  ASSUME NEW n \in Nat, NEW s, s = [i \in 1..n |-> s[i]]
  PROVE  IsList(s) /\ Len(s) = n
<1>1. IsList(s)
  BY DEF IsList
<1>2. DOMAIN s = 1..n
  BY SMT
<1>3. Len(s) \in Nat /\ DOMAIN s = 1..Len(s)
  BY <1>1, ListFacts
<1> QED BY <1>1, <1>2, <1>3, SMT

(* The lengths of two lists add up when one is put behind the other.          *)
LEMMA ListsJoin ==
  ASSUME NEW s, IsList(s), NEW t, IsList(t)
  PROVE  IsList(s \o t) /\ Len(s \o t) = Len(s) + Len(t)
<1>1. PICK S : s \in Seq(S)
  BY ListFacts
<1>2. PICK T : t \in Seq(T)
  BY ListFacts
<1>3. s \in Seq(S \cup T) /\ t \in Seq(S \cup T)
  BY <1>1, <1>2, SMT
<1>4. s \o t \in Seq(S \cup T) /\ Len(s \o t) = Len(s) + Len(t)
  BY <1>3, ConcatProperties
<1> QED BY <1>4, SequenceIsList

(* A list without its last value.                                             *)
LEMMA ListsShrink ==
  ASSUME NEW s, IsList(s), s # <<>>
  PROVE  IsList(Front(s)) /\ Len(Front(s)) = Len(s) - 1
<1>1. PICK S : s \in Seq(S)
  BY ListFacts
<1>2. Len(s) \in Nat /\ Len(s) > 0
  BY ListFacts
<1>3. PICK m \in Nat : m = Len(s) - 1
  BY <1>2
<1>4. \A i \in 1..m : s[i] \in S
  BY <1>1, <1>2, <1>3, ElementOfSeq
<1>5. SubSeq(s, 1, m) \in Seq(S) /\ Len(SubSeq(s, 1, m)) = IF 1 <= m THEN m - 1 + 1 ELSE 0
  BY <1>3, <1>4, SubSeqProperties
<1>6. Len(SubSeq(s, 1, m)) = m
  BY ONLY <1>5, m \in Nat
<1> QED BY <1>3, <1>5, <1>6, SequenceIsList DEF Front

(* Every instruction is lifted to a list of statements.                       *)
LEMMA LiftedIsList ==
  ASSUME NEW i
  PROVE  IsList(Lifted(i))
<1>1. i.op \in {"MOVE", "GETUPVAL", "SETUPVAL", "LOADNIL", "LOADB", "NEWTABLE", "GETGLOBAL", "SETGLOBAL"}
      => IsList(LiftLoad(i))
  BY ListOfOne DEF LiftLoad
<1>2. IsList(LiftIndex(i))
  BY ListOfOne DEF LiftIndex
<1>3. IsList(LiftOperator(i))
  BY ListOfOne DEF LiftOperator
<1>4. IsList(LiftConcat(i)) /\ IsList(LiftReturn(i)) /\ IsList(LiftSetList(i)) /\ IsList(LiftClose(i))
  BY ListOfOne DEF LiftConcat, LiftReturn, LiftSetList, LiftClose
<1>5. \A call, base, c : IsList(CallStatements(call, base, c))
  BY ListOfOne, EmptyList DEF CallStatements
<1>6. IsList(LiftCall(i)) /\ IsList(LiftMethod(i))
  BY <1>5 DEF LiftCall, LiftMethod
<1>7. IsList(LiftVarArg(i))
  BY ListOfOne, EmptyList DEF LiftVarArg
<1>8. i.op \in {"LOADK", "LOADKX", "LOADN"} => IsList(LiftConstant(i))
  BY ListOfOne DEF LiftConstant
<1>9. IsList(LiftImport(i)) /\ IsList(LiftTemplate(i)) /\ IsList(LiftClosure(i))
  BY ListOfOne DEF LiftImport, LiftTemplate, LiftClosure
<1>10. i.op \in Falsy \cup Compared => IsList(LiftCondition(i))
  BY ListOfOne DEF LiftCondition, Falsy, Compared
<1>11. i.op \in ComparedToConstant => IsList(LiftConstantCondition(i))
  BY ListOfOne DEF LiftConstantCondition, ComparedToConstant
<1>12. IsList(LiftNumericLoop(i)) /\ IsList(LiftGenericLoop(i))
  BY ListOfOne DEF LiftNumericLoop, LiftGenericLoop
<1> QED
  BY <1>1, <1>2, <1>3, <1>4, <1>6, <1>7, <1>8, <1>9, <1>10, <1>11, <1>12, EmptyList DEF Lifted

(* Two lists that are in step.                                                *)
InStep(statements, of) == IsList(statements) /\ IsList(of) /\ Len(of) = Len(statements)

(* They are, behind an instruction that appends some statements.              *)
LEMMA AppendedInStep ==
  ASSUME NEW statements, NEW of, InStep(statements, of), NEW more, IsList(more), NEW emitted
  PROVE  LET a == Appended(statements, of, more, emitted) IN InStep(a.statements, a.origins)
<1> DEFINE new == [n \in DOMAIN more |-> emitted]
<1>1. Len(more) \in Nat /\ DOMAIN more = 1..Len(more)
  BY ListFacts
<1>2. new = [n \in 1..Len(more) |-> new[n]]
  BY <1>1
<1>3. IsList(new) /\ Len(new) = Len(more)
  <2> HIDE DEF new
  <2> QED BY <1>1, <1>2, ListOfLength
<1> HIDE DEF new
<1>4. InStep(statements \o more, of \o new)
  BY <1>3, ListsJoin DEF InStep
<1> QED BY <1>4 DEF Appended, new

(* And behind a member of a class, which may take a statement away, with its  *)
(* origin, and give both to the statement that made the class.                *)
LEMMA MemberInStep ==
  ASSUME InStep(block, origins), NEW i
  PROVE  InStep(LiftMember(i).statements, LiftMember(i).origins)
<1> DEFINE inline == InlineMethod(i)
           kept == IF inline THEN Front(block) ELSE block
           of == IF inline THEN Front(origins) ELSE origins
           emitted == {pc} \cup (IF inline THEN origins[Len(origins)] ELSE {})
           method == IF inline THEN block[Len(block)].right[1] ELSE Register(i.c)
           classes == {n \in DOMAIN kept : kept[n].op = "Class" /\ kept[n].target = Register(i.a)}
           last == CHOOSE n \in classes : \A k \in classes : k <= n
           member == [kept EXCEPT ![last].methods = Append(@, <<Literal(i.aux), method>>)]
           from == [of EXCEPT ![last] = @ \cup emitted]
<1>1. InStep(kept, of)
  <2>1. CASE inline
    <3>1. block # <<>>
      BY <2>1 DEF InlineMethod
    <3>2. Len(block) > 0 /\ Len(block) \in Nat
      BY <3>1, ListFacts DEF InStep
    <3>3. origins # <<>>
      BY <3>2, EmptyList DEF InStep
    <3>4. InStep(Front(block), Front(origins))
      BY <3>1, <3>3, ListsShrink DEF InStep
    <3> QED BY <2>1, <3>4
  <2>2. CASE ~inline
    BY <2>2
  <2> QED BY <2>1, <2>2
<1>2. CASE classes # {}
  <2> HIDE DEF kept, of, emitted, method, last
  <2>1. /\ Len(kept) \in Nat /\ kept = [n \in 1..Len(kept) |-> kept[n]]
        /\ of = [n \in 1..Len(kept) |-> of[n]]
    BY <1>1, ListFacts DEF InStep
  <2>2. DOMAIN kept = 1..Len(kept) /\ DOMAIN of = 1..Len(kept)
    BY <1>1, ListFacts DEF InStep
  <2>3. DOMAIN member = 1..Len(kept) /\ DOMAIN from = 1..Len(kept)
    BY <2>2
  <2>4. member = [n \in 1..Len(kept) |-> member[n]] /\ from = [n \in 1..Len(kept) |-> from[n]]
    BY <2>3
  <2>5. InStep(member, from)
    <3> HIDE DEF member, from
    <3> QED BY <2>1, <2>4, ListOfLength DEF InStep
  <2>6. LiftMember(i) = [statements |-> member, origins |-> from]
    BY <1>2 DEF LiftMember, kept, of, emitted, method, last
  <2> QED BY <2>5, <2>6
<1>3. CASE classes = {}
  <2> DEFINE set == <<Set(<<"index", Register(i.a), Literal(i.aux)>>, method)>>
  <2>1. IsList(set)
    BY ListOfOne
  <2>2. LiftMember(i) = Appended(kept, of, set, emitted)
    BY <1>3 DEF LiftMember
  <2> HIDE DEF kept, of, emitted, set
  <2> QED BY <1>1, <2>1, <2>2, AppendedInStep
<1> QED BY <1>2, <1>3

(* The inductive invariant: both are lists, too.                              *)
OriginsInvariant ==
  /\ stage \in {"block", "end"} => InStep(block, origins)
  /\ \A n \in DOMAIN blocks : Len(blocks[n].origins) = Len(blocks[n].statements)

(* Each step keeps it; the only block that loses it is not part of the graph. *)
LEMMA OriginsArePreserved ==
  ASSUME OriginsInvariant, [Next]_vars
  PROVE  OriginsInvariant'
<1>1. CASE Deserialize
  BY <1>1 DEF Deserialize, OriginsInvariant
<1>2. CASE DiscoverBlocks
  BY <1>2 DEF DiscoverBlocks, OriginsInvariant
<1>3. CASE BeginBlock
  BY <1>3, EmptyList DEF BeginBlock, OriginsInvariant, InStep
<1>4. CASE LiftInstruction
  <2> DEFINE i == At(pc)
  <2>1. stage = "block" /\ blocks' = blocks
    BY <1>4 DEF LiftInstruction, Refuse
  <2>2. CASE Legal(i) /\ EdgesResolve(i)
    <3>1. block' = After(i).statements /\ origins' = After(i).origins
      BY <1>4, <2>2 DEF LiftInstruction
    <3>2. InStep(block, origins)
      BY <2>1 DEF OriginsInvariant
    <3>3. InStep(After(i).statements, After(i).origins)
      <4> HIDE DEF i
      <4> QED BY <3>2, MemberInStep, LiftedIsList, AppendedInStep DEF After
    <3> QED BY <2>1, <3>1, <3>3 DEF OriginsInvariant, InStep
  <2>3. CASE ~(Legal(i) /\ EdgesResolve(i))
    <3>1. Refuse
      BY <1>4, <2>3 DEF LiftInstruction
    <3> QED BY <2>1, <3>1 DEF Refuse, OriginsInvariant
  <2> QED BY <2>2, <2>3
<1>5. CASE EndBlock
  <2>1. CASE FallsThrough /\ pc \notin Boundaries
    <3>1. Refuse
      BY <1>5, <2>1 DEF EndBlock
    <3> QED BY <3>1 DEF Refuse, OriginsInvariant
  <2>2. CASE ~(FallsThrough /\ pc \notin Boundaries)
    <3>1. PICK node, e : blocks' = With(node, block, origins, e)
      BY <1>5, <2>2 DEF EndBlock
    <3>2. stage' = "next" /\ InStep(block, origins)
      BY <1>5, <2>2 DEF EndBlock, BlockEnds, OriginsInvariant
    <3>3. \A n \in DOMAIN blocks' : Len(blocks'[n].origins) = Len(blocks'[n].statements)
      BY <3>1, <3>2 DEF OriginsInvariant, InStep, With
    <3> QED BY <3>2, <3>3 DEF OriginsInvariant
  <2> QED BY <2>1, <2>2
<1>6. CASE EndOpenBlock
  BY <1>6 DEF EndOpenBlock, OriginsInvariant
<1>7. CASE Enter
  <2>1. stage' = "lifted"
    BY <1>7 DEF Enter
  <2>2. PICK node, e : blocks' = With(node, <<>>, <<>>, e)
    BY <1>7 DEF Enter
  <2>3. \A n \in DOMAIN blocks' : Len(blocks'[n].origins) = Len(blocks'[n].statements)
    BY <2>2 DEF OriginsInvariant, With
  <2> QED BY <2>1, <2>3 DEF OriginsInvariant
<1>8. CASE UNCHANGED vars
  BY <1>8 DEF vars, OriginsInvariant, InStep
<1> QED BY <1>1, <1>2, <1>3, <1>4, <1>5, <1>6, <1>7, <1>8 DEF Next

(* Whatever the code of a prototype is, a compiler's or not: behind every     *)
(* instruction, and in every block of the graph, there are as many origins as *)
(* statements. (lifter.rs, lift_block)                                        *)
THEOREM OriginsAlwaysMatch == Spec => []OriginsMatch
<1>1. Init => OriginsInvariant
  BY DEF Init, OriginsInvariant
<1>2. OriginsInvariant /\ [Next]_vars => OriginsInvariant'
  BY OriginsArePreserved
<1>3. OriginsInvariant => OriginsMatch
  BY DEF OriginsInvariant, OriginsMatch, InStep
<1> QED BY <1>1, <1>2, <1>3, PTL DEF Spec
=============================================================================
