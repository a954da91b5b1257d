----------------------- MODULE PrototypeExpansionProofs -----------------------
(***************************************************************************)
(* What validate_prototype_graph guarantees for every chunk: the order of  *)
(* an accepted chunk is a topological order of all its prototypes, and a   *)
(* chunk is only rejected for a cycle it has.                              *)
(*                                                                         *)
(* What validate_expansion_budget guarantees for every chunk and budget:   *)
(* its counts are those of the full expansion tree, a refusal for the size *)
(* or the depth is justified, and a planned chunk has no dangling closure  *)
(* in a prototype that is used.                                            *)
(***************************************************************************)
EXTENDS PrototypeExpansion, SequenceTheorems, TLAPS

-----------------------------------------------------------------------------
(* The graph.                                                              *)

Frames == [function : Prototypes(chunk), cursor : Nat]

(* The children of a prototype of a well-formed chunk are a list of        *)
(* natural numbers: the child table followed by the closure constants.     *)
LEMMA ChildrenType ==
  ASSUME NEW c, IsChunk(c), NEW f \in Prototypes(c)
  PROVE  Children(c, f) \in Seq(Nat)
<1>1. c.functions[f] \in Function
  BY DEF IsChunk, Prototypes
<1>2. c.functions[f].functions \in Seq(Nat) /\ c.functions[f].constants \in Seq(Nat)
  BY <1>1 DEF Function
<1> QED
  BY <1>2, ConcatProperties DEF Children

(* Advancing the top frame keeps the stack's length and every frame below  *)
(* the top, and moves the top frame's cursor by one.                       *)
LEMMA AdvancedFacts ==
  ASSUME TypeOK, stack # <<>>
  PROVE  /\ Advanced \in Seq(Frames)
         /\ Len(Advanced) = Len(stack)
         /\ Len(stack) \in Nat \ {0}
         /\ \A i \in 1 .. Len(stack) :
               /\ Advanced[i].function = stack[i].function
               /\ Advanced[i].cursor =
                     IF i = Len(stack) THEN stack[i].cursor + 1 ELSE stack[i].cursor
<1>1. stack \in Seq(Frames)
  BY DEF TypeOK, Frames
<1>2. Len(stack) \in Nat \ {0}
  BY <1>1, EmptySeq
<1>3. stack[Len(stack)] \in Frames
  BY <1>1, <1>2, ElementOfSeq
<1>4. [stack[Len(stack)] EXCEPT !.cursor = @ + 1] \in Frames
  BY <1>3 DEF Frames
<1>5. Advanced = [stack EXCEPT ![Len(stack)] = [stack[Len(stack)] EXCEPT !.cursor = @ + 1]]
  BY DEF Advanced
<1>6. Advanced \in Seq(Frames) /\ Len(Advanced) = Len(stack)
  BY <1>1, <1>2, <1>4, <1>5, ExceptSeq
<1>7. ASSUME NEW i \in 1 .. Len(stack)
      PROVE  /\ Advanced[i].function = stack[i].function
             /\ Advanced[i].cursor =
                   IF i = Len(stack) THEN stack[i].cursor + 1 ELSE stack[i].cursor
  <2>1. stack[i] \in Frames
    BY <1>1, ElementOfSeq
  <2>2. CASE i = Len(stack)
    BY <1>1, <1>2, <1>3, <1>5, <2>2, ExceptSeq DEF Frames
  <2>3. CASE i # Len(stack)
    BY <1>1, <1>2, <1>5, <2>1, <2>3, ExceptSeq
  <2> QED BY <2>2, <2>3
<1> QED BY <1>2, <1>6, <1>7

(* Popping keeps everything below the last element.                        *)
LEMMA FrontFacts ==
  ASSUME NEW S, NEW s \in Seq(S), s # <<>>
  PROVE  /\ Front(s) \in Seq(S)
         /\ Len(Front(s)) = Len(s) - 1
         /\ \A i \in 1 .. Len(s) - 1 : Front(s)[i] = s[i]
<1> DEFINE n == Len(s) - 1
<1>1. Len(s) \in Nat \ {0}
  BY EmptySeq
<1>2. 1 \in Int /\ n \in Int /\ n \in Nat
  BY <1>1
<1>3. \A i \in 1 .. n : s[i] \in S
  BY <1>1, ElementOfSeq
<1>4. Front(s) = SubSeq(s, 1, n)
  BY DEF Front
<1> HIDE DEF n
<1>5. /\ SubSeq(s, 1, n) \in Seq(S)
      /\ Len(SubSeq(s, 1, n)) = IF 1 <= n THEN n - 1 + 1 ELSE 0
      /\ \A i \in 1 .. n - 1 + 1 : SubSeq(s, 1, n)[i] = s[1 + i - 1]
  BY <1>2, <1>3, SubSeqProperties
<1>6. Len(Front(s)) = n /\ \A i \in 1 .. n : Front(s)[i] = s[i]
  BY <1>2, <1>4, <1>5
<1> QED BY <1>4, <1>5, <1>6 DEF n

(* The top frame and its children are well typed.                          *)
LEMMA TopFacts ==
  ASSUME TypeOK, stack # <<>>
  PROVE  /\ Len(stack) \in Nat \ {0}
         /\ Top \in Frames
         /\ Top.function \in Prototypes(chunk)
         /\ Top.cursor \in Nat
         /\ Children(chunk, Top.function) \in Seq(Nat)
<1>1. stack \in Seq(Frames)
  BY DEF TypeOK, Frames
<1>2. Len(stack) \in Nat \ {0}
  BY <1>1, EmptySeq
<1>3. Top \in Frames
  BY <1>1, <1>2, ElementOfSeq DEF Top
<1>4. Top.function \in Prototypes(chunk) /\ Top.cursor \in Nat
  BY <1>3 DEF Frames
<1> QED BY <1>2, <1>3, <1>4, ChildrenType DEF TypeOK

(* The next child is a number, and the cursor points at it.                *)
LEMMA ChildIsNat ==
  ASSUME TypeOK, HasChild
  PROVE  /\ Child \in Nat
         /\ Top.cursor + 1 \in 1 .. Len(Children(chunk, Top.function))
<1>1. stack # <<>>
  BY DEF HasChild
<1> DEFINE children == Children(chunk, Top.function)
<1>2. children \in Seq(Nat) /\ Top.cursor \in Nat
  BY <1>1, TopFacts
<1>3. Len(children) \in Nat
  BY <1>2, LenProperties
<1>4. Top.cursor + 1 \in 1 .. Len(children)
  BY <1>2, <1>3 DEF HasChild
<1> QED BY <1>2, <1>4, ElementOfSeq DEF Child

(* The initial values have their types.                                    *)
LEMMA TypeInit == Init => TypeOK
<1> SUFFICES ASSUME Init PROVE TypeOK
  OBVIOUS
<1>1. IsChunk(chunk)
  BY ChunksAssumption DEF Init
<1> QED BY <1>1 DEF Init, TypeOK, IsChunk, Results

(* A step of the search keeps the types of its variables.                  *)
LEMMA TypeStep ==
  ASSUME TypeOK, [Next]_graphVars
  PROVE  TypeOK'
<1> USE DEF Results
<1>0. /\ chunk' = chunk /\ Prototypes(chunk)' = Prototypes(chunk)
      /\ chunk.count \in Nat \ {0}
  BY DEF TypeOK, IsChunk, Next, SkipRoot, StartRoot, Accept, Visit, Descend, PassFinished,
         RejectCycle, RejectMissing, Finish, graphVars
<1>1. CASE SkipRoot
  BY <1>0, <1>1 DEF SkipRoot, TypeOK
<1>2. CASE StartRoot
  <2>1. root \in Prototypes(chunk)
    BY <1>0, <1>2 DEF StartRoot, TypeOK, Prototypes
  <2>2. Frame(root) \in Frames
    BY <2>1 DEF Frame, Frames
  <2> QED BY <1>0, <1>2, <2>1, <2>2 DEF StartRoot, TypeOK, Frames
<1>3. CASE Accept
  BY <1>0, <1>3 DEF Accept, TypeOK
<1>4. CASE Visit
  <2>1. stack # <<>> /\ HasChild
    BY <1>4 DEF Visit, Descend, PassFinished, RejectCycle, RejectMissing, HasChild
  <2>2. Advanced \in Seq(Frames)
    BY <2>1, AdvancedFacts
  <2>4. Child \in Nat
    BY <2>1, ChildIsNat
  <2>5. CASE Descend
    <3>1. Child \in Prototypes(chunk)
      BY <1>0, <2>4, <2>5 DEF Descend, Prototypes
    <3>2. Frame(Child) \in Frames
      BY <3>1 DEF Frame, Frames
    <3>3. Append(Advanced, Frame(Child)) \in Seq(Frames)
      BY <2>2, <3>2, AppendProperties
    <3>4. states' = [states EXCEPT ![Child] = 1] /\ states \in [Prototypes(chunk) -> 0 .. 2]
      BY <2>5 DEF Descend, TypeOK
    <3>5. states' \in [Prototypes(chunk) -> 0 .. 2]
      BY <3>1, <3>4
    <3> QED BY <1>0, <2>5, <3>3, <3>5 DEF Descend, TypeOK, Frames
  <2>6. CASE PassFinished
    BY <1>0, <2>2, <2>6 DEF PassFinished, TypeOK, Frames
  <2>7. CASE RejectCycle
    BY <1>0, <2>2, <2>7 DEF RejectCycle, TypeOK, Frames
  <2>8. CASE RejectMissing
    BY <1>0, <2>2, <2>8 DEF RejectMissing, TypeOK, Frames
  <2> QED BY <1>4, <2>5, <2>6, <2>7, <2>8 DEF Visit
<1>5. CASE Finish
  <2>2. Top.function \in Prototypes(chunk)
    BY <1>5, TopFacts DEF Finish
  <2>3. Front(stack) \in Seq(Frames)
    BY <1>5, FrontFacts DEF Finish, TypeOK, Frames
  <2>4. Append(postorder, Top.function) \in Seq(Prototypes(chunk))
    BY <2>2, AppendProperties DEF TypeOK
  <2> QED BY <1>0, <1>5, <2>2, <2>3, <2>4 DEF Finish, TypeOK, Frames
<1>6. CASE UNCHANGED graphVars
  BY <1>0, <1>6 DEF graphVars, TypeOK
<1> QED BY <1>1, <1>2, <1>3, <1>4, <1>5, <1>6 DEF Next

(* The variables keep their types.                                         *)
THEOREM TypeCorrect == Spec => []TypeOK
<1> QED BY TypeInit, TypeStep, PTL DEF Spec

-----------------------------------------------------------------------------
(* The stack after a frame was pushed, and after the top frame was popped. *)
LEMMA DescendFacts ==
  ASSUME TypeOK, Descend
  PROVE  /\ Len(stack) \in Nat \ {0}
         /\ Child \in Prototypes(chunk)
         /\ Len(stack') = Len(stack) + 1
         /\ \A i \in 1 .. Len(stack) : stack'[i] = Advanced[i]
         /\ stack'[Len(stack) + 1] = Frame(Child)
<1>1. HasChild /\ stack # <<>> /\ Child < chunk.count
  BY DEF Descend, HasChild
<1>2. Child \in Nat /\ chunk.count \in Nat
  BY <1>1, ChildIsNat DEF TypeOK, IsChunk
<1>3. Child \in Prototypes(chunk)
  BY <1>1, <1>2 DEF Prototypes
<1>4. Advanced \in Seq(Frames) /\ Len(Advanced) = Len(stack) /\ Len(stack) \in Nat \ {0}
  BY <1>1, AdvancedFacts
<1>5. Frame(Child) \in Frames
  BY <1>3 DEF Frame, Frames
<1>6. stack' = Append(Advanced, Frame(Child))
  BY DEF Descend
<1> QED BY <1>3, <1>4, <1>5, <1>6, AppendProperties

(* To finish a prototype takes its frame off the stack and nothing else.   *)
LEMMA FinishFacts ==
  ASSUME TypeOK, Finish
  PROVE  /\ Len(stack) \in Nat \ {0}
         /\ Top.function \in Prototypes(chunk)
         /\ Len(stack') = Len(stack) - 1
         /\ \A i \in 1 .. Len(stack) - 1 : stack'[i] = stack[i]
         /\ Len(postorder) \in Nat
         /\ Len(postorder') = Len(postorder) + 1
         /\ \A i \in 1 .. Len(postorder) : postorder'[i] = postorder[i]
         /\ postorder'[Len(postorder) + 1] = Top.function
<1>1. stack # <<>> /\ stack' = Front(stack) /\ postorder' = Append(postorder, Top.function)
  BY DEF Finish
<1>2. Len(stack) \in Nat \ {0} /\ Top.function \in Prototypes(chunk)
  BY <1>1, TopFacts
<1>3. Len(stack') = Len(stack) - 1 /\ \A i \in 1 .. Len(stack) - 1 : stack'[i] = stack[i]
  BY <1>1, FrontFacts DEF TypeOK
<1>4. postorder \in Seq(Prototypes(chunk)) /\ Len(postorder) \in Nat
  BY LenProperties DEF TypeOK
<1> QED BY <1>1, <1>2, <1>3, <1>4, AppendProperties

(* Descending into a prototype that is not visited.                        *)
LEMMA DescendPreserves ==
  ASSUME SearchInvariant, Descend, TypeOK'
  PROVE  SearchInvariant'
<1> DEFINE n == Len(stack)
<1>0. TypeOK
  BY DEF SearchInvariant
<1>1. /\ n \in Nat \ {0}
      /\ Child \in Prototypes(chunk)
      /\ Len(stack') = n + 1
      /\ \A i \in 1 .. n : stack'[i] = Advanced[i]
      /\ stack'[n + 1] = Frame(Child)
  BY <1>0, DescendFacts
<1>2. HasChild /\ stack # <<>>
  BY DEF Descend, HasChild
<1>3. \A i \in 1 .. n :
         /\ stack'[i].function = stack[i].function
         /\ stack'[i].cursor = IF i = n THEN stack[i].cursor + 1 ELSE stack[i].cursor
  BY <1>0, <1>1, <1>2, AdvancedFacts
<1>4. stack'[n + 1].function = Child /\ stack'[n + 1].cursor = 0
  BY <1>1 DEF Frame
<1>5. /\ chunk' = chunk /\ postorder' = postorder /\ root' = root /\ result' = result
      /\ result = "running" /\ states[Child] = 0
      /\ states' = [states EXCEPT ![Child] = 1]
  BY DEF Descend, HasChild
<1>6. \A p \in Prototypes(chunk) : states'[p] = IF p = Child THEN 1 ELSE states[p]
  BY <1>0, <1>5 DEF TypeOK
<1>7. Top.cursor + 1 \in 1 .. Len(Children(chunk, Top.function)) /\ Top = stack[n]
  BY <1>0, <1>2, ChildIsNat DEF Top
<1>8. Child = Children(chunk, stack[n].function)[stack[n].cursor + 1]
  BY <1>7 DEF Child
<1> HIDE DEF n
<1>9. StackIsMarked'
  <2>1. ASSUME NEW i \in 1 .. n PROVE stack[i].function # Child
    BY <1>1, <1>5, <2>1 DEF SearchInvariant, StackIsMarked, n
  <2>2. \A i, j \in 1 .. n + 1 : stack'[i].function = stack'[j].function => i = j
    BY <1>1, <1>3, <1>4, <2>1 DEF SearchInvariant, StackIsMarked, n
  <2>3. ASSUME NEW p \in Prototypes(chunk)
        PROVE  states'[p] = 1 <=> \E i \in 1 .. n + 1 : stack'[i].function = p
    <3>1. CASE p = Child
      BY <1>1, <1>4, <1>6, <3>1
    <3>2. CASE p # Child
      <4>1. states[p] = 1 <=> \E i \in 1 .. n : stack[i].function = p
        BY DEF SearchInvariant, StackIsMarked, n
      <4> QED BY <1>1, <1>3, <1>4, <1>6, <3>2, <4>1
    <3> QED BY <3>1, <3>2
  <2> QED BY <1>1, <1>5, <2>2, <2>3 DEF StackIsMarked
<1>10. FinishedIsListed'
  BY <1>5, <1>6 DEF SearchInvariant, FinishedIsListed
<1>11. StackIsPath'
  <2> SUFFICES ASSUME NEW i \in 1 .. n
               PROVE  /\ stack'[i].cursor \in 1 .. Len(Children(chunk, stack'[i].function))
                      /\ Children(chunk, stack'[i].function)[stack'[i].cursor] = stack'[i + 1].function
    BY <1>1, <1>5 DEF StackIsPath
  <2>1. CASE i = n
    BY <1>1, <1>3, <1>4, <1>7, <1>8, <2>1
  <2>2. CASE i # n
    <3>1. i \in 1 .. n - 1 /\ i + 1 \in 1 .. n
      BY <1>1, <2>2
    <3> QED BY <1>1, <1>3, <2>2, <3>1 DEF SearchInvariant, StackIsPath, n
  <2> QED BY <2>1, <2>2
<1>12. YieldedIsFinished'
  <2> SUFFICES ASSUME NEW i \in 1 .. n + 1
               PROVE  /\ stack'[i].cursor <= Len(Children(chunk, stack'[i].function))
                      /\ \A k \in 1 .. stack'[i].cursor :
                            LET child == Children(chunk, stack'[i].function)[k]
                            IN  /\ child \in Prototypes(chunk)
                                /\ states'[child] = 2 \/ (i < n + 1 /\ k = stack'[i].cursor)
    BY <1>1, <1>5 DEF YieldedIsFinished
  <2>0. ASSUME NEW j \in 1 .. n
        PROVE  /\ stack[j].cursor <= Len(Children(chunk, stack[j].function))
               /\ \A k \in 1 .. stack[j].cursor :
                     LET child == Children(chunk, stack[j].function)[k]
                     IN  /\ child \in Prototypes(chunk)
                         /\ states[child] = 2 \/ (j < n /\ k = stack[j].cursor)
    BY <1>5 DEF SearchInvariant, YieldedIsFinished, n
  <2>1. CASE i = n + 1
    <3>1. Children(chunk, Child) \in Seq(Nat)
      BY <1>0, <1>1, ChildrenType DEF TypeOK
    <3>2. Len(Children(chunk, Child)) \in Nat
      BY <3>1, LenProperties
    <3> QED BY <1>4, <2>1, <3>2
  <2>2. CASE i = n
    <3>1. stack[n].cursor \in Nat
      BY <1>0, <1>2, <1>7, TopFacts
    <3>2. stack'[i].cursor = stack[n].cursor + 1 /\ stack'[i].function = stack[n].function
      BY <1>1, <1>3, <2>2
    <3>3. ASSUME NEW k \in 1 .. stack[n].cursor + 1
          PROVE  LET child == Children(chunk, stack[n].function)[k]
                 IN  /\ child \in Prototypes(chunk)
                     /\ states'[child] = 2 \/ k = stack[n].cursor + 1
      <4>1. CASE k = stack[n].cursor + 1
        BY <1>1, <1>8, <4>1
      <4>2. CASE k # stack[n].cursor + 1
        <5>1. k \in 1 .. stack[n].cursor
          BY <3>1, <4>2
        <5> QED BY <1>1, <1>5, <1>6, <2>0, <5>1
      <4> QED BY <4>1, <4>2
    <3> QED BY <1>1, <1>7, <2>2, <3>2, <3>3
  <2>3. CASE i \in 1 .. n - 1
    <3>1. stack'[i].cursor = stack[i].cursor /\ stack'[i].function = stack[i].function
      BY <1>1, <1>3, <2>3
    <3> QED BY <1>1, <1>5, <1>6, <2>0, <2>3, <3>1
  <2> QED BY <1>1, <2>1, <2>2, <2>3
<1>13. ChildrenAreListed'
  BY <1>5 DEF SearchInvariant, ChildrenAreListed
<1>14. RootsAreVisited'
  BY <1>5, <1>6 DEF SearchInvariant, RootsAreVisited
<1>15. CycleIsReal'
  BY <1>5 DEF CycleIsReal
<1> QED BY <1>9, <1>10, <1>11, <1>12, <1>13, <1>14, <1>15 DEF SearchInvariant
(* Passing over a finished child.                                          *)
LEMMA PassFinishedPreserves ==
  ASSUME SearchInvariant, PassFinished, TypeOK'
  PROVE  SearchInvariant'
<1> DEFINE n == Len(stack)
<1>0. TypeOK
  BY DEF SearchInvariant
<1>2. HasChild /\ stack # <<>> /\ stack' = Advanced
  BY DEF PassFinished, HasChild
<1>3. /\ n \in Nat \ {0} /\ Len(stack') = n
      /\ \A i \in 1 .. n :
            /\ stack'[i].function = stack[i].function
            /\ stack'[i].cursor = IF i = n THEN stack[i].cursor + 1 ELSE stack[i].cursor
  BY <1>0, <1>2, AdvancedFacts
<1>5. /\ chunk' = chunk /\ postorder' = postorder /\ root' = root /\ result' = result
      /\ result = "running" /\ states' = states
      /\ states[Child] = 2 /\ Child < chunk.count
  BY DEF PassFinished, HasChild
<1>6. Child \in Prototypes(chunk)
  <2>1. Child \in Nat /\ chunk.count \in Nat
    BY <1>0, <1>2, ChildIsNat DEF TypeOK, IsChunk
  <2> QED BY <1>5, <2>1 DEF Prototypes
<1>7. Top.cursor + 1 \in 1 .. Len(Children(chunk, Top.function)) /\ Top = stack[n]
  BY <1>0, <1>2, ChildIsNat DEF Top
<1>8. Child = Children(chunk, stack[n].function)[stack[n].cursor + 1]
  BY <1>7 DEF Child
<1> HIDE DEF n
<1>9. StackIsMarked'
  BY <1>3, <1>5 DEF SearchInvariant, StackIsMarked, n
<1>10. FinishedIsListed'
  BY <1>5 DEF SearchInvariant, FinishedIsListed
<1>11. StackIsPath'
  <2>1. StackIsPath /\ chunk' = chunk
    BY <1>5 DEF SearchInvariant
  <2> SUFFICES ASSUME NEW i \in 1 .. n - 1
               PROVE  /\ stack'[i].cursor \in 1 .. Len(Children(chunk, stack'[i].function))
                      /\ Children(chunk, stack'[i].function)[stack'[i].cursor] = stack'[i + 1].function
    BY <1>3, <2>1 DEF StackIsPath
  <2>2. i \in 1 .. n /\ i # n /\ i + 1 \in 1 .. n
    BY <1>3
  <2> QED BY <1>3, <2>1, <2>2 DEF StackIsPath, n
<1>12. YieldedIsFinished'
  <2> SUFFICES ASSUME NEW i \in 1 .. n
               PROVE  /\ stack'[i].cursor <= Len(Children(chunk, stack'[i].function))
                      /\ \A k \in 1 .. stack'[i].cursor :
                            LET child == Children(chunk, stack'[i].function)[k]
                            IN  /\ child \in Prototypes(chunk)
                                /\ states[child] = 2 \/ (i < n /\ k = stack'[i].cursor)
    BY <1>3, <1>5 DEF YieldedIsFinished
  <2>0. /\ stack[i].cursor <= Len(Children(chunk, stack[i].function))
        /\ \A k \in 1 .. stack[i].cursor :
              LET child == Children(chunk, stack[i].function)[k]
              IN  /\ child \in Prototypes(chunk)
                  /\ states[child] = 2 \/ (i < n /\ k = stack[i].cursor)
    BY <1>5 DEF SearchInvariant, YieldedIsFinished, n
  <2>1. CASE i = n
    <3>1. stack[n].cursor \in Nat
      BY <1>0, <1>2, <1>7, TopFacts
    <3>2. ASSUME NEW k \in 1 .. stack[n].cursor + 1
          PROVE  /\ Children(chunk, stack[n].function)[k] \in Prototypes(chunk)
                 /\ states[Children(chunk, stack[n].function)[k]] = 2
      <4>1. CASE k = stack[n].cursor + 1
        BY <1>5, <1>6, <1>8, <4>1
      <4>2. CASE k # stack[n].cursor + 1
        <5>1. k \in 1 .. stack[n].cursor
          BY <3>1, <4>2
        <5> QED BY <1>3, <2>0, <2>1, <5>1
      <4> QED BY <4>1, <4>2
    <3> QED BY <1>3, <1>7, <2>1, <3>2
  <2>2. CASE i # n
    BY <1>3, <2>0, <2>2
  <2> QED BY <2>1, <2>2
<1>13. ChildrenAreListed'
  BY <1>5 DEF SearchInvariant, ChildrenAreListed
<1>14. RootsAreVisited'
  BY <1>5 DEF SearchInvariant, RootsAreVisited
<1>15. CycleIsReal'
  BY <1>5 DEF CycleIsReal
<1> QED BY <1>9, <1>10, <1>11, <1>12, <1>13, <1>14, <1>15 DEF SearchInvariant

(* Rejecting the chunk: the search stops, and a cycle runs from the frame  *)
(* of the child up to the top.                                             *)
LEMMA RejectPreserves ==
  ASSUME SearchInvariant, RejectCycle \/ RejectMissing, TypeOK'
  PROVE  SearchInvariant'
<1> DEFINE n == Len(stack)
<1>0. TypeOK
  BY DEF SearchInvariant
<1>2. HasChild /\ stack # <<>> /\ stack' = Advanced
  BY DEF RejectCycle, RejectMissing, HasChild
<1>3. /\ n \in Nat \ {0} /\ Len(stack') = n
      /\ \A i \in 1 .. n :
            /\ stack'[i].function = stack[i].function
            /\ stack'[i].cursor = IF i = n THEN stack[i].cursor + 1 ELSE stack[i].cursor
  BY <1>0, <1>2, AdvancedFacts
<1>5. /\ chunk' = chunk /\ postorder' = postorder /\ root' = root /\ states' = states
      /\ result' \in {"cycle", "missing_child"}
  BY DEF RejectCycle, RejectMissing
<1> HIDE DEF n
<1>9. StackIsMarked'
  <2>1. StackIsMarked /\ chunk' = chunk /\ states' = states
    BY <1>5 DEF SearchInvariant
  <2> QED BY <1>3, <2>1 DEF StackIsMarked, n
<1>10. FinishedIsListed'
  BY <1>5 DEF SearchInvariant, FinishedIsListed
<1>11. StackIsPath'
  <2>1. StackIsPath /\ chunk' = chunk
    BY <1>5 DEF SearchInvariant
  <2> SUFFICES ASSUME NEW i \in 1 .. n - 1
               PROVE  /\ stack'[i].cursor \in 1 .. Len(Children(chunk, stack'[i].function))
                      /\ Children(chunk, stack'[i].function)[stack'[i].cursor] = stack'[i + 1].function
    BY <1>3, <2>1 DEF StackIsPath
  <2>2. i \in 1 .. n /\ i # n /\ i + 1 \in 1 .. n
    BY <1>3
  <2> QED BY <1>3, <2>1, <2>2 DEF StackIsPath, n
<1>12. YieldedIsFinished'
  BY <1>5 DEF YieldedIsFinished
<1>13. ChildrenAreListed'
  BY <1>5 DEF SearchInvariant, ChildrenAreListed
<1>14. RootsAreVisited'
  BY <1>5 DEF SearchInvariant, RootsAreVisited
<1>15. CycleIsReal'
  <2> SUFFICES ASSUME result' = "cycle" PROVE CycleIsReal'
    BY DEF CycleIsReal
  <2>1. Child < chunk.count /\ states[Child] = 1
    BY DEF RejectCycle, RejectMissing
  <2>2. Child \in Prototypes(chunk)
    <3>1. Child \in Nat /\ chunk.count \in Nat
      BY <1>0, <1>2, ChildIsNat DEF TypeOK, IsChunk
    <3> QED BY <2>1, <3>1 DEF Prototypes
  <2>3. PICK first \in 1 .. n : stack[first].function = Child
    BY <2>1, <2>2 DEF SearchInvariant, StackIsMarked, n
  <2>4. Child \in Named(chunk, stack[n].function)
    BY <1>0, <1>2, ChildIsNat DEF Child, Named, Top, n
  <2>5. ASSUME NEW i \in first .. n - 1
        PROVE  stack[i + 1].function \in Named(chunk, stack[i].function)
    <3>1. i \in 1 .. n - 1
      BY <1>3, <2>3
    <3> QED BY <3>1 DEF SearchInvariant, StackIsPath, Named, n
  <2>6. \A i \in first .. n - 1 : stack'[i + 1].function \in Named(chunk, stack'[i].function)
    BY <1>3, <2>3, <2>5
  <2>7. stack'[first].function \in Named(chunk, stack'[n].function)
    BY <1>3, <2>3, <2>4
  <2> QED BY <1>3, <1>5, <2>3, <2>6, <2>7 DEF CycleIsReal, Top
<1> QED BY <1>9, <1>10, <1>11, <1>12, <1>13, <1>14, <1>15 DEF SearchInvariant
(* Popping a frame whose children are all finished.                        *)
LEMMA FinishPreserves ==
  ASSUME SearchInvariant, Finish, TypeOK'
  PROVE  SearchInvariant'
<1> DEFINE n == Len(stack)
           m == Len(postorder)
           top == Top.function
<1>0. TypeOK
  BY DEF SearchInvariant
<1>1. /\ n \in Nat \ {0} /\ top \in Prototypes(chunk)
      /\ Len(stack') = n - 1 /\ \A i \in 1 .. n - 1 : stack'[i] = stack[i]
      /\ m \in Nat /\ Len(postorder') = m + 1
      /\ \A i \in 1 .. m : postorder'[i] = postorder[i]
      /\ postorder'[m + 1] = top
  BY <1>0, FinishFacts
<1>2. /\ chunk' = chunk /\ root' = root /\ result' = result /\ result = "running"
      /\ states' = [states EXCEPT ![top] = 2]
      /\ Top.cursor = Len(Children(chunk, top))
  BY DEF Finish
<1>3. \A p \in Prototypes(chunk) : states'[p] = IF p = top THEN 2 ELSE states[p]
  BY <1>0, <1>2 DEF TypeOK
<1>4. Top = stack[n] /\ top = stack[n].function
  BY DEF Top
<1>5. states[top] = 1
  BY <1>1, <1>4 DEF SearchInvariant, StackIsMarked
<1> HIDE DEF n, m, top
<1>9. StackIsMarked'
  <2>1. ASSUME NEW p \in Prototypes(chunk)
        PROVE  states'[p] = 1 <=> \E i \in 1 .. n - 1 : stack'[i].function = p
    <3>1. states[p] = 1 <=> \E i \in 1 .. n : stack[i].function = p
      BY DEF SearchInvariant, StackIsMarked, n
    <3>2. \A i, j \in 1 .. n : stack[i].function = stack[j].function => i = j
      BY DEF SearchInvariant, StackIsMarked, n
    <3> QED BY <1>1, <1>3, <1>4, <3>1, <3>2, SMTT(30)
  <2>2. \A i, j \in 1 .. n - 1 : stack'[i].function = stack'[j].function => i = j
    BY <1>1 DEF SearchInvariant, StackIsMarked, n
  <2> QED BY <1>1, <1>2, <2>1, <2>2 DEF StackIsMarked
<1>10. FinishedIsListed'
  <2>1. \A i \in 1 .. m : postorder[i] # top
    BY <1>1, <1>5 DEF SearchInvariant, FinishedIsListed, m
  <2>2. \A i, j \in 1 .. m + 1 : postorder'[i] = postorder'[j] => i = j
    BY <1>1, <2>1 DEF SearchInvariant, FinishedIsListed, m
  <2>3. ASSUME NEW p \in Prototypes(chunk)
        PROVE  states'[p] = 2 <=> \E i \in 1 .. m + 1 : postorder'[i] = p
    <3>1. states[p] = 2 <=> \E i \in 1 .. m : postorder[i] = p
      BY DEF SearchInvariant, FinishedIsListed, m
    <3>2. CASE p = top
      BY <1>1, <1>3, <3>2
    <3>3. CASE p # top
      BY <1>1, <1>3, <3>1, <3>3
    <3> QED BY <3>2, <3>3
  <2> QED BY <1>1, <1>2, <2>2, <2>3 DEF FinishedIsListed
<1>11. StackIsPath'
  <2> SUFFICES ASSUME NEW i \in 1 .. n - 2
               PROVE  /\ stack'[i].cursor \in 1 .. Len(Children(chunk, stack'[i].function))
                      /\ Children(chunk, stack'[i].function)[stack'[i].cursor] = stack'[i + 1].function
    <3>1. Len(stack') - 1 = n - 2 /\ chunk' = chunk
      BY <1>1, <1>2
    <3> QED BY <3>1 DEF StackIsPath
  <2>1. i \in 1 .. n - 1 /\ i + 1 \in 1 .. n - 1
    BY <1>1
  <2> QED BY <1>1, <2>1 DEF SearchInvariant, StackIsPath, n
<1>12. YieldedIsFinished'
  <2> SUFFICES ASSUME NEW i \in 1 .. n - 1
               PROVE  /\ stack[i].cursor <= Len(Children(chunk, stack[i].function))
                      /\ \A k \in 1 .. stack[i].cursor :
                            LET child == Children(chunk, stack[i].function)[k]
                            IN  /\ child \in Prototypes(chunk)
                                /\ states'[child] = 2 \/ (i < n - 1 /\ k = stack[i].cursor)
    BY <1>1, <1>2, SMTT(30) DEF YieldedIsFinished
  <2>0. /\ stack[i].cursor <= Len(Children(chunk, stack[i].function))
        /\ \A k \in 1 .. stack[i].cursor :
              LET child == Children(chunk, stack[i].function)[k]
              IN  /\ child \in Prototypes(chunk)
                  /\ states[child] = 2 \/ (i < n /\ k = stack[i].cursor)
    BY <1>1, <1>2 DEF SearchInvariant, YieldedIsFinished, n
  <2>1. Children(chunk, stack[i].function)[stack[i].cursor] = stack[i + 1].function
    BY DEF SearchInvariant, StackIsPath, n
  <2>2. ASSUME NEW k \in 1 .. stack[i].cursor, i = n - 1, k = stack[i].cursor
        PROVE  states'[Children(chunk, stack[i].function)[k]] = 2
    BY <1>1, <1>3, <1>4, <2>1, <2>2
  <2> QED BY <1>1, <1>3, <2>0, <2>2
<1>13. ChildrenAreListed'
  <2>0. /\ \A k \in 1 .. Len(Children(chunk, top)) :
              /\ Children(chunk, top)[k] \in Prototypes(chunk)
              /\ states[Children(chunk, top)[k]] = 2
    BY <1>1, <1>2, <1>4 DEF SearchInvariant, YieldedIsFinished, n, top
  <2>1. ASSUME NEW g \in Named(chunk, top)
        PROVE  \E j \in 1 .. m : postorder'[j] = g
    <3>1. g \in Prototypes(chunk) /\ states[g] = 2
      BY <2>0 DEF Named
    <3>2. \E j \in 1 .. m : postorder[j] = g
      BY <3>1 DEF SearchInvariant, FinishedIsListed, m
    <3> QED BY <1>1, <3>2
  <2>2. ASSUME NEW i \in 1 .. m, NEW g \in Named(chunk, postorder[i])
        PROVE  \E j \in 1 .. i - 1 : postorder'[j] = g
    <3>1. \E j \in 1 .. i - 1 : postorder[j] = g
      BY DEF SearchInvariant, ChildrenAreListed, ListsChildrenFirst, m
    <3> QED BY <1>1, <3>1
  <2> SUFFICES ASSUME NEW i \in 1 .. m + 1, NEW g \in Named(chunk, postorder'[i])
               PROVE  \E j \in 1 .. i - 1 : postorder'[j] = g
    BY <1>1, <1>2 DEF ChildrenAreListed, ListsChildrenFirst
  <2>3. CASE i = m + 1
    BY <1>1, <2>1, <2>3
  <2>4. CASE i # m + 1
    <3>1. i \in 1 .. m /\ postorder'[i] = postorder[i]
      BY <1>1, <2>4
    <3> QED BY <2>2, <3>1
  <2> QED BY <2>3, <2>4
<1>14. RootsAreVisited'
  <2>1. \A p \in Prototypes(chunk) : p < root => states[p] # 0
    BY DEF SearchInvariant, RootsAreVisited
  <2> QED BY <1>2, <1>3, <2>1 DEF RootsAreVisited
<1>15. CycleIsReal'
  BY <1>2 DEF CycleIsReal
<1> QED BY <1>9, <1>10, <1>11, <1>12, <1>13, <1>14, <1>15 DEF SearchInvariant

(* The steps of the outer loop.                                            *)
LEMMA OuterLoopPreserves ==
  ASSUME SearchInvariant, SkipRoot \/ StartRoot \/ Accept, TypeOK'
  PROVE  SearchInvariant'
<1>0. TypeOK /\ stack = <<>> /\ Len(stack) = 0
  BY DEF SearchInvariant, SkipRoot, StartRoot, Accept
<1>1. chunk' = chunk /\ postorder' = postorder
  BY DEF SkipRoot, StartRoot, Accept
<1>2. ChildrenAreListed'
  BY <1>1 DEF SearchInvariant, ChildrenAreListed
<1>3. result # "cycle" /\ result' # "cycle" /\ CycleIsReal'
  BY DEF SkipRoot, StartRoot, Accept, CycleIsReal
<1>4. CASE SkipRoot \/ Accept
  <2>1. stack' = stack /\ states' = states
    BY <1>4 DEF SkipRoot, Accept
  <2>2. StackIsMarked' /\ FinishedIsListed' /\ StackIsPath' /\ YieldedIsFinished'
    BY <1>0, <1>1, <2>1 DEF SearchInvariant, StackIsMarked, FinishedIsListed, StackIsPath,
                            YieldedIsFinished
  <2>3. RootsAreVisited'
    <3>1. \A p \in Prototypes(chunk) : p < root => states[p] # 0
      BY DEF SearchInvariant, RootsAreVisited
    <3>2. root \in Nat /\ \A p \in Prototypes(chunk) : p \in Nat
      BY <1>0 DEF TypeOK, IsChunk, Prototypes
    <3>3. CASE SkipRoot
      BY <1>1, <2>1, <3>1, <3>2, <3>3 DEF RootsAreVisited, SkipRoot
    <3>4. CASE Accept
      BY <1>1, <2>1, <3>1, <3>4 DEF RootsAreVisited, Accept
    <3> QED BY <1>4, <3>3, <3>4
  <2> QED BY <1>2, <1>3, <2>2, <2>3 DEF SearchInvariant
<1>5. CASE StartRoot
  <2>1. /\ root \in Prototypes(chunk) /\ states[root] = 0
        /\ states' = [states EXCEPT ![root] = 1] /\ stack' = <<Frame(root)>>
        /\ root' = root /\ result' = "running"
    BY <1>0, <1>5 DEF StartRoot, TypeOK, IsChunk, Prototypes
  <2>2. Len(stack') = 1 /\ stack'[1].function = root /\ stack'[1].cursor = 0
    BY <2>1 DEF Frame
  <2>3. \A p \in Prototypes(chunk) : states'[p] = IF p = root THEN 1 ELSE states[p]
    BY <1>0, <2>1 DEF TypeOK
  <2>4. \A p \in Prototypes(chunk) : states[p] # 1
    BY <1>0 DEF SearchInvariant, StackIsMarked
  <2>5. StackIsMarked'
    BY <1>1, <2>1, <2>2, <2>3, <2>4 DEF StackIsMarked
  <2>6. FinishedIsListed'
    BY <1>1, <2>1, <2>3 DEF SearchInvariant, FinishedIsListed
  <2>7. StackIsPath'
    BY <2>2 DEF StackIsPath
  <2>8. YieldedIsFinished'
    <3>1. Children(chunk, root) \in Seq(Nat)
      BY <1>0, <2>1, ChildrenType DEF TypeOK
    <3>2. Len(Children(chunk, root)) \in Nat
      BY <3>1, LenProperties
    <3> QED BY <1>1, <2>2, <3>2 DEF YieldedIsFinished
  <2>9. RootsAreVisited'
    BY <1>1, <2>1, <2>3 DEF SearchInvariant, RootsAreVisited
  <2> QED BY <1>2, <1>3, <2>5, <2>6, <2>7, <2>8, <2>9 DEF SearchInvariant
<1> QED BY <1>4, <1>5

-----------------------------------------------------------------------------
(* The inductive invariant of the search holds in the initial states ...   *)
LEMMA SearchInit == Init => SearchInvariant
<1> SUFFICES ASSUME Init PROVE SearchInvariant
  OBVIOUS
<1>0. TypeOK
  BY TypeInit
<1>1. Len(stack) = 0 /\ Len(postorder) = 0
  BY DEF Init
<1>2. \A p \in Prototypes(chunk) : states[p] = 0 /\ p \in Nat
  BY <1>0 DEF Init, Prototypes, TypeOK, IsChunk
<1> QED BY <1>0, <1>1, <1>2 DEF Init, SearchInvariant, StackIsMarked, FinishedIsListed, StackIsPath,
                          YieldedIsFinished, ChildrenAreListed, ListsChildrenFirst, RootsAreVisited,
                          CycleIsReal

(* ... and every step of the search keeps it.                              *)
LEMMA SearchStep ==
  ASSUME SearchInvariant, [Next]_graphVars
  PROVE  SearchInvariant'
<1>0. TypeOK'
  BY TypeStep DEF SearchInvariant
<1>1. CASE UNCHANGED graphVars
  BY <1>0, <1>1 DEF graphVars, SearchInvariant, TypeOK, StackIsMarked, FinishedIsListed, StackIsPath,
              YieldedIsFinished, ChildrenAreListed, RootsAreVisited, CycleIsReal, Top
<1> QED BY <1>0, <1>1, DescendPreserves, PassFinishedPreserves, RejectPreserves, FinishPreserves,
           OuterLoopPreserves DEF Next, Visit

(* The search keeps its inductive invariant.                               *)
THEOREM SearchInvariantHolds == Spec => []SearchInvariant
<1> QED BY SearchInit, SearchStep, PTL DEF Spec

(* The inductive invariant makes an accepted order topological.            *)
LEMMA AcceptedIsTopological == SearchInvariant => OrderIsTopological
<1> SUFFICES ASSUME SearchInvariant, result = "accepted" PROVE OrderIsTopological
  BY DEF OrderIsTopological
<1> DEFINE m == Len(postorder)
<1>1. m \in Nat
  BY LenProperties DEF SearchInvariant, TypeOK
<1>2. \A i \in 1 .. m : PrototypeOrder[i] = postorder[m - i + 1]
  BY DEF PrototypeOrder, Reverse
<1>3. Len(PrototypeOrder) = m
  BY <1>1 DEF PrototypeOrder, Reverse
<1>4. ASSUME NEW p \in Prototypes(chunk)
      PROVE  \E i \in 1 .. m : postorder[i] = p
  <2>1. Len(stack) = 0 /\ root = chunk.count
    BY DEF SearchInvariant, RootsAreVisited
  <2>2. states[p] \in 0 .. 2 /\ p < root
    BY <2>1 DEF SearchInvariant, TypeOK, Prototypes, IsChunk
  <2>3. states[p] # 0 /\ states[p] # 1
    BY <2>1, <2>2 DEF SearchInvariant, RootsAreVisited, StackIsMarked
  <2> QED BY <2>2, <2>3 DEF SearchInvariant, FinishedIsListed
<1> HIDE DEF m
<1>5. ASSUME NEW p \in Prototypes(chunk)
      PROVE  \E i \in 1 .. m : PrototypeOrder[i] = p
  <2>1. PICK j \in 1 .. m : postorder[j] = p
    BY <1>4
  <2>2. m - j + 1 \in 1 .. m /\ m - (m - j + 1) + 1 = j
    BY <1>1
  <2> QED BY <1>2, <2>1, <2>2
<1>6. ASSUME NEW i \in 1 .. m, NEW j \in 1 .. m, PrototypeOrder[i] = PrototypeOrder[j]
      PROVE  i = j
  <2>1. m - i + 1 \in 1 .. m /\ m - j + 1 \in 1 .. m
    BY <1>1
  <2>2. postorder[m - i + 1] = postorder[m - j + 1]
    BY <1>2, <1>6
  <2>3. m - i + 1 = m - j + 1
    BY <2>1, <2>2 DEF SearchInvariant, FinishedIsListed, m
  <2> QED BY <1>1, <2>3
<1>7. ASSUME NEW f \in Prototypes(chunk), NEW g \in Named(chunk, f)
      PROVE  Before(PrototypeOrder, f, g)
  <2>1. PICK k \in 1 .. m : postorder[k] = f
    BY <1>4
  <2>2. PICK j \in 1 .. k - 1 : postorder[j] = g
    BY <2>1 DEF SearchInvariant, ChildrenAreListed, ListsChildrenFirst, m
  <2>3. /\ m - k + 1 \in 1 .. m /\ m - j + 1 \in 1 .. m
        /\ m - (m - k + 1) + 1 = k /\ m - (m - j + 1) + 1 = j
        /\ m - k + 1 < m - j + 1
    BY <1>1, <2>1, <2>2
  <2> QED BY <1>2, <1>3, <2>1, <2>2, <2>3 DEF Before
<1> QED BY <1>5, <1>6, <1>7 DEF OrderIsTopological, m

(* The order of an accepted chunk lists every prototype exactly once, and  *)
(* each ahead of the prototypes it names: validate_expansion_budget may    *)
(* walk it once and find every count complete when it reaches a prototype. *)
THEOREM AcceptedOrderIsTopological == Spec => []OrderIsTopological
<1> QED BY AcceptedIsTopological, SearchInvariantHolds, PTL

(* A chunk rejected for a cycle has the cycle the stack shows.             *)
THEOREM RejectedCycleIsReal == Spec => []CycleIsReal
<1>1. SearchInvariant => CycleIsReal
  BY DEF SearchInvariant
<1> QED BY <1>1, SearchInvariantHolds, PTL

-----------------------------------------------------------------------------
(* The expansion.                                                          *)

(* A chunk has as many prototypes as it counts, main among them.           *)
LEMMA ChunkFacts ==
  ASSUME NEW c, IsChunk(c)
  PROVE  /\ c.count \in Nat \ {0}
         /\ Prototypes(c) = 0 .. c.count - 1
         /\ c.main \in Prototypes(c)
         /\ \A f \in Prototypes(c) :
               /\ c.functions[f].code \in Seq(Instruction)
               /\ Len(c.functions[f].code) \in Nat
<1>1. \A f \in Prototypes(c) : c.functions[f] \in Function
  BY DEF IsChunk, Prototypes
<1>2. \A f \in Prototypes(c) : c.functions[f].code \in Seq(Instruction)
  BY <1>1 DEF Function
<1> QED BY <1>2, LenProperties DEF IsChunk, Prototypes

(* A valid closure creates a prototype the table names.                    *)
LEMMA ClosureFacts ==
  ASSUME NEW c, IsChunk(c), NEW f \in Prototypes(c), NEW instruction \in Instruction,
         ValidClosure(c, f, instruction)
  PROVE  /\ ClosureChild(c, f, instruction) \in Prototypes(c)
         /\ ClosureChild(c, f, instruction) \in Named(c, f)
<1> DEFINE function == c.functions[f]
           slot == instruction.slot
<1>1. function \in Function
  BY DEF IsChunk, Prototypes
<1>2. function.functions \in Seq(Nat) /\ function.constants \in Seq(Nat)
  BY <1>1 DEF Function
<1>3. /\ Len(function.functions) \in Nat /\ Len(function.constants) \in Nat
      /\ Len(Children(c, f)) = Len(function.functions) + Len(function.constants)
      /\ \A i \in 1 .. Len(Children(c, f)) :
            Children(c, f)[i] = IF i <= Len(function.functions) THEN function.functions[i]
                                ELSE function.constants[i - Len(function.functions)]
  BY <1>2, LenProperties, ConcatProperties, ZenonT(30) DEF Children
<1>4. ClosureChild(c, f, instruction) \in Prototypes(c)
  BY DEF ValidClosure, ClosureChild
<1> DEFINE m == Len(function.functions)
           n == Len(function.constants)
<1>6. m \in Nat /\ n \in Nat /\ Len(Children(c, f)) = m + n
  BY <1>3
<1>5. \E i \in 1 .. Len(Children(c, f)) : Children(c, f)[i] = ClosureChild(c, f, instruction)
  <2>1. CASE instruction.op = "NEWCLOSURE"
    <3>1. slot \in 0 .. m - 1
      BY <2>1 DEF ValidClosure, ClosureTable
    <3>2. ClosureChild(c, f, instruction) = function.functions[slot + 1]
      BY <2>1 DEF ClosureChild, ClosureTable
    <3>3. slot + 1 \in 1 .. m + n /\ slot + 1 <= m
      <4> HIDE DEF m, n, slot
      <4> QED BY <1>6, <3>1
    <3> QED BY <1>3, <3>2, <3>3
  <2>2. CASE instruction.op # "NEWCLOSURE"
    <3>1. slot \in 0 .. n - 1
      BY <2>2 DEF ValidClosure, ClosureTable
    <3>2. ClosureChild(c, f, instruction) = function.constants[slot + 1]
      BY <2>2 DEF ClosureChild, ClosureTable
    <3> DEFINE i == m + (slot + 1)
    <3>3. i \in 1 .. m + n /\ ~ (i <= m) /\ i - m = slot + 1
      <4> HIDE DEF m, n, slot
      <4> QED BY <1>6, <3>1
    <3> HIDE DEF i
    <3> QED BY <1>3, <3>2, <3>3
  <2> QED BY <2>1, <2>2
<1> QED BY <1>4, <1>5 DEF Named

(* How the number of closures of g among the instructions of f passed so   *)
(* far grows with each instruction.                                        *)
LEMMA EdgesFacts ==
  ASSUME NEW f, NEW g, Len(Code(f)) \in Nat
  PROVE  /\ Edges(chunk, f, g) \in Nat
         /\ \A n \in 0 .. Len(Code(f)) : EdgesPassed(f, g, n) \in 0 .. n
         /\ \A n \in 0 .. Len(Code(f)) - 1 :
               EdgesPassed(f, g, n + 1) =
                   EdgesPassed(f, g, n) + (IF n + 1 \in ClosuresOf(chunk, f, g) THEN 1 ELSE 0)
         /\ EdgesPassed(f, g, Len(Code(f))) = Edges(chunk, f, g)
         /\ \A n \in 0 .. Len(Code(f)) : EdgesPassed(f, g, n) <= Edges(chunk, f, g)
         /\ Edges(chunk, f, g) # 0 => ClosuresOf(chunk, f, g) # {}
<1> DEFINE all == ClosuresOf(chunk, f, g)
           passed(n) == {i \in all : i <= n}
           len == Len(Code(f))
<1>1. all \subseteq 1 .. len
  BY DEF ClosuresOf, Code
<1>0. len \in Nat /\ \A i \in all : i \in 1 .. len
  BY <1>1
<1> HIDE DEF all, len
<1>2. IsFiniteSet(all) /\ Cardinality(all) \in Nat
  <2>1. IsFiniteSet(1 .. len)
    BY FS_Interval DEF len
  <2> QED BY <1>1, <2>1, FS_Subset, FS_CardinalityType
<1>3. ASSUME NEW n \in 0 .. len
      PROVE  /\ IsFiniteSet(passed(n))
             /\ Cardinality(passed(n)) \in 0 .. n
             /\ Cardinality(passed(n)) <= Cardinality(all)
  <2>1. passed(n) \subseteq all /\ passed(n) \subseteq 1 .. n
    BY <1>0
  <2>2. IsFiniteSet(1 .. n) /\ Cardinality(1 .. n) = n
    <3>1. n \in Int /\ 1 \in Int /\ n \in Nat
      BY <1>0
    <3> QED BY <3>1, FS_Interval
  <2> HIDE DEF passed
  <2>3. IsFiniteSet(passed(n)) /\ Cardinality(passed(n)) <= n /\ Cardinality(passed(n)) <= Cardinality(all)
    BY <1>2, <2>1, <2>2, FS_Subset
  <2>4. Cardinality(passed(n)) \in Nat
    BY <2>3, FS_CardinalityType
  <2> QED BY <1>0, <2>3, <2>4
<1>4. ASSUME NEW n \in 0 .. len - 1
      PROVE  Cardinality(passed(n + 1)) = Cardinality(passed(n)) + (IF n + 1 \in all THEN 1 ELSE 0)
  <2>0. n \in 0 .. len /\ n \in Nat
    BY <1>0
  <2>1. CASE n + 1 \in all
    <3>1. passed(n + 1) = passed(n) \cup {n + 1} /\ n + 1 \notin passed(n)
      BY <1>0, <2>0, <2>1
    <3>2. IsFiniteSet(passed(n))
      BY <1>3, <2>0
    <3> HIDE DEF passed
    <3>3. Cardinality(passed(n) \cup {n + 1}) = Cardinality(passed(n)) + 1
      BY <3>1, <3>2, FS_AddElement
    <3> QED BY <2>1, <3>1, <3>3
  <2>2. CASE n + 1 \notin all
    <3>1. passed(n + 1) = passed(n)
      BY <1>0, <2>0, <2>2
    <3>2. Cardinality(passed(n)) \in Nat
      BY <1>3, <2>0
    <3> HIDE DEF passed
    <3> QED BY <2>2, <3>1, <3>2
  <2> QED BY <2>1, <2>2
<1>5. passed(len) = all
  BY <1>0
<1>6. all = {} => Cardinality(all) = 0
  BY FS_EmptySet
<1>7. /\ Edges(chunk, f, g) = Cardinality(all)
      /\ \A n \in 0 .. len : EdgesPassed(f, g, n) = Cardinality(passed(n))
  BY DEF Edges, EdgesPassed, all
<1>8. len \in 0 .. len
  BY <1>0
<1> HIDE DEF passed
<1>9. \A n \in 0 .. len - 1 : n \in 0 .. len /\ n + 1 \in 0 .. len
  BY <1>0
<1> QED BY <1>2, <1>3, <1>4, <1>5, <1>6, <1>7, <1>8, <1>9 DEF all, len

(* A prototype that creates a closure of g names g.                        *)
LEMMA EdgeIsNamed ==
  ASSUME NEW c, IsChunk(c), NEW f \in Prototypes(c), NEW g, ClosuresOf(c, f, g) # {}
  PROVE  g \in Named(c, f) /\ g \in Prototypes(c)
<1>1. PICK i \in 1 .. Len(c.functions[f].code) :
         /\ ValidClosure(c, f, c.functions[f].code[i])
         /\ ClosureChild(c, f, c.functions[f].code[i]) = g
  BY DEF ClosuresOf
<1>2. c.functions[f].code[i] \in Instruction
  <2>1. c.functions[f].code \in Seq(Instruction)
    BY ChunkFacts
  <2> QED BY <2>1, ElementOfSeq
<1> QED BY <1>1, <1>2, ClosureFacts

(* The order of an accepted chunk gives each prototype a place, ahead of   *)
(* the places of the prototypes it names.                                  *)
LEMMA OrderFacts ==
  ASSUME SearchInvariant, result = "accepted"
  PROVE  /\ Len(postorder) \in Nat /\ Len(postorder) <= chunk.count
         /\ Len(PrototypeOrder) = Len(postorder)
         /\ \A i \in 1 .. Len(postorder) :
               PrototypeOrder[i] \in Prototypes(chunk) /\ PlaceOf(PrototypeOrder[i]) = i
         /\ \A p \in Prototypes(chunk) :
               PlaceOf(p) \in 1 .. Len(postorder) /\ PrototypeOrder[PlaceOf(p)] = p
         /\ \A f, g \in Prototypes(chunk) : g \in Named(chunk, f) => PlaceOf(f) < PlaceOf(g)
<1> DEFINE m == Len(postorder)
           P == Prototypes(chunk)
<1>1. postorder \in Seq(P) /\ m \in Nat
  BY LenProperties DEF SearchInvariant, TypeOK
<1>2. \A i \in 1 .. m : postorder[i] \in P
  BY <1>1, ElementOfSeq
<1> HIDE DEF m
<1>3. Len(PrototypeOrder) = m /\ \A i \in 1 .. m : PrototypeOrder[i] = postorder[m - i + 1]
  BY <1>1 DEF PrototypeOrder, Reverse, m
<1>4. \A i \in 1 .. m : PrototypeOrder[i] \in P
  <2> SUFFICES ASSUME NEW i \in 1 .. m PROVE PrototypeOrder[i] \in P
    OBVIOUS
  <2>1. m - i + 1 \in 1 .. m
    BY <1>1
  <2> QED BY <1>2, <1>3, <2>1
<1>5. /\ \A p \in P : \E i \in 1 .. m : PrototypeOrder[i] = p
      /\ \A i, j \in 1 .. m : PrototypeOrder[i] = PrototypeOrder[j] => i = j
      /\ \A f \in P : \A g \in Named(chunk, f) : Before(PrototypeOrder, f, g)
  BY AcceptedIsTopological DEF OrderIsTopological, m
<1>6. \A p \in P : PlaceOf(p) \in 1 .. m /\ PrototypeOrder[PlaceOf(p)] = p
  BY <1>5 DEF PlaceOf, m
<1>7. \A i \in 1 .. m : PlaceOf(PrototypeOrder[i]) = i
  BY <1>4, <1>5, <1>6
<1>8. ASSUME NEW f \in P, NEW g \in P, g \in Named(chunk, f)
      PROVE  PlaceOf(f) < PlaceOf(g)
  <2>1. PICK i, j \in 1 .. m : i < j /\ PrototypeOrder[i] = f /\ PrototypeOrder[j] = g
    BY <1>3, <1>5, <1>8 DEF Before
  <2> QED BY <1>7, <2>1
<1>9. m <= chunk.count
  <2> SUFFICES ASSUME ~ (m <= chunk.count) PROVE FALSE
    OBVIOUS
  <2> DEFINE f == [i \in 1 .. m |-> PrototypeOrder[i]]
  <2>1. chunk.count \in Nat /\ P = 0 .. chunk.count - 1
    BY ChunkFacts DEF SearchInvariant, TypeOK
  <2>2. IsFiniteSet(1 .. m) /\ Cardinality(1 .. m) = m
    <3>1. 1 \in Int /\ m \in Int /\ (1 > m => m = 0)
      BY <1>1
    <3> QED BY <1>1, <3>1, FS_Interval
  <2>3. IsFiniteSet(P) /\ Cardinality(P) = chunk.count
    <3>1. 0 \in Int /\ chunk.count - 1 \in Int
      BY <2>1
    <3>2. IsFiniteSet(0 .. chunk.count - 1)
          /\ Cardinality(0 .. chunk.count - 1) =
               IF 0 > chunk.count - 1 THEN 0 ELSE (chunk.count - 1) - 0 + 1
      BY <3>1, FS_Interval
    <3> QED BY <2>1, <3>2
  <2>4. f \in [1 .. m -> P]
    BY <1>4
  <2>5. Cardinality(P) < Cardinality(1 .. m)
    BY <1>1, <2>1, <2>2, <2>3
  <2> DEFINE S == 1 .. m
  <2>6. IsFiniteSet(S) /\ IsFiniteSet(P) /\ Cardinality(P) < Cardinality(S) /\ f \in [S -> P]
    BY <2>2, <2>3, <2>4, <2>5
  <2> HIDE DEF f, P, S
  <2>7. \E i, j \in S : i # j /\ f[i] = f[j]
    BY <2>6, FS_PigeonHole
  <2> QED BY <1>5, <2>7 DEF f, S
<1> QED BY <1>1, <1>3, <1>4, <1>6, <1>7, <1>8, <1>9 DEF m

Place == [p \in Prototypes(chunk) |-> PlaceOf(p)]

(* The closure instructions of an accepted chunk form an acyclic graph.    *)
LEMMA ChunkIsGraph ==
  ASSUME SearchInvariant, result = "accepted"
  PROVE  /\ IsGraph(EdgeCounts(chunk), OnlyMain(chunk), chunk.count)
         /\ IsRanked(EdgeCounts(chunk), Place, chunk.count)
<1> DEFINE n == chunk.count
<1>1. IsChunk(chunk)
  BY DEF SearchInvariant, TypeOK
<1>2. n \in Nat /\ Prototypes(chunk) = 0 .. n - 1
  BY <1>1, ChunkFacts
<1>3. ASSUME NEW f \in Prototypes(chunk), NEW g \in Prototypes(chunk)
      PROVE  /\ EdgeCounts(chunk)[f][g] = Edges(chunk, f, g)
             /\ Edges(chunk, f, g) \in Nat
             /\ Edges(chunk, f, g) # 0 => PlaceOf(f) < PlaceOf(g)
  <2>1. Len(Code(f)) \in Nat
    BY <1>1, ChunkFacts DEF Code
  <2>2. Edges(chunk, f, g) \in Nat /\ (Edges(chunk, f, g) # 0 => ClosuresOf(chunk, f, g) # {})
    BY <2>1, EdgesFacts
  <2>3. Edges(chunk, f, g) # 0 => g \in Named(chunk, f)
    BY <1>1, <2>2, EdgeIsNamed
  <2> QED BY <2>2, <2>3, OrderFacts DEF EdgeCounts
<1>4. \A p \in Prototypes(chunk) : OnlyMain(chunk)[p] \in Nat
  BY DEF OnlyMain
<1>5. \A p \in Prototypes(chunk) : Place[p] \in 1 .. n /\ Place[p] = PlaceOf(p)
  <2> SUFFICES ASSUME NEW p \in Prototypes(chunk) PROVE PlaceOf(p) \in 1 .. n
    BY DEF Place
  <2>1. PlaceOf(p) \in 1 .. Len(postorder) /\ Len(postorder) <= n /\ Len(postorder) \in Nat
    BY OrderFacts
  <2> QED BY <1>2, <2>1
<1> QED BY <1>2, <1>3, <1>4, <1>5 DEF IsGraph, IsRanked

(* The instantiations are 1 for main, and for each closure instruction     *)
(* those of the prototype it is in.                                        *)
LEMMA InstantiationsFacts ==
  ASSUME SearchInvariant, result = "accepted"
  PROVE  /\ FollowsEdges(Instantiations(chunk), EdgeCounts(chunk), chunk.main, chunk.count)
         /\ \A p \in Prototypes(chunk) : Instantiations(chunk)[p] \in Nat
         /\ Instantiations(chunk) = [p \in Prototypes(chunk) |-> Instantiations(chunk)[p]]
<1> DEFINE n == chunk.count
<1>1. n \in Nat /\ Prototypes(chunk) = 0 .. n - 1
  BY ChunkFacts DEF SearchInvariant, TypeOK
<1>2. /\ IsGraph(EdgeCounts(chunk), OnlyMain(chunk), n)
      /\ IsRanked(EdgeCounts(chunk), Place, n)
  BY ChunkIsGraph
<1>3. Instantiations(chunk) = AllWalks(EdgeCounts(chunk), OnlyMain(chunk), n)
  BY DEF Instantiations
<1>4. \A q \in 0 .. n - 1 :
         /\ Instantiations(chunk)[q] \in Nat
         /\ Instantiations(chunk)[q] =
               OnlyMain(chunk)[q] + Total(Entering(EdgeCounts(chunk), Instantiations(chunk), q, n), n)
  BY <1>2, <1>3, AllWalksEquation
<1>5. \A q \in 0 .. n - 1 : OnlyMain(chunk)[q] = IF q = chunk.main THEN 1 ELSE 0
  BY <1>1 DEF OnlyMain
<1>6. FollowsEdges(Instantiations(chunk), EdgeCounts(chunk), chunk.main, n)
  BY <1>4, <1>5 DEF FollowsEdges
<1>7. Instantiations(chunk) = [p \in Prototypes(chunk) |-> Instantiations(chunk)[p]]
  BY <1>1 DEF Instantiations, AllWalks
<1> QED BY <1>1, <1>4, <1>6, <1>7

-----------------------------------------------------------------------------
(* While the search runs, the walk has not begun.                          *)
LEMMA SearchKeepsExpansion ==
  ASSUME ExpansionInvariant, Next, UNCHANGED expansionVars
  PROVE  ExpansionInvariant'
<1>1. result = "running" /\ chunk' = chunk
  BY DEF Next, SkipRoot, StartRoot, Accept, Visit, Descend, PassFinished, RejectCycle, RejectMissing,
         Finish, HasChild
<1>2. /\ budget' = budget /\ position' = position /\ cursor' = cursor /\ occurrences' = occurrences
      /\ depths' = depths /\ instances' = instances /\ instructions' = instructions /\ plan' = plan
  BY DEF expansionVars
<1>3. plan = "idle" /\ position = 0 /\ cursor = 0 /\ instances = 0 /\ instructions = 0
  BY <1>1 DEF ExpansionInvariant, WalkIsInOrder
<1>4. SearchInvariant' /\ TypeOK'
  <2>1. [Next]_graphVars
    OBVIOUS
  <2> QED BY <2>1, SearchStep DEF ExpansionInvariant, SearchInvariant
<1>5. Len(postorder') \in Nat
  BY <1>4, LenProperties DEF TypeOK
<1>6. ExpansionTypeOK'
  BY <1>1, <1>2, <1>3, <1>4, <1>5 DEF ExpansionInvariant, ExpansionTypeOK
<1>7. WalkIsInOrder'
  BY <1>1, <1>2, <1>3 DEF ExpansionInvariant, WalkIsInOrder, Scanning
<1>8. ClosuresAreCounted' /\ UseStartsAtMain' /\ PassedIsCovered' /\ CountsAreReal'
  BY <1>2, <1>3 DEF ClosuresAreCounted, UseStartsAtMain, PassedIsCovered, CountsAreReal
<1>9. InstancesAreCharged'
  BY <1>2, <1>3 DEF InstancesAreCharged, ExpansionInvariant
<1> QED BY <1>4, <1>6, <1>7, <1>8, <1>9 DEF ExpansionInvariant

(* What the walk does not change.                                          *)
LEMMA SameGraph ==
  ASSUME UNCHANGED graphVars
  PROVE  /\ chunk' = chunk /\ postorder' = postorder /\ result' = result
         /\ PrototypeOrder' = PrototypeOrder
         /\ Prototypes(chunk)' = Prototypes(chunk)
         /\ \A f : Code(f)' = Code(f)
         /\ \A f : PlaceOf(f)' = PlaceOf(f)
         /\ \A f, g, k : EdgesPassed(f, g, k)' = EdgesPassed(f, g, k)
         /\ SearchInvariant => SearchInvariant'
<1>1. /\ chunk' = chunk /\ postorder' = postorder /\ result' = result
  BY DEF graphVars
<1>2. PrototypeOrder' = PrototypeOrder
  BY <1>1 DEF PrototypeOrder
<1>3. \A f : Code(f)' = Code(f)
  BY <1>1 DEF Code
<1>4. \A f : PlaceOf(f)' = PlaceOf(f)
  BY <1>1, <1>2 DEF PlaceOf
<1>5. \A f, g, k : EdgesPassed(f, g, k)' = EdgesPassed(f, g, k)
  BY <1>1 DEF EdgesPassed
<1>6. SearchInvariant => SearchInvariant'
  BY SearchStep
<1> QED BY <1>1, <1>2, <1>3, <1>4, <1>5, <1>6

(* What is known of the walk once it has begun.                            *)
LEMMA WalkFacts ==
  ASSUME ExpansionInvariant, plan # "idle"
  PROVE  /\ IsChunk(chunk) /\ SearchInvariant /\ result = "accepted"
         /\ chunk.count \in Nat \ {0} /\ Prototypes(chunk) = 0 .. chunk.count - 1
         /\ chunk.main \in Prototypes(chunk)
         /\ \A f \in Prototypes(chunk) :
               /\ Code(f) \in Seq(Instruction) /\ Len(Code(f)) \in Nat
               /\ occurrences[f] \in Nat /\ occurrences[f] <= MaxUsize /\ depths[f] \in Nat
               /\ PassedOf(f) \in 0 .. Len(Code(f))
               /\ \A g : EdgesPassed(f, g, PassedOf(f)) \in 0 .. Len(Code(f))
         /\ position \in 0 .. Len(PrototypeOrder) /\ Len(PrototypeOrder) \in Nat
         /\ Len(PrototypeOrder) = Len(postorder)
         /\ position > 0 => /\ Current \in Prototypes(chunk) /\ PlaceOf(Current) = position
                            /\ cursor \in 0 .. Len(Code(Current))
         /\ position = 0 => cursor = 0
         /\ position < Len(PrototypeOrder) => /\ NextPrototype \in Prototypes(chunk)
                                              /\ PlaceOf(NextPrototype) = position + 1
         /\ MaxUsize \in Nat /\ budget \in Nat /\ budget <= MaxUsize
<1>1. IsChunk(chunk) /\ SearchInvariant /\ result = "accepted"
  BY DEF ExpansionInvariant, SearchInvariant, TypeOK, WalkIsInOrder
<1>2. /\ chunk.count \in Nat \ {0} /\ Prototypes(chunk) = 0 .. chunk.count - 1
      /\ chunk.main \in Prototypes(chunk)
      /\ \A f \in Prototypes(chunk) : Code(f) \in Seq(Instruction) /\ Len(Code(f)) \in Nat
  BY <1>1, ChunkFacts DEF Code
<1>3. /\ Len(postorder) \in Nat /\ Len(PrototypeOrder) = Len(postorder)
      /\ \A i \in 1 .. Len(postorder) :
            PrototypeOrder[i] \in Prototypes(chunk) /\ PlaceOf(PrototypeOrder[i]) = i
      /\ \A p \in Prototypes(chunk) :
            PlaceOf(p) \in 1 .. Len(postorder) /\ PrototypeOrder[PlaceOf(p)] = p
  BY <1>1, OrderFacts
<1>4. position \in 0 .. Len(postorder)
  BY DEF ExpansionInvariant, ExpansionTypeOK
<1>5. ASSUME position > 0
      PROVE  /\ Current \in Prototypes(chunk) /\ PlaceOf(Current) = position
             /\ cursor \in 0 .. Len(Code(Current))
  <2>1. Current \in Prototypes(chunk) /\ PlaceOf(Current) = position
    BY <1>3, <1>4, <1>5 DEF Current
  <2>2. cursor \in Nat /\ cursor <= Len(Code(Current)) /\ Len(Code(Current)) \in Nat
    BY <1>2, <1>4, <1>5, <2>1 DEF ExpansionInvariant, ExpansionTypeOK, WalkIsInOrder
  <2> QED BY <2>1, <2>2
<1>6. ASSUME position < Len(PrototypeOrder)
      PROVE  NextPrototype \in Prototypes(chunk) /\ PlaceOf(NextPrototype) = position + 1
  <2>1. position + 1 \in 1 .. Len(postorder)
    BY <1>3, <1>4, <1>6
  <2> QED BY <1>3, <2>1 DEF NextPrototype
<1>7. ASSUME NEW f \in Prototypes(chunk)
      PROVE  /\ PassedOf(f) \in 0 .. Len(Code(f))
             /\ \A g : EdgesPassed(f, g, PassedOf(f)) \in 0 .. Len(Code(f))
  <2>1. Len(Code(f)) \in Nat
    BY <1>2
  <2>2. PlaceOf(f) = position => f = Current /\ position > 0
    BY <1>3, <1>4 DEF Current
  <2>3. PassedOf(f) \in 0 .. Len(Code(f))
    BY <1>5, <2>1, <2>2 DEF PassedOf
  <2>4. \A g : EdgesPassed(f, g, PassedOf(f)) \in 0 .. PassedOf(f)
    BY <2>1, <2>3, EdgesFacts
  <2> QED BY <2>1, <2>3, <2>4
<1>8. \A f \in Prototypes(chunk) :
         occurrences[f] \in Nat /\ occurrences[f] <= MaxUsize /\ depths[f] \in Nat
  BY BoundsAssumption DEF ExpansionInvariant, ExpansionTypeOK
<1>9. MaxUsize \in Nat /\ budget \in Nat /\ budget <= MaxUsize
  BY BoundsAssumption DEF ExpansionInvariant, ExpansionTypeOK
<1>10. position = 0 => cursor = 0
  BY DEF ExpansionInvariant, WalkIsInOrder
<1> QED BY <1>1, <1>2, <1>3, <1>4, <1>5, <1>6, <1>7, <1>8, <1>9, <1>10

(* Between two prototypes, the code of those taken so far is passed.       *)
LEMMA BetweenFacts ==
  ASSUME ExpansionInvariant, BetweenPrototypes
  PROVE  \A f \in Prototypes(chunk) :
            PassedOf(f) = IF PlaceOf(f) <= position THEN Len(Code(f)) ELSE 0
<1> SUFFICES ASSUME NEW f \in Prototypes(chunk)
             PROVE  PassedOf(f) = IF PlaceOf(f) <= position THEN Len(Code(f)) ELSE 0
  OBVIOUS
<1>1. plan = "running"
  BY DEF BetweenPrototypes
<1>2. /\ PlaceOf(f) \in 1 .. Len(postorder) /\ PrototypeOrder[PlaceOf(f)] = f
      /\ position \in Nat /\ Len(postorder) \in Nat
  <2>1. SearchInvariant /\ result = "accepted" /\ position \in 0 .. Len(postorder)
    BY <1>1, WalkFacts
  <2> QED BY <2>1, OrderFacts
<1>3. CASE PlaceOf(f) = position
  <2>1. Current = f /\ position > 0
    BY <1>2, <1>3 DEF Current
  <2> QED BY <1>2, <1>3, <2>1 DEF BetweenPrototypes, PassedOf
<1>4. CASE PlaceOf(f) # position
  BY <1>2, <1>4 DEF PassedOf
<1> QED BY <1>3, <1>4

(* A step that passes no closure of a prototype that is used.              *)
PassesNoClosure ==
    \A f \in Prototypes(chunk) : occurrences[f] # 0 =>
        \A g : EdgesPassed(f, g, PassedOf(f)') = EdgesPassed(f, g, PassedOf(f))

(* Such a step that leaves the occurrences and depths alone.               *)
LEMMA UncountedStep ==
  ASSUME ExpansionInvariant, UNCHANGED graphVars, occurrences' = occurrences, depths' = depths,
         plan = "running", plan' # "idle", plan' # "too_deep",
         PassesNoClosure
  PROVE  ClosuresAreCounted' /\ UseStartsAtMain' /\ CountsAreReal'
<1>1. /\ chunk' = chunk /\ Prototypes(chunk)' = Prototypes(chunk)
      /\ occurrences' = occurrences /\ depths' = depths /\ plan # "idle" /\ plan' # "idle"
      /\ \A f : PlaceOf(f)' = PlaceOf(f)
  BY SameGraph
<1>2. ClosuresAreCounted'
  <2>1. ASSUME NEW p \in Prototypes(chunk)
        PROVE  Total(CountedInto(p)', chunk.count) = Total(CountedInto(p), chunk.count)
    <3>2. ASSUME NEW f \in Prototypes(chunk)
          PROVE  CountedInto(p)[f] \in Int /\ CountedInto(p)[f] = CountedInto(p)'[f]
      <4> DEFINE passed == PassedOf(f)
      <4>0. PICK later : later = PassedOf(f)'
        OBVIOUS
      <4>1. /\ CountedInto(p)[f] = occurrences[f] * EdgesPassed(f, p, passed)
            /\ CountedInto(p)'[f] = occurrences[f] * EdgesPassed(f, p, passed)'
        BY <1>1 DEF CountedInto
      <4>2. EdgesPassed(f, p, passed)' = EdgesPassed(f, p, later)
        BY <1>1, <4>0 DEF EdgesPassed
      <4>3. occurrences[f] \in Nat /\ EdgesPassed(f, p, passed) \in Nat
        <5>1. /\ occurrences[f] \in Nat /\ EdgesPassed(f, p, passed) \in 0 .. Len(Code(f))
              /\ Len(Code(f)) \in Nat
          BY <1>1, WalkFacts
        <5> QED BY <5>1
      <4>4. occurrences[f] # 0 => EdgesPassed(f, p, later) = EdgesPassed(f, p, passed)
        BY <4>0 DEF PassesNoClosure
      <4>5. CASE occurrences[f] # 0
        <5> HIDE DEF passed
        <5>1. \A a, b \in Nat : a * b \in Int
          OBVIOUS
        <5> QED BY <4>1, <4>2, <4>3, <4>4, <4>5, <5>1
      <4>6. CASE occurrences[f] = 0
        <5>1. Cardinality({i \in ClosuresOf(chunk, f, p) : i <= later}) \in Nat
          <6>1. ClosuresOf(chunk, f, p) \subseteq 1 .. Len(Code(f)) /\ Len(Code(f)) \in Nat
            BY <1>1, WalkFacts DEF ClosuresOf, Code
          <6>2. IsFiniteSet(1 .. Len(Code(f)))
            <7>1. 1 \in Int /\ Len(Code(f)) \in Int
              BY <6>1
            <7> QED BY <7>1, FS_Interval
          <6> DEFINE S == {i \in ClosuresOf(chunk, f, p) : i <= later}
          <6>3. S \subseteq 1 .. Len(Code(f))
            BY <6>1
          <6> HIDE DEF S
          <6>4. Cardinality(S) \in Nat
            BY <6>2, <6>3, FS_Subset, FS_CardinalityType
          <6> QED BY <6>4 DEF S
        <5>2. EdgesPassed(f, p, later) \in Nat
          BY <5>1 DEF EdgesPassed
        <5> HIDE DEF passed
        <5>3. \A b \in Nat : 0 * b = 0
          OBVIOUS
        <5> QED BY <4>1, <4>2, <4>3, <4>6, <5>2, <5>3
      <4> QED BY <4>5, <4>6
    <3>3. chunk.count \in Nat /\ Prototypes(chunk) = 0 .. chunk.count - 1
      BY <1>1, WalkFacts
    <3> QED BY <3>2, <3>3, TotalEqual
  <2> QED BY <1>1, <2>1 DEF ExpansionInvariant, ClosuresAreCounted
<1>3. UseStartsAtMain'
  BY <1>1 DEF ExpansionInvariant, UseStartsAtMain
<1>4. CountsAreReal'
  BY <1>1 DEF ExpansionInvariant, CountsAreReal
<1> QED BY <1>2, <1>3, <1>4

-----------------------------------------------------------------------------
(* The walk begins with one instance of main.                              *)
LEMMA PlanStep ==
  ASSUME ExpansionInvariant, Plan, UNCHANGED graphVars
  PROVE  ExpansionInvariant'
<1> DEFINE P == Prototypes(chunk)
           n == chunk.count
           m == chunk.main
<1>1. /\ chunk' = chunk /\ postorder' = postorder /\ result' = result
      /\ PrototypeOrder' = PrototypeOrder /\ P' = P /\ SearchInvariant'
      /\ \A f : PlaceOf(f)' = PlaceOf(f) /\ Code(f)' = Code(f)
  BY SameGraph DEF ExpansionInvariant
<1>2. IsChunk(chunk) /\ SearchInvariant /\ result = "accepted"
  BY DEF ExpansionInvariant, SearchInvariant, TypeOK, Plan
<1>3. /\ n \in Nat /\ n >= 1 /\ P = 0 .. n - 1 /\ m \in P
      /\ \A f \in P : Code(f) \in Seq(Instruction) /\ Len(Code(f)) \in Nat
  BY <1>2, ChunkFacts DEF Code
<1>4. /\ position' = 0 /\ cursor' = 0 /\ instances' = 0 /\ instructions' = 0 /\ budget' = budget
      /\ plan' = "running" /\ position = 0 /\ cursor = 0 /\ plan = "idle"
      /\ \A p \in P : occurrences[p] = 0 /\ depths[p] = 0
      /\ occurrences \in [P -> 0 .. MaxUsize] /\ depths \in [P -> 0 .. MaxDepth + 1]
      /\ budget \in Budgets
  BY DEF Plan, ExpansionInvariant, ExpansionTypeOK, WalkIsInOrder
<1>5. MaxUsize \in Nat /\ MaxDepth \in Nat /\ MaxDepth >= 1 /\ MaxUsize >= 1 /\ budget \in Nat
  BY <1>4, BoundsAssumption
<1>6. /\ occurrences' \in [P -> 0 .. MaxUsize] /\ depths' \in [P -> 0 .. MaxDepth + 1]
      /\ \A p \in P : /\ occurrences'[p] = (IF p = m THEN 1 ELSE 0)
                      /\ depths'[p] = (IF p = m THEN 1 ELSE 0)
  <2>1. /\ occurrences' = [occurrences EXCEPT ![m] = 1]
        /\ depths' = [depths EXCEPT ![m] = 1]
    BY DEF Plan
  <2>2. 1 \in 0 .. MaxUsize /\ 1 \in 0 .. MaxDepth + 1
    BY <1>5
  <2> QED BY <1>3, <1>4, <2>1, <2>2
<1>7. \A f \in P : PlaceOf(f) \in Nat /\ PlaceOf(f) >= 1
  BY <1>2, OrderFacts
<1>8. \A f \in P : PassedOf(f)' = 0
  BY <1>1, <1>4, <1>7 DEF PassedOf
<1> HIDE DEF P, n, m
<1>9. ExpansionTypeOK'
  <2>1. TypeOK' /\ Len(postorder') \in Nat
    BY <1>1, LenProperties DEF SearchInvariant, TypeOK
  <2>2. Prototypes(chunk)' = P
    BY <1>1 DEF P
  <2> QED BY <1>4, <1>5, <1>6, <2>1, <2>2 DEF ExpansionTypeOK, Plans
<1>10. WalkIsInOrder'
  BY <1>1, <1>2, <1>4 DEF WalkIsInOrder, Scanning
<1>11. ClosuresAreCounted'
  <2> SUFFICES ASSUME NEW p \in P
               PROVE  occurrences'[p] = (IF p = m THEN 1 ELSE 0) + Total(CountedInto(p)', n)
    BY <1>1 DEF ClosuresAreCounted, P, m, n
  <2>1. ASSUME NEW f \in P PROVE CountedInto(p)'[f] = 0
    <3>1. CountedInto(p)'[f] = occurrences'[f] * EdgesPassed(f, p, PassedOf(f))'
      BY <1>1 DEF CountedInto, P
    <3>2. EdgesPassed(f, p, PassedOf(f))' = EdgesPassed(f, p, 0)
      BY <1>1, <1>8 DEF EdgesPassed
    <3>3. EdgesPassed(f, p, 0) = 0
      <4>1. 0 \in 0 .. Len(Code(f)) /\ Len(Code(f)) \in Nat
        BY <1>3
      <4>2. EdgesPassed(f, p, 0) \in 0 .. 0
        BY <4>1, EdgesFacts
      <4> QED BY <4>2
    <3>4. occurrences'[f] \in Nat
      BY <1>6
    <3>5. \A a \in Nat : a * 0 = 0
      OBVIOUS
    <3> QED BY <3>1, <3>2, <3>3, <3>4, <3>5
  <2>2. Total(CountedInto(p)', n) = 0
    BY <1>3, <2>1, TotalOfZeros
  <2> QED BY <1>6, <2>2
<1>12. InstancesAreCharged'
  <2>1. \A f \in P : ChargedInstances'[f] = 0 /\ ChargedInstructions'[f] = 0
    BY <1>1, <1>4, <1>7 DEF ChargedInstances, ChargedInstructions, P
  <2>2. Total(ChargedInstances', n) = 0 /\ Total(ChargedInstructions', n) = 0
    BY <1>3, <2>1, TotalOfZeros
  <2> QED BY <1>1, <1>4, <1>5, <2>2 DEF InstancesAreCharged, n
<1>13. UseStartsAtMain'
  <2>1. \A p \in P : occurrences'[p] > 0 => p = m
    BY <1>6
  <2> QED BY <1>1, <1>3, <1>7, <2>1 DEF UseStartsAtMain, P, m
<1>14. PassedIsCovered'
  <2>1. \A f \in P : \A i \in 1 .. Len(Code(f)) : ~ (i <= PassedOf(f)')
    BY <1>3, <1>8
  <2> QED BY <1>1, <2>1 DEF PassedIsCovered, P
<1>15. CountsAreReal'
  <2>1. /\ Instantiations(chunk)[m] >= 1
        /\ \A p \in P : Instantiations(chunk)[p] \in Nat
    <3>1. /\ FollowsEdges(Instantiations(chunk), EdgeCounts(chunk), m, n)
          /\ \A p \in P : Instantiations(chunk)[p] \in Nat
      BY <1>2, InstantiationsFacts DEF P, m, n
    <3> DEFINE counts == Instantiations(chunk)
               into == Entering(EdgeCounts(chunk), counts, m, n)
    <3>2. counts[m] = 1 + Total(into, n)
      BY <1>3, <3>1 DEF FollowsEdges
    <3>3. IsGraph(EdgeCounts(chunk), OnlyMain(chunk), n)
      BY <1>2, ChunkIsGraph DEF n
    <3>4. \A q \in 0 .. n - 1 : into[q] \in Nat
      <4> SUFFICES ASSUME NEW q \in 0 .. n - 1 PROVE into[q] \in Nat
        OBVIOUS
      <4>1. counts[q] \in Nat /\ EdgeCounts(chunk)[q][m] \in Nat
        BY <1>3, <3>1, <3>3 DEF IsGraph
      <4>2. into[q] = counts[q] * EdgeCounts(chunk)[q][m]
        BY DEF Entering
      <4> HIDE DEF counts, into
      <4>3. \A a, b \in Nat : a * b \in Nat
        OBVIOUS
      <4> QED BY <4>1, <4>2, <4>3
    <3> HIDE DEF into
    <3>5. Total(into, n) \in Nat
      BY <1>3, <3>4, TotalOfNaturals
    <3> QED BY <3>1, <3>2, <3>5
  <2>2. PathCounts(chunk)[0][m] = 1
    <3>1. PathCounts(chunk)[0] = OnlyMain(chunk)
      BY <1>2, ChunkIsGraph, WalksFacts DEF PathCounts
    <3> QED BY <1>3, <3>1 DEF OnlyMain, P, m
  <2>3. \A p \in P : /\ occurrences'[p] <= Instantiations(chunk)[p]
                     /\ occurrences'[p] > 0 => depths'[p] > 0
                     /\ depths'[p] > 0 => /\ depths'[p] <= n
                                          /\ PathCounts(chunk)[depths'[p] - 1][p] > 0
                     /\ ~ (depths'[p] > MaxDepth)
    <3> SUFFICES ASSUME NEW p \in P
                 PROVE  /\ occurrences'[p] <= Instantiations(chunk)[p]
                        /\ occurrences'[p] > 0 => depths'[p] > 0
                        /\ depths'[p] > 0 => /\ depths'[p] <= n
                                             /\ PathCounts(chunk)[depths'[p] - 1][p] > 0
                        /\ ~ (depths'[p] > MaxDepth)
      OBVIOUS
    <3>1. CASE p = m
      <4>1. occurrences'[p] = 1 /\ depths'[p] = 1 /\ depths'[p] - 1 = 0
        BY <1>6, <3>1
      <4> QED BY <1>3, <1>5, <2>1, <2>2, <3>1, <4>1
    <3>2. CASE p # m
      <4>1. occurrences'[p] = 0 /\ depths'[p] = 0
        BY <1>6, <3>2
      <4> QED BY <1>3, <1>5, <2>1, <4>1
    <3> QED BY <3>1, <3>2
  <2> QED BY <1>1, <1>4, <2>3 DEF CountsAreReal, P, n
<1> QED BY <1>1, <1>9, <1>10, <1>11, <1>12, <1>13, <1>14, <1>15 DEF ExpansionInvariant

(* A prototype that is not used is passed over.                            *)
LEMMA SkipUnusedStep ==
  ASSUME ExpansionInvariant, SkipUnused, UNCHANGED graphVars
  PROVE  ExpansionInvariant'
<1> DEFINE P == Prototypes(chunk)
           n == chunk.count
           next == NextPrototype
<1>1. /\ chunk' = chunk /\ postorder' = postorder /\ result' = result
      /\ PrototypeOrder' = PrototypeOrder /\ P' = P /\ SearchInvariant'
      /\ \A f : PlaceOf(f)' = PlaceOf(f) /\ Code(f)' = Code(f)
  BY SameGraph DEF ExpansionInvariant
<1>2. /\ plan = "running" /\ plan' = plan /\ budget' = budget /\ position' = position + 1
      /\ cursor' = Len(Code(next)) /\ occurrences' = occurrences /\ depths' = depths
      /\ instances' = instances /\ instructions' = instructions
      /\ position < Len(PrototypeOrder) /\ occurrences[next] = 0
  BY DEF SkipUnused, BetweenPrototypes
<1>3. /\ n \in Nat /\ P = 0 .. n - 1 /\ result = "accepted" /\ SearchInvariant
      /\ position \in Nat /\ position + 1 \in 0 .. Len(postorder)
      /\ next \in P /\ PlaceOf(next) = position + 1
      /\ \A f \in P : /\ Len(Code(f)) \in Nat /\ occurrences[f] \in Nat
  <2>1. /\ n \in Nat \ {0} /\ P = 0 .. n - 1 /\ result = "accepted" /\ SearchInvariant
        /\ position \in 0 .. Len(PrototypeOrder) /\ Len(PrototypeOrder) \in Nat
        /\ Len(PrototypeOrder) = Len(postorder)
        /\ next \in P /\ PlaceOf(next) = position + 1
    BY <1>2, WalkFacts
  <2>2. \A f \in P : /\ Len(Code(f)) \in Nat /\ occurrences[f] \in Nat
    BY <1>2, WalkFacts
  <2>3. position \in Nat /\ position + 1 \in 0 .. Len(postorder)
    BY <1>2, <2>1
  <2> QED BY <2>1, <2>2, <2>3
<1>4. \A f \in P : PlaceOf(f) \in Nat /\ (PlaceOf(f) = position + 1 => f = next)
  BY <1>3, OrderFacts DEF NextPrototype
<1>5. \A f \in P : PassedOf(f) = IF PlaceOf(f) <= position THEN Len(Code(f)) ELSE 0
  BY BetweenFacts DEF SkipUnused
<1>6. \A f \in P : PassedOf(f)' = IF PlaceOf(f) <= position + 1 THEN Len(Code(f)) ELSE 0
  BY <1>1, <1>2, <1>3, <1>4 DEF PassedOf
<1>7. \A f \in P : occurrences[f] # 0 => PassedOf(f)' = PassedOf(f)
  <2> SUFFICES ASSUME NEW f \in P, occurrences[f] # 0
               PROVE  PassedOf(f)' = PassedOf(f)
    OBVIOUS
  <2>1. PlaceOf(f) # position + 1 /\ PlaceOf(f) \in Nat
    BY <1>2, <1>4
  <2>2. PlaceOf(f) <= position + 1 <=> PlaceOf(f) <= position
    BY <1>3, <2>1
  <2> QED BY <1>5, <1>6, <2>2
<1>8. ClosuresAreCounted' /\ UseStartsAtMain' /\ CountsAreReal'
  <2>1. PassesNoClosure
    BY <1>7 DEF PassesNoClosure
  <2> QED BY <1>2, <2>1, UncountedStep
<1> HIDE DEF P, n, next
<1>9. ExpansionTypeOK'
  <2>1. TypeOK'
    BY <1>1 DEF SearchInvariant
  <2>2. Prototypes(chunk)' = Prototypes(chunk)
    BY SameGraph
  <2>3. cursor' \in Nat
    BY <1>2, <1>3
  <2> QED BY <1>1, <1>2, <1>3, <2>1, <2>2, <2>3 DEF ExpansionInvariant, ExpansionTypeOK
<1>10. WalkIsInOrder'
  <2>1. Current' = next
    BY <1>1, <1>2 DEF Current, NextPrototype, next
  <2>2. cursor' = Len(Code(Current))' /\ ~ (cursor < Len(Code(Current)))'
    <3>1. Len(Code(Current))' = Len(Code(next))
      BY <1>1, <2>1 DEF Code
    <3> QED BY <1>2, <1>3, <3>1
  <2> QED BY <1>1, <1>2, <1>3, <2>2 DEF WalkIsInOrder, Scanning
<1>11. InstancesAreCharged'
  <2>1. ASSUME NEW f \in P
        PROVE  /\ ChargedInstances[f] \in Int /\ ChargedInstances[f] = ChargedInstances'[f]
               /\ ChargedInstructions[f] \in Int /\ ChargedInstructions[f] = ChargedInstructions'[f]
    <3>1. /\ ChargedInstances[f] = (IF PlaceOf(f) <= position THEN occurrences[f] ELSE 0)
          /\ ChargedInstances'[f] = (IF PlaceOf(f) <= position + 1 THEN occurrences[f] ELSE 0)
          /\ ChargedInstructions[f] =
                (IF PlaceOf(f) <= position THEN Len(Code(f)) * occurrences[f] ELSE 0)
          /\ ChargedInstructions'[f] =
                (IF PlaceOf(f) <= position + 1 THEN Len(Code(f)) * occurrences[f] ELSE 0)
      BY <1>1, <1>2 DEF ChargedInstances, ChargedInstructions, Expanded, P
    <3>2. Len(Code(f)) \in Nat /\ occurrences[f] \in Nat /\ PlaceOf(f) \in Nat
      BY <1>3, <1>4
    <3>3. \A a, b \in Nat : a * b \in Int /\ (b = 0 => a * b = 0)
      OBVIOUS
    <3>4. PlaceOf(f) = position + 1 => occurrences[f] = 0
      BY <1>2, <1>4
    <3>5. PlaceOf(f) # position + 1 => (PlaceOf(f) <= position + 1 <=> PlaceOf(f) <= position)
      BY <1>3, <3>2
    <3> QED BY <3>1, <3>2, <3>3, <3>4, <3>5
  <2>2. /\ Total(ChargedInstances, n) = Total(ChargedInstances', n)
        /\ Total(ChargedInstructions, n) = Total(ChargedInstructions', n)
    BY <1>3, <2>1, TotalEqual
  <2> QED BY <1>1, <1>2, <2>2 DEF ExpansionInvariant, InstancesAreCharged, n
<1>12. PassedIsCovered'
  <2>1. \A f \in P : occurrences[f] > 0 => occurrences[f] # 0
    BY <1>3
  <2> QED BY <1>1, <1>2, <1>7, <2>1 DEF ExpansionInvariant, PassedIsCovered, P
<1> QED BY <1>1, <1>8, <1>9, <1>10, <1>11, <1>12 DEF ExpansionInvariant

(* The next prototype is charged for all its instances; its code is then   *)
(* still to be passed.                                                     *)
LEMMA ChargeStep ==
  ASSUME ExpansionInvariant, Charge, UNCHANGED graphVars
  PROVE  ExpansionInvariant'
<1> DEFINE P == Prototypes(chunk)
           n == chunk.count
           next == NextPrototype
<1>1. /\ chunk' = chunk /\ postorder' = postorder /\ result' = result
      /\ PrototypeOrder' = PrototypeOrder /\ P' = P /\ SearchInvariant'
      /\ \A f : PlaceOf(f)' = PlaceOf(f) /\ Code(f)' = Code(f)
  BY SameGraph DEF ExpansionInvariant
<1>2. /\ plan = "running" /\ budget' = budget /\ position' = position + 1
      /\ cursor' = 0 /\ occurrences' = occurrences /\ depths' = depths
      /\ instances' = instances + occurrences[next]
      /\ instructions' = instructions + Expanded(next)
      /\ position < Len(PrototypeOrder) /\ occurrences[next] # 0
      /\ plan' = IF instances' > MaxUsize \/ instructions' > MaxUsize THEN "overflow"
                 ELSE IF instances' > budget \/ instructions' > budget THEN "over_budget"
                 ELSE "running"
  BY DEF Charge, BetweenPrototypes
<1>3. /\ n \in Nat /\ P = 0 .. n - 1 /\ result = "accepted" /\ SearchInvariant
      /\ position \in Nat /\ position + 1 \in 0 .. Len(postorder)
      /\ next \in P /\ PlaceOf(next) = position + 1
      /\ \A f \in P : /\ Len(Code(f)) \in Nat /\ occurrences[f] \in Nat
  <2>1. /\ n \in Nat \ {0} /\ P = 0 .. n - 1 /\ result = "accepted" /\ SearchInvariant
        /\ position \in 0 .. Len(PrototypeOrder) /\ Len(PrototypeOrder) \in Nat
        /\ Len(PrototypeOrder) = Len(postorder)
        /\ next \in P /\ PlaceOf(next) = position + 1
    BY <1>2, WalkFacts
  <2>2. \A f \in P : /\ Len(Code(f)) \in Nat /\ occurrences[f] \in Nat
    BY <1>2, WalkFacts
  <2>3. position \in Nat /\ position + 1 \in 0 .. Len(postorder)
    BY <1>2, <2>1
  <2> QED BY <2>1, <2>2, <2>3
<1>4. \A f \in P : PlaceOf(f) \in Nat /\ (PlaceOf(f) = position + 1 => f = next)
  BY <1>3, OrderFacts DEF NextPrototype
<1>5. \A f \in P : PassedOf(f) = IF PlaceOf(f) <= position THEN Len(Code(f)) ELSE 0
  BY BetweenFacts DEF Charge
<1>6. \A f \in P : PassedOf(f)' = PassedOf(f)
  <2> SUFFICES ASSUME NEW f \in P PROVE PassedOf(f)' = PassedOf(f)
    OBVIOUS
  <2>1. PassedOf(f)' = IF PlaceOf(f) < position + 1 THEN Len(Code(f)) ELSE 0
    BY <1>1, <1>2, <1>3, <1>4 DEF PassedOf
  <2>2. PlaceOf(f) \in Nat /\ position \in Nat
    BY <1>3, <1>4
  <2> QED BY <1>5, <2>1, <2>2
<1>7. budget \in Nat /\ budget <= MaxUsize /\ MaxUsize \in Nat
  BY <1>2, WalkFacts
<1>8. ClosuresAreCounted' /\ UseStartsAtMain' /\ CountsAreReal'
  <2>1. PassesNoClosure
    BY <1>6 DEF PassesNoClosure
  <2>2. plan' # "idle" /\ plan' # "too_deep"
    BY <1>2
  <2> QED BY <1>2, <2>1, <2>2, UncountedStep
<1> HIDE DEF P, n, next
<1>9. /\ instances \in Nat /\ instructions \in Nat
      /\ Expanded(next) = Len(Code(next)) * occurrences[next]
      /\ Expanded(next) \in Nat /\ occurrences[next] \in Nat
  <2>1. instances \in Nat /\ instructions \in Nat
    BY DEF ExpansionInvariant, ExpansionTypeOK
  <2>2. \A a, b \in Nat : a * b \in Nat
    OBVIOUS
  <2> QED BY <1>3, <2>1, <2>2 DEF Expanded
<1>10. ExpansionTypeOK'
  <2>1. TypeOK'
    BY <1>1 DEF SearchInvariant
  <2>2. Prototypes(chunk)' = Prototypes(chunk)
    BY SameGraph
  <2>3. cursor' \in Nat /\ instances' \in Nat /\ instructions' \in Nat /\ plan' \in Plans
    BY <1>2, <1>9, SMTT(30) DEF Plans
  <2>4. plan' \in {"idle", "running", "planned"} =>
           instances' \in 0 .. MaxUsize /\ instructions' \in 0 .. MaxUsize
    BY <1>2, <1>7, <2>3
  <2> QED BY <1>1, <1>2, <1>3, <2>1, <2>2, <2>3, <2>4 DEF ExpansionInvariant, ExpansionTypeOK
<1>11. WalkIsInOrder'
  <2>1. Current' = next
    BY <1>1, <1>2 DEF Current, NextPrototype, next
  <2>2. (0 <= Len(Code(Current)))' /\ occurrences'[next] > 0
    <3>1. Len(Code(Current))' = Len(Code(next))
      BY <1>1, <2>1 DEF Code
    <3> QED BY <1>2, <1>3, <3>1
  <2>3. plan' # "idle" /\ plan' # "planned" /\ position' # 0
    BY <1>2, <1>3
  <2> QED BY <1>1, <1>2, <1>3, <2>1, <2>2, <2>3 DEF WalkIsInOrder, Scanning
<1>12. InstancesAreCharged'
  <2>1. ASSUME NEW f \in P
        PROVE  /\ ChargedInstances[f] \in Int /\ ChargedInstructions[f] \in Int
               /\ f # next => /\ ChargedInstances'[f] = ChargedInstances[f]
                              /\ ChargedInstructions'[f] = ChargedInstructions[f]
               /\ f = next => /\ ChargedInstances'[f] = ChargedInstances[f] + occurrences[next]
                              /\ ChargedInstructions'[f] = ChargedInstructions[f] + Expanded(next)
    <3>1. /\ ChargedInstances[f] = (IF PlaceOf(f) <= position THEN occurrences[f] ELSE 0)
          /\ ChargedInstances'[f] = (IF PlaceOf(f) <= position + 1 THEN occurrences[f] ELSE 0)
          /\ ChargedInstructions[f] =
                (IF PlaceOf(f) <= position THEN Len(Code(f)) * occurrences[f] ELSE 0)
          /\ ChargedInstructions'[f] =
                (IF PlaceOf(f) <= position + 1 THEN Len(Code(f)) * occurrences[f] ELSE 0)
      BY <1>1, <1>2 DEF ChargedInstances, ChargedInstructions, Expanded, P
    <3>2. Len(Code(f)) \in Nat /\ occurrences[f] \in Nat /\ PlaceOf(f) \in Nat
      BY <1>3, <1>4
    <3>3. Len(Code(f)) * occurrences[f] \in Nat
      <4>1. \A a, b \in Nat : a * b \in Nat
        OBVIOUS
      <4> QED BY <3>2, <4>1
    <3>4. CASE f = next
      <4>1. PlaceOf(f) = position + 1 /\ ~ (position + 1 <= position) /\ position + 1 <= position + 1
        BY <1>3, <3>4
      <4>2. /\ ChargedInstances[f] = 0 /\ ChargedInstructions[f] = 0
            /\ ChargedInstances'[f] = occurrences[f]
            /\ ChargedInstructions'[f] = Len(Code(f)) * occurrences[f]
        BY <3>1, <4>1
      <4>3. Len(Code(f)) * occurrences[f] = Expanded(next) /\ occurrences[f] = occurrences[next]
        BY <1>9, <3>4
      <4> QED BY <1>9, <3>4, <4>2, <4>3
    <3>5. CASE f # next
      <4>1. PlaceOf(f) # position + 1
        BY <1>4, <3>5
      <4>2. PlaceOf(f) <= position + 1 <=> PlaceOf(f) <= position
        BY <1>3, <3>2, <4>1
      <4> QED BY <3>1, <3>2, <3>3, <3>5, <4>2
    <3> QED BY <3>4, <3>5
  <2> DEFINE paid == ChargedInstances
             paidLater == ChargedInstances'
             run == ChargedInstructions
             runLater == ChargedInstructions'
  <2>10. /\ n \in Nat /\ next \in 0 .. n - 1 /\ occurrences[next] \in Int /\ Expanded(next) \in Int
         /\ \A f \in 0 .. n - 1 : paid[f] \in Int /\ run[f] \in Int
         /\ \A f \in 0 .. n - 1 : f # next => paidLater[f] = paid[f]
         /\ \A f \in 0 .. n - 1 : f # next => runLater[f] = run[f]
         /\ paidLater[next] = paid[next] + occurrences[next]
         /\ runLater[next] = run[next] + Expanded(next)
    BY <1>3, <1>9, <2>1
  <2> HIDE DEF paid, paidLater, run, runLater
  <2>11. Total(paidLater, n) = Total(paid, n) + occurrences[next]
    BY <2>10, TotalChange
  <2>12. Total(runLater, n) = Total(run, n) + Expanded(next)
    BY <2>10, TotalChange
  <2>2. Total(ChargedInstances', n) = Total(ChargedInstances, n) + occurrences[next]
    BY <2>11 DEF paid, paidLater
  <2>3. Total(ChargedInstructions', n) = Total(ChargedInstructions, n) + Expanded(next)
    BY <2>12 DEF run, runLater
  <2>4. instances = Total(ChargedInstances, n) /\ instructions = Total(ChargedInstructions, n)
    BY <1>2 DEF ExpansionInvariant, InstancesAreCharged, n
  <2>5. instances' = Total(ChargedInstances', n) /\ instructions' = Total(ChargedInstructions', n)
    BY <1>2, <2>2, <2>3, <2>4
  <2>6. /\ plan' \in {"idle", "running", "planned"} => instances' <= budget /\ instructions' <= budget
        /\ plan' = "over_budget" => instances' > budget \/ instructions' > budget
        /\ plan' = "overflow" => instances' > MaxUsize \/ instructions' > MaxUsize
    BY <1>2, <1>7, <1>9, SMTT(30)
  <2> QED BY <1>1, <1>2, <2>5, <2>6 DEF InstancesAreCharged, n
<1>13. PassedIsCovered'
  BY <1>1, <1>2, <1>6 DEF ExpansionInvariant, PassedIsCovered, P
<1> QED BY <1>1, <1>8, <1>10, <1>11, <1>12, <1>13 DEF ExpansionInvariant

(* An instruction that creates no closure is passed over.                  *)
LEMMA PassInstructionStep ==
  ASSUME ExpansionInvariant, PassInstruction, UNCHANGED graphVars
  PROVE  ExpansionInvariant'
<1> DEFINE P == Prototypes(chunk)
           current == Current
<1>1. /\ chunk' = chunk /\ postorder' = postorder /\ result' = result
      /\ PrototypeOrder' = PrototypeOrder /\ P' = P /\ SearchInvariant'
      /\ \A f : PlaceOf(f)' = PlaceOf(f) /\ Code(f)' = Code(f)
  BY SameGraph DEF ExpansionInvariant
<1>2. /\ plan = "running" /\ plan' = plan /\ budget' = budget /\ position' = position
      /\ cursor' = cursor + 1 /\ occurrences' = occurrences /\ depths' = depths
      /\ instances' = instances /\ instructions' = instructions
      /\ position > 0 /\ cursor < Len(Code(current)) /\ ~ IsClosure(Code(current)[cursor + 1])
      /\ current' = current
  BY <1>1 DEF PassInstruction, Scanning, Scanned, Current
<1>3. /\ result = "accepted" /\ SearchInvariant
      /\ position \in Nat /\ current \in P /\ PlaceOf(current) = position
      /\ cursor \in Nat /\ cursor \in 0 .. Len(Code(current)) - 1
      /\ cursor + 1 \in 1 .. Len(Code(current))
      /\ \A f \in P : /\ Len(Code(f)) \in Nat /\ occurrences[f] \in Nat
  <2>1. /\ result = "accepted" /\ SearchInvariant
        /\ position \in 0 .. Len(PrototypeOrder) /\ current \in P /\ PlaceOf(current) = position
        /\ cursor \in 0 .. Len(Code(current))
    BY <1>2, WalkFacts
  <2>2. \A f \in P : /\ Len(Code(f)) \in Nat /\ occurrences[f] \in Nat
    BY <1>2, WalkFacts
  <2> QED BY <1>2, <2>1, <2>2
<1>4. \A f \in P : PlaceOf(f) \in Nat /\ (PlaceOf(f) = position => f = current)
  BY <1>3, OrderFacts DEF Current
<1>5. \A f \in P : /\ f # current => PassedOf(f)' = PassedOf(f)
                   /\ f = current => PassedOf(f) = cursor /\ PassedOf(f)' = cursor + 1
  BY <1>1, <1>2, <1>3, <1>4 DEF PassedOf
<1>6. ClosuresAreCounted' /\ UseStartsAtMain' /\ CountsAreReal'
  <2>1. ASSUME NEW g PROVE EdgesPassed(current, g, cursor + 1) = EdgesPassed(current, g, cursor)
    <3>1. cursor + 1 \notin ClosuresOf(chunk, current, g)
      BY <1>2 DEF ClosuresOf, Code
    <3>2. /\ EdgesPassed(current, g, cursor + 1) =
                EdgesPassed(current, g, cursor)
                + (IF cursor + 1 \in ClosuresOf(chunk, current, g) THEN 1 ELSE 0)
          /\ EdgesPassed(current, g, cursor) \in 0 .. cursor
      BY <1>3, EdgesFacts
    <3> QED BY <1>3, <3>1, <3>2
  <2>2. PassesNoClosure
    <3> SUFFICES ASSUME NEW f \in P, NEW g
                 PROVE  EdgesPassed(f, g, PassedOf(f)') = EdgesPassed(f, g, PassedOf(f))
      BY DEF PassesNoClosure
    <3>1. CASE f = current
      BY <1>5, <2>1, <3>1
    <3>2. CASE f # current
      BY <1>5, <3>2
    <3> QED BY <3>1, <3>2
  <2> QED BY <1>2, <2>2, UncountedStep
<1> HIDE DEF P, current
<1>7. ExpansionTypeOK'
  <2>1. TypeOK'
    BY <1>1 DEF SearchInvariant
  <2>2. Prototypes(chunk)' = Prototypes(chunk)
    BY SameGraph
  <2> QED BY <1>1, <1>2, <1>3, <2>1, <2>2 DEF ExpansionInvariant, ExpansionTypeOK
<1>8. WalkIsInOrder'
  <2>1. /\ occurrences[current] > 0 /\ Code(current)' = Code(current)
    BY <1>1, <1>2 DEF ExpansionInvariant, WalkIsInOrder, Scanning, current
  <2>2. /\ (IF position = 0 THEN cursor = 0 ELSE cursor <= Len(Code(Current)))'
        /\ (Scanning => occurrences[Current] > 0)'
    <3>1. Code(Current)' = Code(current) /\ Current' = current
      BY <1>1, <1>2 DEF Code, current
    <3> QED BY <1>2, <1>3, <2>1, <3>1
  <2> QED BY <1>1, <1>2, <1>3, <2>2 DEF WalkIsInOrder
<1>9. InstancesAreCharged'
  <2>1. ChargedInstances' = ChargedInstances /\ ChargedInstructions' = ChargedInstructions
    BY <1>1, <1>2 DEF ChargedInstances, ChargedInstructions, Expanded, P
  <2> QED BY <1>1, <1>2, <2>1 DEF ExpansionInvariant, InstancesAreCharged
<1>10. PassedIsCovered'
  <2>1. \A f \in P : \A i \in 1 .. Len(Code(f)) :
           (i <= PassedOf(f)' /\ IsClosure(Code(f)[i])) => i <= PassedOf(f)
    <3> SUFFICES ASSUME NEW f \in P, NEW i \in 1 .. Len(Code(f)),
                        i <= PassedOf(f)', IsClosure(Code(f)[i])
                 PROVE  i <= PassedOf(f)
      OBVIOUS
    <3>1. CASE f = current
      BY <1>2, <1>3, <1>5, <3>1
    <3>2. CASE f # current
      BY <1>5, <3>2
    <3> QED BY <3>1, <3>2
  <2> QED BY <1>1, <1>2, <2>1 DEF ExpansionInvariant, PassedIsCovered, P
<1> QED BY <1>1, <1>6, <1>7, <1>8, <1>9, <1>10 DEF ExpansionInvariant

(* The walk ends: with a closure that does not exist, or with a plan.      *)
LEMMA EndStep ==
  ASSUME ExpansionInvariant, RejectClosure \/ AcceptPlan, UNCHANGED graphVars
  PROVE  ExpansionInvariant'
<1> DEFINE P == Prototypes(chunk)
<1>1. /\ chunk' = chunk /\ postorder' = postorder /\ result' = result
      /\ PrototypeOrder' = PrototypeOrder /\ P' = P /\ SearchInvariant'
      /\ \A f : PlaceOf(f)' = PlaceOf(f) /\ Code(f)' = Code(f)
  BY SameGraph DEF ExpansionInvariant
<1>2. /\ plan = "running" /\ plan' \in {"planned", "invalid_closure"}
      /\ budget' = budget /\ position' = position
      /\ cursor' = cursor /\ occurrences' = occurrences /\ depths' = depths
      /\ instances' = instances /\ instructions' = instructions
      /\ plan' = "planned" => /\ position = Len(PrototypeOrder)
                              /\ position > 0 => cursor = Len(Code(Current))
  BY DEF RejectClosure, AcceptPlan, Scanning, BetweenPrototypes
<1>3. \A f : PassedOf(f)' = PassedOf(f)
  BY <1>1, <1>2 DEF PassedOf
<1>4. ClosuresAreCounted' /\ UseStartsAtMain' /\ CountsAreReal'
  <2>1. PassesNoClosure
    BY <1>3 DEF PassesNoClosure
  <2> QED BY <1>2, <2>1, UncountedStep
<1>5. Len(PrototypeOrder) = Len(postorder) /\ result = "accepted"
  BY <1>2, WalkFacts
<1>6. Current' = Current /\ Code(Current)' = Code(Current)
  BY <1>1, <1>2 DEF Current, Code
<1> HIDE DEF P
<1>7. ExpansionTypeOK'
  <2>1. TypeOK'
    BY <1>1 DEF SearchInvariant
  <2>2. Prototypes(chunk)' = Prototypes(chunk)
    BY SameGraph
  <2> QED BY <1>1, <1>2, <2>1, <2>2 DEF ExpansionInvariant, ExpansionTypeOK, Plans
<1>8. WalkIsInOrder'
  BY <1>1, <1>2, <1>5, <1>6 DEF ExpansionInvariant, WalkIsInOrder, Scanning
<1>9. InstancesAreCharged'
  <2>1. ChargedInstances' = ChargedInstances /\ ChargedInstructions' = ChargedInstructions
    BY <1>1, <1>2 DEF ChargedInstances, ChargedInstructions, Expanded, P
  <2> QED BY <1>1, <1>2, <2>1 DEF ExpansionInvariant, InstancesAreCharged
<1>10. PassedIsCovered'
  BY <1>1, <1>2, <1>3 DEF ExpansionInvariant, PassedIsCovered, P
<1> QED BY <1>1, <1>4, <1>7, <1>8, <1>9, <1>10 DEF ExpansionInvariant

-----------------------------------------------------------------------------
(* What is counted into a prototype so far.                                *)
LEMMA CountedIntoFacts ==
  ASSUME ExpansionInvariant, plan # "idle", NEW p
  PROVE  /\ \A f \in Prototypes(chunk) :
               CountedInto(p)[f] = occurrences[f] * EdgesPassed(f, p, PassedOf(f))
         /\ \A f \in Prototypes(chunk) : CountedInto(p)[f] \in Nat
         /\ Total(CountedInto(p), chunk.count) \in Int
<1> DEFINE P == Prototypes(chunk)
           n == chunk.count
           into == CountedInto(p)
<1>1. \A f \in P : into[f] = occurrences[f] * EdgesPassed(f, p, PassedOf(f)) /\ into[f] \in Nat
  <2> SUFFICES ASSUME NEW f \in P
               PROVE  into[f] = occurrences[f] * EdgesPassed(f, p, PassedOf(f)) /\ into[f] \in Nat
    OBVIOUS
  <2>1. into[f] = occurrences[f] * EdgesPassed(f, p, PassedOf(f))
    BY DEF CountedInto
  <2>2. occurrences[f] \in Nat /\ EdgesPassed(f, p, PassedOf(f)) \in 0 .. Len(Code(f))
        /\ Len(Code(f)) \in Nat
    BY WalkFacts
  <2>3. EdgesPassed(f, p, PassedOf(f)) \in Nat
    BY <2>2
  <2>4. \A a, b \in Nat : a * b \in Nat
    OBVIOUS
  <2> QED BY <2>1, <2>2, <2>3, <2>4
<1>2. n \in Nat /\ P = 0 .. n - 1
  BY WalkFacts
<1> HIDE DEF into, P, n
<1>3. Total(into, n) \in Int
  BY <1>1, <1>2, TotalInt
<1> QED BY <1>1, <1>3 DEF into, P, n

(* The closure the walk counts next creates a prototype that comes later   *)
(* in the order and is not yet looked into.                                *)
ScannedChild == ClosureChild(chunk, Current, Scanned)

(* It has a place behind the current prototype, and it is not main.        *)
LEMMA ScannedFacts ==
  ASSUME ExpansionInvariant, Scanning, IsClosure(Scanned), ValidClosure(chunk, Current, Scanned)
  PROVE  /\ Current \in Prototypes(chunk) /\ PlaceOf(Current) = position /\ position \in Nat
         /\ cursor \in Nat /\ cursor + 1 <= Len(Code(Current))
         /\ occurrences[Current] \in Nat /\ occurrences[Current] > 0
         /\ ScannedChild \in Prototypes(chunk)
         /\ PlaceOf(ScannedChild) \in Nat /\ PlaceOf(ScannedChild) > position
         /\ PlaceOf(ScannedChild) <= chunk.count
         /\ ScannedChild # Current /\ ScannedChild # chunk.main
         /\ cursor + 1 \in ClosuresOf(chunk, Current, ScannedChild)
         /\ \A f \in Prototypes(chunk) :
               /\ PlaceOf(f) \in Nat
               /\ f = Current => PassedOf(f) = cursor
               /\ PlaceOf(f) > position => PassedOf(f) = 0
               /\ PlaceOf(f) = position => f = Current
         /\ \A g : EdgesPassed(Current, g, cursor + 1) =
                      EdgesPassed(Current, g, cursor) + (IF g = ScannedChild THEN 1 ELSE 0)
<1> DEFINE P == Prototypes(chunk)
           current == Current
           child == ScannedChild
<1>1. plan = "running" /\ position > 0 /\ cursor < Len(Code(current)) /\ Scanned = Code(current)[cursor + 1]
  BY DEF Scanning, Scanned
<1>2. /\ IsChunk(chunk) /\ result = "accepted" /\ SearchInvariant
      /\ position \in 0 .. Len(PrototypeOrder) /\ Len(PrototypeOrder) \in Nat
      /\ current \in P /\ PlaceOf(current) = position
      /\ cursor \in 0 .. Len(Code(current)) /\ chunk.main \in P
  BY <1>1, WalkFacts
<1>3. Code(current) \in Seq(Instruction) /\ Len(Code(current)) \in Nat /\ occurrences[current] \in Nat
  BY <1>1, <1>2, WalkFacts
<1>4. /\ cursor \in Nat /\ cursor + 1 \in 1 .. Len(Code(current)) /\ cursor \in 0 .. Len(Code(current)) - 1
      /\ position \in Nat
  BY <1>1, <1>2, <1>3
<1>5. occurrences[current] > 0
  BY DEF ExpansionInvariant, WalkIsInOrder
<1>6. Scanned \in Instruction
  BY <1>1, <1>3, <1>4, ElementOfSeq
<1>7. child \in P /\ child \in Named(chunk, current)
  BY <1>2, <1>6, ClosureFacts DEF ScannedChild
<1>8. /\ \A p \in P : PlaceOf(p) \in 1 .. Len(postorder) /\ PrototypeOrder[PlaceOf(p)] = p
      /\ Len(postorder) \in Nat /\ Len(postorder) <= chunk.count
      /\ PlaceOf(current) < PlaceOf(child)
  BY <1>2, <1>7, OrderFacts
<1>9. chunk.count \in Nat
  BY <1>2, ChunkFacts
<1>10. PlaceOf(child) \in Nat /\ PlaceOf(child) > position /\ PlaceOf(child) <= chunk.count
  BY <1>2, <1>7, <1>8, <1>9
<1>11. child # current /\ child # chunk.main
  <2>1. PlaceOf(current) >= PlaceOf(chunk.main)
    BY <1>1, <1>2, <1>5 DEF ExpansionInvariant, UseStartsAtMain
  <2>2. PlaceOf(chunk.main) \in Nat
    BY <1>2, <1>8
  <2> QED BY <1>2, <1>4, <1>10, <2>1, <2>2
<1>12. cursor + 1 \in ClosuresOf(chunk, current, child)
  BY <1>1, <1>4 DEF ClosuresOf, Code, ScannedChild
<1>13. ASSUME NEW f \in P
       PROVE  /\ PlaceOf(f) \in Nat
              /\ f = current => PassedOf(f) = cursor
              /\ PlaceOf(f) > position => PassedOf(f) = 0
              /\ PlaceOf(f) = position => f = current
  <2>1. PlaceOf(f) \in Nat /\ PrototypeOrder[PlaceOf(f)] = f
    BY <1>8
  <2>2. f = current => PlaceOf(f) = position
    BY <1>2
  <2> QED BY <1>4, <2>1, <2>2 DEF PassedOf, Current
<1>14. ASSUME NEW g
       PROVE  EdgesPassed(current, g, cursor + 1) =
                 EdgesPassed(current, g, cursor) + (IF g = child THEN 1 ELSE 0)
  <2>1. /\ EdgesPassed(current, g, cursor + 1) =
              EdgesPassed(current, g, cursor)
              + (IF cursor + 1 \in ClosuresOf(chunk, current, g) THEN 1 ELSE 0)
    BY <1>3, <1>4, EdgesFacts
  <2>2. cursor + 1 \in ClosuresOf(chunk, current, g) <=> g = child
    BY <1>1, <1>12 DEF ClosuresOf, Code, ScannedChild
  <2> QED BY <2>1, <2>2
<1> HIDE DEF P, current, child
<1> QED BY <1>2, <1>3, <1>4, <1>5, <1>7, <1>10, <1>11, <1>12, <1>13, <1>14 DEF P, current, child

(* What the closure adds to the children counted into a prototype.         *)
CountedNext(p) ==
    [f \in Prototypes(chunk) |->
        IF f = Current THEN occurrences[f] * EdgesPassed(f, p, cursor + 1) ELSE CountedInto(p)[f]]

(* Only the child itself gets more, as much as its parent occurs.          *)
LEMMA CountedNextFacts ==
  ASSUME ExpansionInvariant, Scanning, IsClosure(Scanned), ValidClosure(chunk, Current, Scanned),
         NEW p \in Prototypes(chunk)
  PROVE  /\ \A f \in Prototypes(chunk) : CountedNext(p)[f] \in Nat
         /\ Total(CountedNext(p), chunk.count) =
               Total(CountedInto(p), chunk.count)
               + (IF p = ScannedChild THEN occurrences[Current] ELSE 0)
<1> DEFINE P == Prototypes(chunk)
           n == chunk.count
           into == CountedInto(p)
           next == CountedNext(p)
           d == IF p = ScannedChild THEN occurrences[Current] ELSE 0
<1>1. plan # "idle" /\ Current \in P /\ cursor \in Nat /\ cursor + 1 <= Len(Code(Current))
      /\ occurrences[Current] \in Nat
      /\ \A f \in P : f = Current => PassedOf(f) = cursor
      /\ EdgesPassed(Current, p, cursor + 1) =
            EdgesPassed(Current, p, cursor) + (IF p = ScannedChild THEN 1 ELSE 0)
  BY ScannedFacts DEF Scanning
<1>2. n \in Nat /\ P = 0 .. n - 1
  BY <1>1, WalkFacts
<1>3. \A f \in P : /\ occurrences[f] \in Nat /\ Len(Code(f)) \in Nat
                   /\ EdgesPassed(f, p, PassedOf(f)) \in 0 .. Len(Code(f))
  BY <1>1, WalkFacts
<1>4. \A a, b \in Nat : a * b \in Nat /\ a * (b + 1) = a * b + a
  OBVIOUS
<1>5. \A f \in P : into[f] = occurrences[f] * EdgesPassed(f, p, PassedOf(f)) /\ into[f] \in Nat
  BY <1>1, CountedIntoFacts
<1>6. \A f \in P : f # Current => next[f] = into[f]
  BY DEF CountedNext
<1>7. next[Current] = into[Current] + d
  <2>1. next[Current] = occurrences[Current] * EdgesPassed(Current, p, cursor + 1)
    BY <1>1 DEF CountedNext
  <2>2. into[Current] = occurrences[Current] * EdgesPassed(Current, p, cursor)
    BY <1>1, <1>5
  <2>3. EdgesPassed(Current, p, cursor) \in Nat
    <3>1. PassedOf(Current) = cursor /\ Len(Code(Current)) \in Nat
          /\ EdgesPassed(Current, p, PassedOf(Current)) \in 0 .. Len(Code(Current))
      BY <1>1, <1>3
    <3> QED BY <3>1
  <2>4. into[Current] \in Nat
    BY <1>1, <1>5
  <2> HIDE DEF next, into
  <2>5. CASE p = ScannedChild
    <3>1. EdgesPassed(Current, p, cursor + 1) = EdgesPassed(Current, p, cursor) + 1
      BY <1>1, <2>5
    <3> QED BY <1>1, <1>4, <2>1, <2>2, <2>3, <2>5, <3>1
  <2>6. CASE p # ScannedChild
    <3>1. EdgesPassed(Current, p, cursor + 1) = EdgesPassed(Current, p, cursor)
      BY <1>1, <2>3, <2>6
    <3> QED BY <2>1, <2>2, <2>4, <2>6, <3>1
  <2> QED BY <2>5, <2>6
<1>8. d \in Nat
  BY <1>1
<1> HIDE DEF P, n, into, next, d
<1>9. \A f \in P : next[f] \in Nat
  BY <1>5, <1>6, <1>7, <1>8
<1>10. Total(next, n) = Total(into, n) + d
  <2>1. /\ n \in Nat /\ Current \in 0 .. n - 1 /\ d \in Int
        /\ \A f \in 0 .. n - 1 : into[f] \in Int
        /\ \A f \in 0 .. n - 1 : f # Current => next[f] = into[f]
        /\ next[Current] = into[Current] + d
    BY <1>1, <1>2, <1>5, <1>6, <1>7, <1>8
  <2> QED BY <2>1, TotalChange
<1> QED BY <1>9, <1>10 DEF P, n, into, next, d

(* The occurrences of the child stay within the instructions charged, so   *)
(* that their sum cannot overflow, and within its instantiations.          *)
LEMMA SumFits ==
  ASSUME ExpansionInvariant, Scanning, IsClosure(Scanned), ValidClosure(chunk, Current, Scanned)
  PROVE  /\ occurrences[ScannedChild] \in Nat
         /\ occurrences[ScannedChild] + occurrences[Current] = Total(CountedNext(ScannedChild), chunk.count)
         /\ occurrences[ScannedChild] + occurrences[Current] <= MaxUsize
         /\ occurrences[ScannedChild] + occurrences[Current] <= Instantiations(chunk)[ScannedChild]
<1> DEFINE P == Prototypes(chunk)
           n == chunk.count
           child == ScannedChild
           next == CountedNext(child)
           into == CountedInto(child)
           sum == occurrences[child] + occurrences[Current]
<1>1. /\ plan = "running" /\ Current \in P /\ cursor \in Nat /\ cursor + 1 <= Len(Code(Current))
      /\ child \in P /\ child # chunk.main /\ PlaceOf(Current) = position /\ position \in Nat
      /\ occurrences[Current] \in Nat
      /\ \A f \in P : /\ PlaceOf(f) \in Nat
                      /\ PlaceOf(f) > position => PassedOf(f) = 0
  BY ScannedFacts DEF Scanning
<1>2. n \in Nat /\ P = 0 .. n - 1 /\ SearchInvariant /\ result = "accepted" /\ MaxUsize \in Nat
  BY <1>1, WalkFacts
<1>3. \A f \in P : /\ occurrences[f] \in Nat /\ Len(Code(f)) \in Nat
                   /\ PassedOf(f) \in 0 .. Len(Code(f))
  BY <1>1, WalkFacts
<1>4. /\ \A f \in P : next[f] \in Nat
      /\ Total(next, n) = Total(into, n) + occurrences[Current]
  BY <1>1, CountedNextFacts
<1>5. occurrences[child] = Total(into, n)
  <2>1. occurrences[child] = 0 + Total(into, n)
    BY <1>1 DEF ExpansionInvariant, ClosuresAreCounted
  <2>2. Total(into, n) \in Int
    BY <1>1, CountedIntoFacts
  <2> QED BY <2>1, <2>2
<1>6. sum = Total(next, n)
  BY <1>4, <1>5
(* What next[f] counts: closures of f, once per occurrence of f.           *)
<1>7. ASSUME NEW f \in P
      PROVE  \E k \in 0 .. Len(Code(f)) :
                /\ next[f] = occurrences[f] * EdgesPassed(f, child, k)
                /\ PlaceOf(f) > position => k = 0
  <2>1. CASE f = Current
    <3>1. next[f] = occurrences[f] * EdgesPassed(f, child, cursor + 1)
      BY <2>1 DEF CountedNext
    <3>2. cursor + 1 \in 0 .. Len(Code(f)) /\ ~ (PlaceOf(f) > position)
      BY <1>1, <1>3, <2>1
    <3> QED BY <3>1, <3>2
  <2>2. CASE f # Current
    <3>1. next[f] = occurrences[f] * EdgesPassed(f, child, PassedOf(f))
      BY <2>2 DEF CountedNext, CountedInto
    <3> QED BY <1>1, <1>3, <3>1
  <2> QED BY <2>1, <2>2
<1>8. \A a, b, c, d \in Nat : /\ a * b \in Nat
                              /\ b <= c => a * b <= c * a
                              /\ (a <= c /\ b <= d) => a * b <= c * d
                              /\ a * 0 = 0
  <2>1. \A a, b, c \in Nat : a * b \in Nat /\ a * 0 = 0 /\ (b <= c => a * b <= c * a)
    OBVIOUS
  <2>2. \A a, b, c, d \in Nat : (a <= c /\ b <= d) => a * b <= c * d
    <3> SUFFICES ASSUME NEW a \in Nat, NEW b \in Nat, NEW c \in Nat, NEW d \in Nat, a <= c, b <= d
                 PROVE  a * b <= c * d
      OBVIOUS
    <3>1. a * b <= a * d
      OBVIOUS
    <3>2. a * d <= c * d
      OBVIOUS
    <3>3. a * b \in Nat /\ a * d \in Nat /\ c * d \in Nat
      OBVIOUS
    <3> QED BY <3>1, <3>2, <3>3
  <2> QED BY <2>1, <2>2
<1>9. sum <= MaxUsize
  <2> DEFINE paid == ChargedInstructions
  <2>1. ASSUME NEW f \in P
        PROVE  next[f] \in Int /\ paid[f] \in Int /\ next[f] <= paid[f]
    <3>1. PICK k \in 0 .. Len(Code(f)) :
             /\ next[f] = occurrences[f] * EdgesPassed(f, child, k)
             /\ PlaceOf(f) > position => k = 0
      BY <1>7
    <3>2. EdgesPassed(f, child, k) \in 0 .. k /\ Len(Code(f)) \in Nat /\ occurrences[f] \in Nat
      BY <1>3, EdgesFacts
    <3>3. EdgesPassed(f, child, k) \in Nat /\ EdgesPassed(f, child, k) <= Len(Code(f))
      BY <3>2
    <3>4. paid[f] = IF PlaceOf(f) <= position THEN Len(Code(f)) * occurrences[f] ELSE 0
      BY DEF ChargedInstructions, Expanded
    <3>5. CASE PlaceOf(f) <= position
      BY <1>8, <3>1, <3>2, <3>3, <3>4, <3>5
    <3>6. CASE PlaceOf(f) > position
      <4>1. EdgesPassed(f, child, k) = 0 /\ ~ (PlaceOf(f) <= position)
        BY <1>1, <3>1, <3>2, <3>6
      <4> QED BY <1>8, <3>1, <3>2, <3>4, <4>1
    <3> QED BY <1>1, <3>5, <3>6
  <2>2. Total(next, n) <= Total(paid, n)
    <3> HIDE DEF next, paid
    <3> QED BY <1>2, <2>1, TotalMonotonic
  <2>3. Total(paid, n) <= MaxUsize
    BY <1>1 DEF ExpansionInvariant, InstancesAreCharged, ExpansionTypeOK
  <2>4. Total(next, n) \in Int /\ Total(paid, n) \in Int
    <3> HIDE DEF next, paid
    <3> QED BY <1>2, <2>1, TotalInt
  <2> QED BY <1>2, <1>6, <2>2, <2>3, <2>4
<1>10. sum <= Instantiations(chunk)[child]
  <2> DEFINE counts == Instantiations(chunk)
             entering == Entering(EdgeCounts(chunk), counts, child, n)
  <2>1. /\ FollowsEdges(counts, EdgeCounts(chunk), chunk.main, n)
        /\ \A f \in P : counts[f] \in Nat
    BY <1>2, InstantiationsFacts
  <2>2. counts[child] = 0 + Total(entering, n)
    BY <1>1, <1>2, <2>1 DEF FollowsEdges
  <2>3. \A f \in P : occurrences[f] <= counts[f]
    BY <1>1 DEF ExpansionInvariant, CountsAreReal
  <2>4. ASSUME NEW f \in P
        PROVE  next[f] \in Int /\ entering[f] \in Int /\ next[f] <= entering[f]
    <3>1. PICK k \in 0 .. Len(Code(f)) : next[f] = occurrences[f] * EdgesPassed(f, child, k)
      BY <1>7
    <3>2. /\ EdgesPassed(f, child, k) \in 0 .. k /\ EdgesPassed(f, child, k) <= Edges(chunk, f, child)
          /\ Edges(chunk, f, child) \in Nat
      BY <1>3, EdgesFacts
    <3>3. EdgesPassed(f, child, k) \in Nat
      BY <3>2
    <3>4. entering[f] = counts[f] * Edges(chunk, f, child)
      BY <1>1, <1>2 DEF Entering, EdgeCounts
    <3>5. occurrences[f] \in Nat /\ counts[f] \in Nat /\ occurrences[f] <= counts[f]
      BY <1>3, <2>1, <2>3
    <3> DEFINE a == occurrences[f]
               b == EdgesPassed(f, child, k)
               c == counts[f]
               d == Edges(chunk, f, child)
    <3>6. a \in Nat /\ b \in Nat /\ c \in Nat /\ d \in Nat /\ a <= c /\ b <= d
      BY <3>2, <3>3, <3>5
    <3>7. next[f] = a * b /\ entering[f] = c * d
      BY <3>1, <3>4
    <3> HIDE DEF next, entering, a, b, c, d
    <3>8. a * b <= c * d /\ a * b \in Nat /\ c * d \in Nat
      BY <1>8, <3>6
    <3> QED BY <3>7, <3>8
  <2> HIDE DEF next, entering
  <2>5. Total(next, n) <= Total(entering, n) /\ Total(entering, n) \in Int
    BY <1>2, <2>4, TotalMonotonic, TotalInt
  <2> QED BY <1>6, <2>2, <2>5
<1> QED BY <1>1, <1>3, <1>6, <1>9, <1>10

(* One closure deeper than a chain that exists is a chain that exists.     *)
LEMMA DepthIsReal ==
  ASSUME ExpansionInvariant, Scanning, IsClosure(Scanned), ValidClosure(chunk, Current, Scanned)
  PROVE  /\ depths[Current] \in Nat /\ depths[Current] <= MaxDepth
         /\ depths[Current] + 1 <= chunk.count
         /\ PathCounts(chunk)[depths[Current]][ScannedChild] > 0
<1> DEFINE P == Prototypes(chunk)
           n == chunk.count
           child == ScannedChild
           walks == PathCounts(chunk)
           depth == depths[Current]
<1>1. /\ plan = "running" /\ Current \in P /\ cursor \in Nat /\ cursor + 1 <= Len(Code(Current))
      /\ child \in P /\ PlaceOf(Current) = position /\ PlaceOf(child) > position
      /\ PlaceOf(child) <= n /\ PlaceOf(child) \in Nat /\ position \in Nat
      /\ occurrences[Current] > 0
      /\ cursor + 1 \in ClosuresOf(chunk, Current, child)
  BY ScannedFacts DEF Scanning
<1>2. /\ n \in Nat /\ P = 0 .. n - 1 /\ SearchInvariant /\ result = "accepted"
      /\ depth \in Nat
  BY <1>1, WalkFacts
<1>3. /\ depth > 0 /\ depth <= n /\ walks[depth - 1][Current] > 0 /\ ~ (depth > MaxDepth)
  BY <1>1, <1>2 DEF ExpansionInvariant, CountsAreReal
<1>4. MaxDepth \in Nat
  BY BoundsAssumption
<1>5. /\ IsGraph(EdgeCounts(chunk), OnlyMain(chunk), n)
      /\ IsRanked(EdgeCounts(chunk), Place, n)
  BY <1>2, ChunkIsGraph
<1>6. \A k \in 0 .. n : \A x \in P : walks[k][x] \in Nat /\ (walks[k][x] # 0 => k < PlaceOf(x))
  <2>1. \A k \in 0 .. n : \A x \in 0 .. n - 1 : walks[k][x] \in Nat
    BY <1>5, WalksFacts DEF PathCounts
  <2>2. \A k \in 0 .. n : \A x \in 0 .. n - 1 : walks[k][x] # 0 => k < Place[x]
    BY <1>5, WalksAreShort DEF PathCounts
  <2> QED BY <1>2, <2>1, <2>2 DEF Place
<1>7. depth + 1 <= n
  <2>1. depth - 1 \in 0 .. n
    BY <1>2, <1>3
  <2>2. depth - 1 < position
    BY <1>1, <1>3, <1>6, <2>1
  <2> QED BY <1>1, <1>2, <2>2
<1>8. walks[depth][child] > 0
  <2> DEFINE entering == Entering(EdgeCounts(chunk), walks[depth - 1], child, n)
  <2>1. walks[(depth - 1) + 1][child] = Total(entering, n)
    <3>1. depth - 1 \in 0 .. n - 1
      BY <1>2, <1>3
    <3>2. child \in 0 .. n - 1
      BY <1>1, <1>2
    <3> DEFINE edges == EdgeCounts(chunk)
               start == OnlyMain(chunk)
               k == depth - 1
    <3>3. IsGraph(edges, start, n) /\ walks = Walks(edges, start, n) /\ k \in 0 .. n - 1
      BY <1>5, <3>1 DEF PathCounts
    <3>4. entering = Entering(edges, walks[k], child, n)
      OBVIOUS
    <3> HIDE DEF edges, start, k, n, walks, child, entering
    <3>5. \A x \in 0 .. n - 1 :
             Walks(edges, start, n)[k + 1][x] = Total(Entering(edges, Walks(edges, start, n)[k], x, n), n)
      BY <3>3, WalksFacts
    <3>6. walks[k + 1][child] = Total(entering, n)
      BY <3>2, <3>3, <3>4, <3>5
    <3> QED BY <3>6 DEF k
  <2>2. \A f \in P : entering[f] = walks[depth - 1][f] * Edges(chunk, f, child)
    BY <1>1, <1>2 DEF Entering, EdgeCounts
  <2>3. \A f \in P : walks[depth - 1][f] \in Nat
    <3>1. depth - 1 \in 0 .. n
      BY <1>2, <1>3
    <3> QED BY <1>6, <3>1
  <2>4. \A f \in P : Edges(chunk, f, child) \in Nat
    <3>1. \A f \in P : Len(Code(f)) \in Nat
      BY <1>1, WalkFacts
    <3> QED BY <3>1, EdgesFacts
  <2>5. Edges(chunk, Current, child) >= 1
    <3>1. cursor \in 0 .. Len(Code(Current)) - 1 /\ cursor + 1 \in 0 .. Len(Code(Current))
          /\ cursor \in 0 .. Len(Code(Current)) /\ Len(Code(Current)) \in Nat
      <4>1. Len(Code(Current)) \in Nat
        BY <1>1, WalkFacts
      <4> QED BY <1>1, <4>1
    <3>2. /\ EdgesPassed(Current, child, cursor + 1) = EdgesPassed(Current, child, cursor) + 1
          /\ EdgesPassed(Current, child, cursor) \in 0 .. cursor
          /\ EdgesPassed(Current, child, cursor + 1) <= Edges(chunk, Current, child)
      BY <1>1, <3>1, EdgesFacts
    <3> QED BY <1>1, <2>4, <3>2
  <2>6. \A a, b \in Nat : a * b \in Nat /\ ((a > 0 /\ b >= 1) => a * b > 0)
    OBVIOUS
  <2>7. \A f \in P : entering[f] \in Nat
    BY <2>2, <2>3, <2>4, <2>6
  <2>8. entering[Current] > 0
    BY <1>1, <1>3, <2>2, <2>3, <2>4, <2>5, <2>6
  <2> HIDE DEF entering, walks
  <2>9. Total(entering, n) \in Nat /\ entering[Current] <= Total(entering, n)
    BY <1>1, <1>2, <2>7, TotalOfNaturals
  <2>10. (depth - 1) + 1 = depth
    BY <1>2
  <2> QED BY <1>1, <2>1, <2>7, <2>8, <2>9, <2>10
<1> QED BY <1>2, <1>3, <1>4, <1>7, <1>8

(* Each instance of the current prototype adds one to its child.           *)
LEMMA CountClosureStep ==
  ASSUME ExpansionInvariant, CountClosure, UNCHANGED graphVars
  PROVE  ExpansionInvariant'
<1> DEFINE P == Prototypes(chunk)
           n == chunk.count
           current == Current
           child == ScannedChild
           sum == occurrences[child] + occurrences[current]
           depth == Larger(depths[child], depths[current] + 1)
<1>1. /\ chunk' = chunk /\ postorder' = postorder /\ result' = result
      /\ PrototypeOrder' = PrototypeOrder /\ P' = P /\ SearchInvariant'
      /\ \A f : PlaceOf(f)' = PlaceOf(f) /\ Code(f)' = Code(f)
  BY SameGraph DEF ExpansionInvariant
<1>2. Scanning /\ IsClosure(Scanned) /\ ValidClosure(chunk, current, Scanned)
  BY DEF CountClosure
<1>3. /\ plan = "running" /\ position > 0
      /\ current \in P /\ PlaceOf(current) = position /\ position \in Nat
      /\ cursor \in Nat /\ cursor + 1 <= Len(Code(current))
      /\ occurrences[current] \in Nat /\ occurrences[current] > 0
      /\ child \in P /\ PlaceOf(child) > position /\ child # current /\ child # chunk.main
      /\ PlaceOf(child) <= n
  BY <1>2, ScannedFacts DEF Scanning
<1>4. \A f \in P : /\ PlaceOf(f) \in Nat
                   /\ f = current => PassedOf(f) = cursor
                   /\ PlaceOf(f) > position => PassedOf(f) = 0
                   /\ PlaceOf(f) = position => f = current
  BY <1>2, ScannedFacts
<1>5. /\ n \in Nat /\ P = 0 .. n - 1 /\ SearchInvariant /\ result = "accepted" /\ MaxUsize \in Nat
      /\ \A f \in P : /\ occurrences[f] \in Nat /\ Len(Code(f)) \in Nat /\ depths[f] \in Nat
                      /\ PassedOf(f) \in 0 .. Len(Code(f))
      /\ budget \in Nat
  BY <1>3, WalkFacts
<1>6. sum \in Nat /\ sum <= MaxUsize /\ sum <= Instantiations(chunk)[child] /\ ~ (sum > MaxUsize)
      /\ sum = Total(CountedNext(child), n)
  <2>1. sum <= MaxUsize /\ sum <= Instantiations(chunk)[child] /\ sum = Total(CountedNext(child), n)
    BY <1>2, SumFits
  <2> QED BY <1>3, <1>5, <2>1, SMTT(30)
<1>7. /\ occurrences' = [occurrences EXCEPT ![child] = sum]
      /\ depths' = [depths EXCEPT ![child] = depth]
      /\ plan' = IF depth > MaxDepth THEN "too_deep" ELSE "running"
      /\ cursor' = cursor + 1
      /\ budget' = budget /\ position' = position
      /\ instances' = instances /\ instructions' = instructions
  BY <1>6 DEF CountClosure, ScannedChild
<1>8. current' = current
  BY <1>1, <1>7 DEF Current
<1>9. /\ depths[current] \in Nat /\ depths[current] <= MaxDepth /\ MaxDepth \in Nat
      /\ depths[current] + 1 <= n
      /\ PathCounts(chunk)[depths[current]][child] > 0
  BY <1>2, DepthIsReal, BoundsAssumption
<1>10. /\ depth \in Nat /\ depth >= depths[child] /\ depth > depths[current]
       /\ depth = depths[child] \/ depth = depths[current] + 1
  <2>1. depths[child] \in Nat /\ depths[current] \in Nat
    BY <1>3, <1>5
  <2>2. \A k, m \in Nat : /\ Larger(k, m + 1) \in Nat /\ Larger(k, m + 1) >= k
                          /\ Larger(k, m + 1) > m /\ Larger(k, m + 1) \in {k, m + 1}
    BY DEF Larger
  <2> HIDE DEF child, current
  <2> QED BY <2>1, <2>2
<1>11. occurrences \in [P -> 0 .. MaxUsize] /\ depths \in [P -> 0 .. MaxDepth + 1]
  BY DEF ExpansionInvariant, ExpansionTypeOK
<1>12. \A f \in P : /\ f # child => occurrences'[f] = occurrences[f] /\ depths'[f] = depths[f]
                    /\ f = child => occurrences'[f] = sum /\ depths'[f] = depth
                    /\ occurrences'[f] \in Nat /\ occurrences'[f] >= occurrences[f]
                    /\ depths'[f] \in Nat /\ depths'[f] >= depths[f]
  <2> SUFFICES ASSUME NEW f \in P
               PROVE  /\ f # child => occurrences'[f] = occurrences[f] /\ depths'[f] = depths[f]
                      /\ f = child => occurrences'[f] = sum /\ depths'[f] = depth
                      /\ occurrences'[f] \in Nat /\ occurrences'[f] >= occurrences[f]
                      /\ depths'[f] \in Nat /\ depths'[f] >= depths[f]
    OBVIOUS
  <2>0. sum >= occurrences[child]
    BY <1>3, <1>5
  <2> HIDE DEF P, n, current, child, sum, depth
  <2>1. CASE f = child
    <3>1. occurrences'[f] = sum /\ depths'[f] = depth
      BY <1>3, <1>7, <1>11, <2>1
    <3> QED BY <1>6, <1>10, <2>0, <2>1, <3>1
  <2>2. CASE f # child
    <3>1. occurrences'[f] = occurrences[f] /\ depths'[f] = depths[f]
      BY <1>7, <1>11, <2>2
    <3> QED BY <1>5, <2>2, <3>1
  <2> QED BY <2>1, <2>2
<1>13. \A f \in P : /\ f = current => PassedOf(f)' = cursor + 1
                    /\ f # current => PassedOf(f)' = PassedOf(f)
                    /\ f = child => PassedOf(f)' = 0 /\ PassedOf(f) = 0
  <2> SUFFICES ASSUME NEW f \in P
               PROVE  /\ f = current => PassedOf(f)' = cursor + 1
                      /\ f # current => PassedOf(f)' = PassedOf(f)
                      /\ f = child => PassedOf(f) = 0
    BY <1>3
  <2> QED BY <1>1, <1>3, <1>4, <1>7 DEF PassedOf
<1> HIDE DEF P, n, current, child, sum, depth
<1>20. ExpansionTypeOK'
  <2>1. TypeOK'
    BY <1>1 DEF SearchInvariant
  <2>2. Prototypes(chunk)' = P
    BY <1>1 DEF P
  <2>3. plan' \in Plans /\ plan' \in {"running", "too_deep"}
    BY <1>7 DEF Plans
  <2>4. occurrences' \in [P -> 0 .. MaxUsize]
    <3>1. sum \in 0 .. MaxUsize
      BY <1>5, <1>6
    <3> QED BY <1>7, <1>11, <3>1
  <2>5. depths' \in [P -> 0 .. MaxDepth + 1]
    <3>1. depths[child] \in 0 .. MaxDepth + 1
      BY <1>3, <1>11
    <3>2. depth \in 0 .. MaxDepth + 1
      BY <1>9, <1>10, <3>1
    <3> QED BY <1>7, <1>11, <3>2
  <2>6. cursor' \in Nat
    BY <1>3, <1>7
  <2>7. instances \in Nat /\ instructions \in Nat /\ instances \in 0 .. MaxUsize
        /\ instructions \in 0 .. MaxUsize /\ budget \in Budgets /\ position \in 0 .. Len(postorder)
    BY <1>3 DEF ExpansionInvariant, ExpansionTypeOK
  <2> QED BY <1>1, <1>7, <2>1, <2>2, <2>3, <2>4, <2>5, <2>6, <2>7 DEF ExpansionTypeOK
<1>21. WalkIsInOrder'
  <2>1. Code(Current)' = Code(current) /\ Current' = current
    BY <1>1, <1>8 DEF Code, current
  <2>2. occurrences'[current] > 0
    BY <1>3, <1>12
  <2>3. plan' # "idle" /\ plan' # "planned"
    BY <1>7
  <2> QED BY <1>1, <1>3, <1>5, <1>7, <2>1, <2>2, <2>3 DEF WalkIsInOrder, Scanning
<1>22. ClosuresAreCounted'
  <2> SUFFICES ASSUME NEW p \in P
               PROVE  occurrences'[p] = (IF p = chunk.main THEN 1 ELSE 0) + Total(CountedInto(p)', n)
    BY <1>1 DEF ClosuresAreCounted, P, n
  <2>1. /\ \A f \in P : CountedNext(p)[f] \in Nat
        /\ Total(CountedNext(p), n) = Total(CountedInto(p), n) + (IF p = child THEN occurrences[current] ELSE 0)
    BY <1>2, CountedNextFacts DEF P, n, child, current
  <2>2. ASSUME NEW f \in P
        PROVE  CountedNext(p)[f] \in Int /\ CountedNext(p)[f] = CountedInto(p)'[f]
    <3>0. PICK later : later = PassedOf(f)'
      OBVIOUS
    <3>1. CountedInto(p)'[f] = occurrences'[f] * EdgesPassed(f, p, PassedOf(f))'
      BY <1>1 DEF CountedInto, P
    <3>2. EdgesPassed(f, p, PassedOf(f))' = EdgesPassed(f, p, later)
      BY <1>1, <3>0 DEF EdgesPassed
    <3>3. CountedNext(p)[f] = IF f = current THEN occurrences[f] * EdgesPassed(f, p, cursor + 1)
                              ELSE occurrences[f] * EdgesPassed(f, p, PassedOf(f))
      BY DEF CountedNext, CountedInto, P, current
    <3>4. CASE f = child
      <4>1. later = 0 /\ PassedOf(f) = 0 /\ f # current
        BY <1>3, <1>13, <3>0, <3>4
      <4>2. EdgesPassed(f, p, 0) = 0
        <5>1. Len(Code(f)) \in Nat /\ 0 \in 0 .. Len(Code(f))
          BY <1>5
        <5>2. EdgesPassed(f, p, 0) \in 0 .. 0
          BY <5>1, EdgesFacts
        <5> QED BY <5>2
      <4>3. \A a \in Nat : a * 0 = 0
        OBVIOUS
      <4> QED BY <1>5, <1>12, <3>1, <3>2, <3>3, <4>1, <4>2, <4>3
    <3>5. CASE f # child
      <4>1. later = IF f = current THEN cursor + 1 ELSE PassedOf(f)
        BY <1>13, <3>0
      <4>2. occurrences'[f] = occurrences[f]
        BY <1>12, <3>5
      <4> QED BY <2>1, <3>1, <3>2, <3>3, <4>1, <4>2
    <3> QED BY <3>4, <3>5
  <2>3. Total(CountedNext(p), n) = Total(CountedInto(p)', n)
    <3> DEFINE next == CountedNext(p)
               into == CountedInto(p)'
    <3>1. n \in Nat /\ \A f \in 0 .. n - 1 : next[f] \in Int /\ next[f] = into[f]
      BY <1>5, <2>2
    <3> HIDE DEF next, into
    <3>2. Total(next, n) = Total(into, n)
      BY <3>1, TotalEqual
    <3> QED BY <3>2 DEF next, into
  <2>4. CASE p = child
    <3>1. occurrences'[p] = Total(CountedInto(p)', n)
      BY <1>6, <1>12, <2>3, <2>4
    <3>2. p # chunk.main /\ Total(CountedInto(p)', n) \in Int
      BY <1>3, <1>6, <2>3, <2>4
    <3> QED BY <3>1, <3>2
  <2>5. CASE p # child
    <3>1. occurrences[p] = (IF p = chunk.main THEN 1 ELSE 0) + Total(CountedInto(p), n)
      BY <1>3 DEF ExpansionInvariant, ClosuresAreCounted, P, n
    <3>2. occurrences'[p] = occurrences[p] /\ occurrences[p] \in Nat
      BY <1>5, <1>12, <2>5
    <3>3. Total(CountedNext(p), n) = Total(CountedInto(p), n)
      <4>1. Total(CountedNext(p), n) \in Int
        BY <1>5, <2>1, TotalOfNaturals
      <4>2. Total(CountedInto(p), n) \in Int
        BY <1>3, CountedIntoFacts DEF n
      <4> QED BY <2>1, <2>5, <4>1, <4>2
    <3> QED BY <2>3, <3>1, <3>2, <3>3
  <2> QED BY <2>4, <2>5
<1>23. InstancesAreCharged'
  <2>1. /\ ChargedInstances' = ChargedInstances /\ ChargedInstructions' = ChargedInstructions
    <3>1. \A f \in P : PlaceOf(f) <= position => occurrences'[f] = occurrences[f]
      <4>1. \A f \in P : f = child => ~ (PlaceOf(f) <= position)
        BY <1>3, <1>4
      <4> QED BY <1>12, <4>1
    <3> QED BY <1>1, <1>7, <3>1 DEF ChargedInstances, ChargedInstructions, Expanded, P
  <2>2. plan' \in {"running", "too_deep"}
    BY <1>7
  <2> QED BY <1>1, <1>3, <1>7, <2>1, <2>2 DEF ExpansionInvariant, InstancesAreCharged
<1>24. UseStartsAtMain'
  <2> SUFFICES ASSUME NEW p \in P, occurrences'[p] > 0
               PROVE  PlaceOf(p) >= PlaceOf(chunk.main)
    BY <1>1 DEF UseStartsAtMain, P
  <2>1. \A q \in P : occurrences[q] > 0 => PlaceOf(q) >= PlaceOf(chunk.main)
    BY <1>3 DEF ExpansionInvariant, UseStartsAtMain, P
  <2>2. CASE p = child
    <3>1. PlaceOf(current) >= PlaceOf(chunk.main)
      BY <1>3, <2>1
    <3>2. PlaceOf(chunk.main) \in Nat
      <4>1. chunk.main \in P
        BY <1>5, ChunkFacts DEF SearchInvariant, TypeOK, P
      <4> QED BY <1>4, <4>1
    <3> QED BY <1>3, <1>4, <2>2, <3>1, <3>2
  <2>3. CASE p # child
    BY <1>12, <2>1, <2>3
  <2> QED BY <2>2, <2>3
<1>25. PassedIsCovered'
  <2> SUFFICES ASSUME plan' = "running", NEW f \in P, NEW i \in 1 .. Len(Code(f)),
                      i <= PassedOf(f)', occurrences'[f] > 0, IsClosure(Code(f)[i])
               PROVE  /\ ValidClosure(chunk, f, Code(f)[i])
                      /\ ClosureChild(chunk, f, Code(f)[i]) \in P
                      /\ occurrences'[ClosureChild(chunk, f, Code(f)[i])] >= occurrences'[f]
                      /\ depths'[ClosureChild(chunk, f, Code(f)[i])] > depths'[f]
                      /\ depths'[ClosureChild(chunk, f, Code(f)[i])] <= MaxDepth
    <3>1. plan' \in {"running", "too_deep"}
      BY <1>7
    <3> QED BY <1>1, <3>1 DEF PassedIsCovered, P
  <2> DEFINE target == ClosureChild(chunk, f, Code(f)[i])
  <2>1. ~ (depth > MaxDepth)
    BY <1>7
  <2>2. f # child
    BY <1>13
  <2>3. occurrences'[f] = occurrences[f] /\ depths'[f] = depths[f] /\ depths[f] \in Nat
    BY <1>5, <1>12, <2>2
  <2>4. CASE f = current /\ i = cursor + 1
    <3>1. Code(f)[i] = Scanned /\ target = child
      BY <2>4 DEF Scanned, ScannedChild, child, current
    <3>2. ValidClosure(chunk, f, Code(f)[i])
      BY <1>2, <2>4, <3>1
    <3>3. occurrences'[child] >= occurrences'[f]
      <4>1. occurrences'[child] = sum /\ sum >= occurrences[current] /\ occurrences[f] = occurrences[current]
        <5>1. occurrences[child] \in Nat /\ occurrences[current] \in Nat
          BY <1>3, <1>5
        <5>2. sum >= occurrences[current]
          BY <5>1 DEF sum
        <5> QED BY <1>3, <1>12, <2>4, <5>2
      <4> QED BY <2>3, <4>1
    <3>4. depths'[child] > depths'[f] /\ depths'[child] <= MaxDepth
      <4>1. depths'[child] = depth /\ depths'[f] = depths[current]
        BY <1>3, <1>12, <2>3, <2>4
      <4> QED BY <1>9, <1>10, <2>1, <4>1
    <3> HIDE DEF target
    <3>5. /\ ValidClosure(chunk, f, Code(f)[i]) /\ target \in P
          /\ occurrences'[target] >= occurrences'[f]
          /\ depths'[target] > depths'[f] /\ depths'[target] <= MaxDepth
      BY <1>3, <3>1, <3>2, <3>3, <3>4
    <3> QED BY <3>5 DEF target
  <2>5. CASE ~ (f = current /\ i = cursor + 1)
    <3>1. i <= PassedOf(f)
      <4>1. CASE f = current
        <5>1. i <= cursor + 1 /\ i # cursor + 1 /\ i \in Nat /\ cursor \in Nat
          BY <1>3, <1>5, <1>13, <2>5, <4>1
        <5>2. PassedOf(f) = cursor
          BY <1>4, <4>1
        <5> QED BY <5>1, <5>2
      <4>2. CASE f # current
        BY <1>13, <4>2
      <4> QED BY <4>1, <4>2
    <3>2. /\ ValidClosure(chunk, f, Code(f)[i])
          /\ occurrences[target] >= occurrences[f]
          /\ depths[target] > depths[f]
          /\ depths[target] <= MaxDepth
      BY <1>3, <2>3, <3>1 DEF ExpansionInvariant, PassedIsCovered, P
    <3>3. target \in P
      <4>1. Code(f)[i] \in Instruction
        <5>1. Code(f) \in Seq(Instruction)
          BY <1>3, WalkFacts DEF P
        <5> QED BY <5>1, ElementOfSeq
      <4>2. IsChunk(chunk)
        BY <1>5 DEF SearchInvariant, TypeOK
      <4> QED BY <3>2, <4>1, <4>2, ClosureFacts DEF P
    <3> HIDE DEF target
    <3>4. /\ occurrences'[target] \in Nat /\ occurrences'[target] >= occurrences[target]
          /\ depths'[target] \in Nat /\ depths'[target] >= depths[target]
          /\ depths'[target] = depths[target] \/ depths'[target] = depth
          /\ occurrences[target] \in Nat /\ depths[target] \in Nat /\ occurrences[f] \in Nat
      BY <1>5, <1>12, <3>3
    <3>5. /\ occurrences'[target] >= occurrences'[f]
          /\ depths'[target] > depths'[f]
          /\ depths'[target] <= MaxDepth
      BY <1>9, <1>10, <2>1, <2>3, <3>2, <3>4, SMTT(30)
    <3> QED BY <3>2, <3>3, <3>5 DEF target
  <2> QED BY <2>4, <2>5
<1>26. CountsAreReal'
  <2>1. \A p \in P : /\ occurrences[p] <= Instantiations(chunk)[p]
                     /\ occurrences[p] > 0 => depths[p] > 0
                     /\ depths[p] > 0 => /\ depths[p] <= n
                                         /\ PathCounts(chunk)[depths[p] - 1][p] > 0
                     /\ ~ (depths[p] > MaxDepth)
    BY <1>3 DEF ExpansionInvariant, CountsAreReal, P, n
  <2>2. ASSUME NEW p \in P
        PROVE  /\ occurrences'[p] <= Instantiations(chunk)[p]
               /\ occurrences'[p] > 0 => depths'[p] > 0
               /\ depths'[p] > 0 => /\ depths'[p] <= n
                                    /\ PathCounts(chunk)[depths'[p] - 1][p] > 0
    <3>1. CASE p # child
      BY <1>12, <2>1, <3>1
    <3>2. CASE p = child
      <4>1. occurrences'[p] = sum /\ depths'[p] = depth
        BY <1>12, <3>2
      <4>2. depth > 0
        BY <1>9, <1>10
      <4>3. depth <= n /\ PathCounts(chunk)[depth - 1][p] > 0
        <5>1. CASE depth = depths[child]
          BY <2>1, <3>2, <4>2, <5>1
        <5>2. CASE depth = depths[current] + 1
          <6>1. depth - 1 = depths[current]
            BY <1>9, <5>2
          <6> QED BY <1>9, <3>2, <5>2, <6>1
        <5> QED BY <1>10, <5>1, <5>2
      <4> QED BY <1>6, <3>2, <4>1, <4>2, <4>3
    <3> QED BY <3>1, <3>2
  <2>3. plan' = "too_deep" <=> \E p \in P : depths'[p] > MaxDepth
    BY <1>3, <1>7, <1>12, <2>1
  <2> QED BY <1>1, <2>2, <2>3 DEF CountsAreReal, P, n
<1> QED BY <1>1, <1>20, <1>21, <1>22, <1>23, <1>24, <1>25, <1>26 DEF ExpansionInvariant

-----------------------------------------------------------------------------
(* The invariant holds before the first step.                              *)
LEMMA ExpansionStart ==
  ASSUME ExpansionInit
  PROVE  ExpansionInvariant
<1>1. /\ chunk \in Chunks /\ postorder = <<>> /\ result = "running"
      /\ budget \in Budgets /\ position = 0 /\ cursor = 0 /\ instances = 0 /\ instructions = 0
      /\ plan = "idle"
      /\ occurrences = [p \in Prototypes(chunk) |-> 0]
      /\ depths = [p \in Prototypes(chunk) |-> 0]
  BY DEF ExpansionInit, Init
<1>2. SearchInvariant /\ TypeOK
  BY SearchInit DEF ExpansionInit, SearchInvariant
<1>3. MaxUsize \in Nat /\ MaxDepth \in Nat /\ budget \in 0 .. MaxUsize
  BY <1>1, BoundsAssumption
<1>4. ExpansionTypeOK
  <2>1. 0 \in 0 .. MaxUsize /\ 0 \in 0 .. MaxDepth + 1 /\ 0 \in 0 .. Len(postorder)
    BY <1>1, <1>3
  <2> QED BY <1>1, <1>2, <2>1 DEF ExpansionTypeOK, Plans
<1>5. WalkIsInOrder
  BY <1>1 DEF WalkIsInOrder, Scanning
<1>6. ClosuresAreCounted /\ UseStartsAtMain /\ PassedIsCovered /\ CountsAreReal
  BY <1>1 DEF ClosuresAreCounted, UseStartsAtMain, PassedIsCovered, CountsAreReal
<1>7. InstancesAreCharged
  BY <1>1, <1>3 DEF InstancesAreCharged
<1> QED BY <1>2, <1>4, <1>5, <1>6, <1>7 DEF ExpansionInvariant

(* A step that changes nothing keeps the invariant.                        *)
LEMMA ExpansionStutter ==
  ASSUME ExpansionInvariant, UNCHANGED <<graphVars, expansionVars>>
  PROVE  ExpansionInvariant'
<1>1. /\ chunk' = chunk /\ postorder' = postorder /\ result' = result /\ states' = states
      /\ stack' = stack /\ root' = root
      /\ budget' = budget /\ position' = position /\ cursor' = cursor /\ occurrences' = occurrences
      /\ depths' = depths /\ instances' = instances /\ instructions' = instructions /\ plan' = plan
  BY DEF graphVars, expansionVars
<1>2. UNCHANGED graphVars
  OBVIOUS
<1>3. SearchInvariant' /\ TypeOK' /\ PrototypeOrder' = PrototypeOrder
  BY <1>2, SameGraph DEF ExpansionInvariant, SearchInvariant
<1>4. \A f : /\ PlaceOf(f)' = PlaceOf(f) /\ Code(f)' = Code(f) /\ PassedOf(f)' = PassedOf(f)
  BY <1>1, <1>3 DEF PlaceOf, Code, PassedOf
<1>5. ExpansionTypeOK'
  BY <1>1, <1>3 DEF ExpansionInvariant, ExpansionTypeOK
<1>6. WalkIsInOrder'
  BY <1>1, <1>3, <1>4 DEF ExpansionInvariant, WalkIsInOrder, Scanning, Current, Code
<1>7. ClosuresAreCounted'
  <2>1. \A p : CountedInto(p)' = CountedInto(p)
    BY <1>1, <1>4 DEF CountedInto, EdgesPassed
  <2> QED BY <1>1, <2>1 DEF ExpansionInvariant, ClosuresAreCounted
<1>8. InstancesAreCharged'
  <2>1. ChargedInstances' = ChargedInstances /\ ChargedInstructions' = ChargedInstructions
    BY <1>1, <1>4 DEF ChargedInstances, ChargedInstructions, Expanded
  <2> QED BY <1>1, <2>1 DEF ExpansionInvariant, InstancesAreCharged
<1>9. UseStartsAtMain' /\ CountsAreReal'
  BY <1>1, <1>4 DEF ExpansionInvariant, UseStartsAtMain, CountsAreReal
<1>10. PassedIsCovered'
  BY <1>1, <1>4 DEF ExpansionInvariant, PassedIsCovered
<1> QED BY <1>3, <1>5, <1>6, <1>7, <1>8, <1>9, <1>10 DEF ExpansionInvariant

(* Every step of the search and of the walk keeps the invariant.           *)
LEMMA ExpansionStep ==
  ASSUME ExpansionInvariant, [ExpansionNext]_<<graphVars, expansionVars>>
  PROVE  ExpansionInvariant'
<1>1. CASE UNCHANGED <<graphVars, expansionVars>>
  BY <1>1, ExpansionStutter
<1>2. CASE Next /\ UNCHANGED expansionVars
  BY <1>2, SearchKeepsExpansion
<1>3. ASSUME Plan, UNCHANGED graphVars PROVE ExpansionInvariant'
  BY <1>3, PlanStep
<1>4. ASSUME SkipUnused, UNCHANGED graphVars PROVE ExpansionInvariant'
  BY <1>4, SkipUnusedStep
<1>5. ASSUME Charge, UNCHANGED graphVars PROVE ExpansionInvariant'
  BY <1>5, ChargeStep
<1>6. ASSUME PassInstruction, UNCHANGED graphVars PROVE ExpansionInvariant'
  BY <1>6, PassInstructionStep
<1>7. ASSUME RejectClosure \/ AcceptPlan, UNCHANGED graphVars PROVE ExpansionInvariant'
  BY <1>7, EndStep
<1>8. ASSUME CountClosure, UNCHANGED graphVars PROVE ExpansionInvariant'
  BY <1>8, CountClosureStep
<1> QED BY <1>1, <1>2, <1>3, <1>4, <1>5, <1>6, <1>7, <1>8 DEF ExpansionNext, Walk

-----------------------------------------------------------------------------
(* When the walk has passed all code, the occurrences follow the closures  *)
(* of every prototype.                                                     *)
LEMMA PlanFollowsEdges ==
  ASSUME ExpansionInvariant, plan = "planned"
  PROVE  FollowsEdges(occurrences, EdgeCounts(chunk), chunk.main, chunk.count)
<1> DEFINE P == Prototypes(chunk)
           n == chunk.count
<1>1. /\ n \in Nat /\ P = 0 .. n - 1 /\ result = "accepted" /\ SearchInvariant
      /\ \A f \in P : occurrences[f] \in Nat /\ Len(Code(f)) \in Nat
  BY WalkFacts
<1>2. \A f \in P : PassedOf(f) = Len(Code(f))
  <2> SUFFICES ASSUME NEW f \in P PROVE PassedOf(f) = Len(Code(f))
    OBVIOUS
  <2>1. /\ PlaceOf(f) \in 1 .. Len(postorder) /\ PrototypeOrder[PlaceOf(f)] = f
        /\ Len(postorder) \in Nat
    BY <1>1, OrderFacts
  <2>2. position = Len(postorder) /\ (position > 0 => cursor = Len(Code(Current)))
    BY DEF ExpansionInvariant, WalkIsInOrder
  <2>3. CASE PlaceOf(f) = position
    <3>1. Current = f /\ position > 0
      BY <2>1, <2>3 DEF Current
    <3> QED BY <2>1, <2>2, <2>3, <3>1 DEF PassedOf
  <2>4. CASE PlaceOf(f) # position
    BY <2>1, <2>2, <2>4 DEF PassedOf
  <2> QED BY <2>3, <2>4
<1>3. ASSUME NEW q \in P
      PROVE  Total(CountedInto(q), n) = Total(Entering(EdgeCounts(chunk), occurrences, q, n), n)
  <2> DEFINE into == CountedInto(q)
             entering == Entering(EdgeCounts(chunk), occurrences, q, n)
  <2>1. \A f \in P : into[f] \in Nat /\ into[f] = occurrences[f] * EdgesPassed(f, q, PassedOf(f))
    BY CountedIntoFacts
  <2>2. \A f \in P : EdgesPassed(f, q, PassedOf(f)) = Edges(chunk, f, q)
    BY <1>1, <1>2, EdgesFacts
  <2>3. \A f \in P : entering[f] = occurrences[f] * Edges(chunk, f, q)
    BY <1>1 DEF Entering, EdgeCounts
  <2> HIDE DEF into, entering
  <2>4. \A f \in 0 .. n - 1 : into[f] \in Int /\ into[f] = entering[f]
    BY <1>1, <2>1, <2>2, <2>3
  <2>5. Total(into, n) = Total(entering, n)
    BY <1>1, <2>4, TotalEqual
  <2> QED BY <2>5 DEF into, entering
<1>4. \A q \in P : occurrences[q] = (IF q = chunk.main THEN 1 ELSE 0) + Total(CountedInto(q), n)
  BY DEF ExpansionInvariant, ClosuresAreCounted
<1> QED BY <1>1, <1>3, <1>4 DEF FollowsEdges

(* In an acyclic graph only one family of counts follows the edges.        *)
LEMMA CountsAreUnique ==
  ASSUME NEW n \in Nat, NEW m, NEW edges, NEW rank, NEW start, NEW few, NEW many,
         IsGraph(edges, start, n), IsRanked(edges, rank, n),
         FollowsEdges(few, edges, m, n), FollowsEdges(many, edges, m, n)
  PROVE  \A q \in 0 .. n - 1 : few[q] = many[q]
<1> DEFINE T == {k \in Nat : \E q \in 0 .. n - 1 : rank[q] = k /\ few[q] # many[q]}
<1> SUFFICES ASSUME T # {} PROVE FALSE
  <2>1. \A q \in 0 .. n - 1 : rank[q] \in Nat
    BY DEF IsRanked
  <2> QED BY <2>1
<1>1. PICK k \in T : \A j \in T : k <= j
  <2>1. T \subseteq Nat
    OBVIOUS
  <2> HIDE DEF T
  <2> QED BY <2>1, LeastNatural
<1>2. PICK q \in 0 .. n - 1 : rank[q] = k /\ few[q] # many[q]
  OBVIOUS
<1> DEFINE a == Entering(edges, few, q, n)
           b == Entering(edges, many, q, n)
<1>3. ASSUME NEW f \in 0 .. n - 1
      PROVE  a[f] \in Int /\ a[f] = b[f]
  <2>1. a[f] = few[f] * edges[f][q] /\ b[f] = many[f] * edges[f][q]
    BY DEF Entering
  <2>2. few[f] \in Nat /\ many[f] \in Nat /\ edges[f][q] \in Nat
    BY DEF FollowsEdges, IsGraph
  <2>3. \A x, y \in Nat : x * y \in Int /\ (y = 0 => x * y = 0)
    OBVIOUS
  <2>4. CASE edges[f][q] = 0
    <3> HIDE DEF a, b
    <3> QED BY <2>1, <2>2, <2>3, <2>4
  <2>5. CASE edges[f][q] # 0
    <3>1. rank[f] < rank[q] /\ rank[f] \in Nat
      BY <2>5 DEF IsRanked
    <3>2. rank[f] \notin T
      BY <1>1, <1>2, <3>1
    <3>3. few[f] = many[f]
      BY <3>1, <3>2
    <3> HIDE DEF a, b, T
    <3> QED BY <2>1, <2>2, <2>3, <3>3
  <2> QED BY <2>4, <2>5
<1>4. Total(a, n) = Total(b, n)
  <2> HIDE DEF a, b
  <2> QED BY <1>3, TotalEqual
<1> QED BY <1>2, <1>4 DEF FollowsEdges

(* One walk in prototype order counts every path of the expansion tree.    *)
LEMMA CountsAreExact ==
  ASSUME ExpansionInvariant, plan = "planned"
  PROVE  /\ occurrences = Instantiations(chunk)
         /\ instances = AllInstantiations(chunk)
         /\ instructions = AllExpanded(chunk)
<1> DEFINE P == Prototypes(chunk)
           n == chunk.count
           exact == Instantiations(chunk)
<1>1. /\ n \in Nat /\ P = 0 .. n - 1 /\ result = "accepted" /\ SearchInvariant
      /\ \A f \in P : occurrences[f] \in Nat /\ Len(Code(f)) \in Nat
  BY WalkFacts
<1>2. /\ FollowsEdges(exact, EdgeCounts(chunk), chunk.main, n)
      /\ exact = [p \in P |-> exact[p]]
  BY <1>1, InstantiationsFacts
<1>3. \A f \in P : occurrences[f] = exact[f]
  <2>1. IsGraph(EdgeCounts(chunk), OnlyMain(chunk), n) /\ IsRanked(EdgeCounts(chunk), Place, n)
    BY <1>1, ChunkIsGraph
  <2>2. FollowsEdges(occurrences, EdgeCounts(chunk), chunk.main, n)
    BY PlanFollowsEdges
  <2> QED BY <1>1, <1>2, <2>1, <2>2, CountsAreUnique
<1>4. occurrences = exact
  <2>1. occurrences = [p \in P |-> occurrences[p]]
    BY DEF ExpansionInvariant, ExpansionTypeOK
  <2> HIDE DEF exact
  <2> QED BY <1>2, <1>3, <2>1
<1>5. \A f \in P : PlaceOf(f) <= position
  <2>1. position = Len(postorder)
    BY DEF ExpansionInvariant, WalkIsInOrder
  <2> QED BY <1>1, <2>1, OrderFacts
<1>6. instances = Total(ChargedInstances, n) /\ instructions = Total(ChargedInstructions, n)
  BY DEF ExpansionInvariant, InstancesAreCharged
<1>7. Total(ChargedInstances, n) = Total(exact, n)
  <2>1. \A f \in P : ChargedInstances[f] = occurrences[f]
    BY <1>5 DEF ChargedInstances
  <2> HIDE DEF exact
  <2>2. \A f \in 0 .. n - 1 : ChargedInstances[f] \in Int /\ ChargedInstances[f] = exact[f]
    BY <1>1, <1>3, <2>1
  <2> QED BY <1>1, <2>2, TotalEqual
<1>8. Total(ChargedInstructions, n) = AllExpanded(chunk)
  <2> DEFINE all == [g \in P |-> exact[g] * Len(chunk.functions[g].code)]
  <2>1. \A f \in P : ChargedInstructions[f] = Len(Code(f)) * occurrences[f]
    BY <1>5 DEF ChargedInstructions, Expanded
  <2>2. \A f \in P : all[f] = occurrences[f] * Len(Code(f))
    BY <1>3 DEF Code
  <2>3. \A a, b \in Nat : a * b = b * a /\ a * b \in Int
    OBVIOUS
  <2>4. Total(all, n) = AllExpanded(chunk)
    BY DEF AllExpanded
  <2> HIDE DEF all, exact
  <2>5. \A f \in 0 .. n - 1 : ChargedInstructions[f] \in Int /\ ChargedInstructions[f] = all[f]
    BY <1>1, <2>1, <2>2, <2>3
  <2> QED BY <1>1, <2>4, <2>5, TotalEqual
<1> QED BY <1>4, <1>6, <1>7, <1>8 DEF AllInstantiations

(* Whatever has been charged at some point is part of the full expansion.  *)
LEMMA ChargedIsReal ==
  ASSUME ExpansionInvariant, plan # "idle"
  PROVE  /\ instances \in Nat /\ instances <= AllInstantiations(chunk)
         /\ instructions \in Nat /\ instructions <= AllExpanded(chunk)
         /\ AllInstantiations(chunk) \in Int /\ AllExpanded(chunk) \in Int
<1> DEFINE P == Prototypes(chunk)
           n == chunk.count
           exact == Instantiations(chunk)
           all == [g \in P |-> exact[g] * Len(chunk.functions[g].code)]
<1>1. /\ n \in Nat /\ P = 0 .. n - 1 /\ result = "accepted" /\ SearchInvariant
      /\ \A f \in P : occurrences[f] \in Nat /\ Len(Code(f)) \in Nat
  BY WalkFacts
<1>2. \A f \in P : exact[f] \in Nat /\ occurrences[f] <= exact[f]
  BY <1>1, InstantiationsFacts DEF ExpansionInvariant, CountsAreReal
<1>3. /\ instances = Total(ChargedInstances, n) /\ instructions = Total(ChargedInstructions, n)
      /\ instances \in Nat /\ instructions \in Nat
  BY DEF ExpansionInvariant, InstancesAreCharged, ExpansionTypeOK
<1>4. \A a, b, c \in Nat : a * b \in Nat /\ (b <= c => a * b <= c * a)
  OBVIOUS
<1>5. \A f \in P : all[f] = exact[f] * Len(Code(f))
  BY DEF Code
<1>6. \A f \in P : ChargedInstances[f] = IF PlaceOf(f) <= position THEN occurrences[f] ELSE 0
  BY DEF ChargedInstances
<1>7. \A f \in P :
         ChargedInstructions[f] = IF PlaceOf(f) <= position THEN Len(Code(f)) * occurrences[f] ELSE 0
  BY DEF ChargedInstructions, Expanded
<1>8. Total(all, n) = AllExpanded(chunk) /\ Total(exact, n) = AllInstantiations(chunk)
  BY DEF AllExpanded, AllInstantiations
<1> HIDE DEF exact, all
<1>9. \A f \in 0 .. n - 1 :
         ChargedInstances[f] \in Int /\ exact[f] \in Int /\ ChargedInstances[f] <= exact[f]
  BY <1>1, <1>2, <1>6
<1>10. ASSUME NEW f \in 0 .. n - 1
       PROVE  ChargedInstructions[f] \in Int /\ all[f] \in Int /\ ChargedInstructions[f] <= all[f]
  <2> DEFINE a == Len(Code(f))
             b == occurrences[f]
             c == exact[f]
  <2>1. a \in Nat /\ b \in Nat /\ c \in Nat /\ b <= c
    BY <1>1, <1>2
  <2>2. all[f] = c * a /\ ChargedInstructions[f] = IF PlaceOf(f) <= position THEN a * b ELSE 0
    BY <1>1, <1>5, <1>7
  <2> HIDE DEF a, b, c
  <2>3. a * b \in Nat /\ c * a \in Nat /\ a * b <= c * a
    BY <1>4, <2>1
  <2> QED BY <2>2, <2>3
<1>11. /\ Total(ChargedInstances, n) <= Total(exact, n)
       /\ Total(ChargedInstructions, n) <= Total(all, n)
       /\ Total(exact, n) \in Int /\ Total(all, n) \in Int
  BY <1>1, <1>9, <1>10, TotalMonotonic, TotalInt
<1> QED BY <1>3, <1>8, <1>11

(* The closures counted into a planned prototype are instructions that     *)
(* were charged.                                                           *)
LEMMA CountsAreCharged ==
  ASSUME ExpansionInvariant, plan = "planned", NEW p \in Prototypes(chunk)
  PROVE  occurrences[p] <= instructions + 1
<1> DEFINE P == Prototypes(chunk)
           n == chunk.count
           into == CountedInto(p)
           paid == ChargedInstructions
<1>1. /\ n \in Nat /\ P = 0 .. n - 1 /\ result = "accepted" /\ SearchInvariant
      /\ \A f \in P : /\ occurrences[f] \in Nat /\ Len(Code(f)) \in Nat
                      /\ EdgesPassed(f, p, PassedOf(f)) \in 0 .. Len(Code(f))
  BY WalkFacts
<1>2. \A f \in P : PlaceOf(f) <= position
  <2>1. position = Len(postorder)
    BY DEF ExpansionInvariant, WalkIsInOrder
  <2> QED BY <1>1, <2>1, OrderFacts
<1>3. /\ \A f \in P : into[f] = occurrences[f] * EdgesPassed(f, p, PassedOf(f))
      /\ Total(into, n) \in Int
  BY CountedIntoFacts
<1>4. \A f \in P : paid[f] = Len(Code(f)) * occurrences[f]
  BY <1>2 DEF ChargedInstructions, Expanded
<1>5. /\ instructions = Total(paid, n)
      /\ occurrences[p] = (IF p = chunk.main THEN 1 ELSE 0) + Total(into, n)
  BY DEF ExpansionInvariant, InstancesAreCharged, ClosuresAreCounted
<1>6. \A a, b, c \in Nat : a * b \in Nat /\ (b <= c => a * b <= c * a)
  OBVIOUS
<1> HIDE DEF into, paid
<1>7. ASSUME NEW f \in 0 .. n - 1
      PROVE  into[f] \in Int /\ paid[f] \in Int /\ into[f] <= paid[f]
  <2> DEFINE a == occurrences[f]
             b == EdgesPassed(f, p, PassedOf(f))
             c == Len(Code(f))
  <2>1. a \in Nat /\ b \in Nat /\ c \in Nat /\ b <= c /\ into[f] = a * b /\ paid[f] = c * a
    BY <1>1, <1>3, <1>4
  <2> HIDE DEF a, b, c
  <2>2. a * b \in Nat /\ c * a \in Nat /\ a * b <= c * a
    BY <1>6, <2>1
  <2> QED BY <2>1, <2>2
<1>8. Total(into, n) <= Total(paid, n) /\ Total(paid, n) \in Int
  BY <1>1, <1>7, TotalMonotonic, TotalInt
<1> QED BY <1>3, <1>5, <1>8

(* The invariant of the search and of the walk holds in every run of       *)
(* validate_prototype_graph followed by validate_expansion_budget.         *)
THEOREM ExpansionInvariantHolds == ExpansionSpec => []ExpansionInvariant
<1>1. ExpansionInit => ExpansionInvariant
  BY ExpansionStart
<1>2. ExpansionInvariant /\ [ExpansionNext]_<<graphVars, expansionVars>> => ExpansionInvariant'
  BY ExpansionStep
<1> QED BY <1>1, <1>2, PTL DEF ExpansionSpec

(* The counters of the walk hold usize values as long as it goes on: the   *)
(* checked additions of validate_expansion_budget keep them there.         *)
THEOREM ExpansionTypeCorrect == ExpansionSpec => []ExpansionTypeOK
<1>1. ExpansionInvariant => ExpansionTypeOK
  BY DEF ExpansionInvariant
<1> QED BY <1>1, ExpansionInvariantHolds, PTL

(* When the walk is over, every closure is counted and every prototype     *)
(* charged, so that the counts solve the equations of the full expansion.  *)
LEMMA InvariantGivesExactPlan == ExpansionInvariant => PlanIsExact
<1> SUFFICES ASSUME ExpansionInvariant, plan = "planned"
             PROVE  /\ occurrences = Instantiations(chunk)
                    /\ instances = AllInstantiations(chunk)
                    /\ instructions = AllExpanded(chunk)
                    /\ instances <= budget /\ instructions <= budget
  BY DEF PlanIsExact
<1>1. instances <= budget /\ instructions <= budget
  BY DEF ExpansionInvariant, InstancesAreCharged
<1> QED BY <1>1, CountsAreExact

(* The single walk of validate_expansion_budget in prototype order counts  *)
(* exactly the instances and the instructions of the full expansion tree,  *)
(* and a chunk it plans keeps both within the size of its input.           *)
THEOREM PlanCountsEveryPath == ExpansionSpec => []PlanIsExact
BY ExpansionInvariantHolds, InvariantGivesExactPlan, PTL

(* What was charged so far is part of the full expansion, and a depth is   *)
(* the length of a chain that exists.                                      *)
LEMMA InvariantGivesJustifiedRefusal == ExpansionInvariant => RefusalIsJustified
<1> SUFFICES ASSUME ExpansionInvariant PROVE RefusalIsJustified
  OBVIOUS
<1>1. ASSUME plan \in {"overflow", "over_budget"}
      PROVE  AllInstantiations(chunk) > budget \/ AllExpanded(chunk) > budget
  <2>1. budget \in Nat /\ budget <= MaxUsize /\ MaxUsize \in Nat
    BY <1>1, WalkFacts
  <2>2. /\ instances \in Nat /\ instances <= AllInstantiations(chunk)
        /\ instructions \in Nat /\ instructions <= AllExpanded(chunk)
        /\ AllInstantiations(chunk) \in Int /\ AllExpanded(chunk) \in Int
    BY <1>1, ChargedIsReal
  <2>3. instances > budget \/ instructions > budget
    BY <1>1, <2>1, <2>2 DEF ExpansionInvariant, InstancesAreCharged
  <2> QED BY <2>1, <2>2, <2>3
<1>2. ASSUME plan = "too_deep"
      PROVE  \E n \in MaxDepth .. chunk.count : \E g \in Prototypes(chunk) : PathCounts(chunk)[n][g] > 0
  <2>1. PICK p \in Prototypes(chunk) : depths[p] > MaxDepth
    BY <1>2 DEF ExpansionInvariant, CountsAreReal
  <2>2. MaxDepth \in Nat /\ chunk.count \in Nat /\ depths[p] \in Nat
    BY <1>2, WalkFacts, BoundsAssumption
  <2>3. depths[p] <= chunk.count /\ PathCounts(chunk)[depths[p] - 1][p] > 0
    BY <1>2, <2>1, <2>2 DEF ExpansionInvariant, CountsAreReal
  <2>4. depths[p] - 1 \in MaxDepth .. chunk.count
    BY <2>1, <2>2, <2>3
  <2> QED BY <2>3, <2>4
<1> QED BY <1>1, <1>2 DEF RefusalIsJustified

(* No chunk is refused for its size unless its full expansion is larger    *)
(* than its input, whichever sum overflowed, and none for its depth unless *)
(* a chain of closures that begins at main is as long.                     *)
THEOREM RefusalsAreJustified == ExpansionSpec => []RefusalIsJustified
BY ExpansionInvariantHolds, InvariantGivesJustifiedRefusal, PTL

(* An occurrence is paid for by an instruction of the parent, but for      *)
(* main's.                                                                 *)
LEMMA InvariantGivesChargedOverflow == ExpansionInvariant => OverflowIsCharged
<1> SUFFICES ASSUME ExpansionInvariant PROVE OverflowIsCharged
  OBVIOUS
<1>1. plan = "overflow" => instances > MaxUsize \/ instructions > MaxUsize
  BY DEF ExpansionInvariant, InstancesAreCharged
<1> QED BY <1>1, CountsAreCharged DEF OverflowIsCharged

(* The checked additions of the closure loop never fail: what they add up  *)
(* is part of what the charge of the prototypes has added up before.       *)
THEOREM OnlyTheChargeOverflows == ExpansionSpec => []OverflowIsCharged
BY ExpansionInvariantHolds, InvariantGivesChargedOverflow, PTL

(* When the walk is over, every closure was passed.                        *)
LEMMA InvariantGivesCoverage == ExpansionInvariant => PlanCoversClosures
<1> SUFFICES ASSUME ExpansionInvariant, plan = "planned",
                    NEW f \in Prototypes(chunk), NEW i \in 1 .. Len(Code(f)),
                    occurrences[f] > 0, IsClosure(Code(f)[i])
             PROVE  /\ ValidClosure(chunk, f, Code(f)[i])
                    /\ LET child == ClosureChild(chunk, f, Code(f)[i])
                       IN  /\ occurrences[child] >= occurrences[f]
                           /\ depths[child] > depths[f]
                           /\ depths[child] <= MaxDepth
  BY DEF PlanCoversClosures
<1>1. SearchInvariant /\ result = "accepted"
  BY WalkFacts
<1>2. PlaceOf(f) <= position
  <2>1. position = Len(postorder)
    BY DEF ExpansionInvariant, WalkIsInOrder
  <2> QED BY <1>1, <2>1, OrderFacts
<1>3. PassedOf(f) = Len(Code(f))
  <2>1. PlaceOf(f) = position => Current = f /\ position > 0
    BY <1>1, OrderFacts DEF Current
  <2>2. position > 0 => cursor = Len(Code(Current))
    BY DEF ExpansionInvariant, WalkIsInOrder
  <2>3. PlaceOf(f) \in Nat /\ position \in Nat
    <3>1. PlaceOf(f) \in 1 .. Len(postorder) /\ position \in 0 .. Len(postorder)
      BY <1>1, OrderFacts DEF ExpansionInvariant, ExpansionTypeOK
    <3> QED BY <3>1
  <2> QED BY <1>2, <2>1, <2>2, <2>3 DEF PassedOf
<1>4. i <= PassedOf(f)
  BY <1>3
<1> QED BY <1>4 DEF ExpansionInvariant, PassedIsCovered

(* A planned chunk has no dangling closure in a prototype that main        *)
(* reaches, and its depths grow along every chain up to MaxDepth.          *)
THEOREM PlanCoversEveryClosure == ExpansionSpec => []PlanCoversClosures
BY ExpansionInvariantHolds, InvariantGivesCoverage, PTL
=============================================================================
