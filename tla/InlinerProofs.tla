---------------------------- MODULE InlinerProofs ----------------------------
(***************************************************************************)
(* Proofs about the inliner, for every block and every case it may be      *)
(* called with.  Whatever it moves and sweeps, calls are neither lost nor  *)
(* made twice, the usages remain upper bounds of the uses, and the change  *)
(* it reports is one.                                                      *)
(*                                                                         *)
(* All three compare how often tokens occur: a move takes one read away    *)
(* and every other token along, a sweep only takes away tokens without     *)
(* effects and the locals results are assigned to.  The second part is     *)
(* about what a block does when it runs.                                   *)
(***************************************************************************)
EXTENDS Inliner, SequenceTheorems

(* How many tokens of a kind an expression has.                            *)
Count(code, T) == Cardinality({i \in DOMAIN code : code[i] \in T})

(* There are finitely many, and no more than tokens.                       *)
LEMMA CountIsNatural ==
  ASSUME NEW S, NEW code \in Seq(S), NEW T
  PROVE  /\ IsFiniteSet({i \in DOMAIN code : code[i] \in T})
         /\ Count(code, T) \in Nat
         /\ Count(code, T) <= Len(code)
<1>1. DOMAIN code = 1 .. Len(code) /\ Len(code) \in Nat /\ 1 \in Int
  OBVIOUS
<1>2. IsFiniteSet(1 .. Len(code)) /\ Cardinality(1 .. Len(code)) = Len(code)
  BY <1>1, FS_Interval
<1>3. {i \in DOMAIN code : code[i] \in T} \subseteq 1 .. Len(code)
  BY <1>1
<1> QED BY <1>2, <1>3, FS_Subset, FS_CardinalityType DEF Count

(* Expressions that follow each other.                                     *)
LEMMA CountJoined ==
  ASSUME NEW S, NEW a \in Seq(S), NEW b \in Seq(S), NEW T
  PROVE  Count(a \o b, T) = Count(a, T) + Count(b, T)
<1> DEFINE c == a \o b
           A == {i \in DOMAIN a : a[i] \in T}
           B == {i \in DOMAIN b : b[i] \in T}
           C == {i \in DOMAIN c : c[i] \in T}
           D == C \ A
           f == [i \in B |-> Len(a) + i]
<1>1. /\ c \in Seq(S) /\ Len(c) = Len(a) + Len(b) /\ Len(a) \in Nat /\ Len(b) \in Nat
      /\ DOMAIN c = 1 .. Len(a) + Len(b) /\ DOMAIN a = 1 .. Len(a) /\ DOMAIN b = 1 .. Len(b)
      /\ \A i \in 1 .. Len(a) : c[i] = a[i]
      /\ \A i \in 1 .. Len(b) : c[Len(a) + i] = b[i]
  OBVIOUS
<1>2. A \subseteq C
  BY <1>1
<1>3. D = {i \in DOMAIN c : i > Len(a) /\ c[i] \in T}
  BY <1>1
<1>4. f \in [B -> D]
  BY <1>1, <1>3
<1>5. \A x, y \in B : f[x] = f[y] => x = y
  BY <1>1
<1>6. ASSUME NEW d \in D
      PROVE  \E x \in B : f[x] = d
  <2>1. d - Len(a) \in 1 .. Len(b) /\ Len(a) + (d - Len(a)) = d /\ c[d] \in T
    BY <1>1, <1>3
  <2>2. d - Len(a) \in B
    BY <1>1, <2>1
  <2> QED BY <2>1, <2>2
<1>7. f \in Bijection(B, D)
  BY <1>4, <1>5, <1>6 DEF Bijection, Injection, Surjection, IsInjective
<1>8. IsFiniteSet(B) /\ IsFiniteSet(A) /\ IsFiniteSet(C) /\ Cardinality(A) \in Nat
      /\ Cardinality(B) \in Nat /\ Cardinality(C) \in Nat
  BY <1>1, CountIsNatural DEF Count
<1>9. Cardinality(B) = Cardinality(D)
  <2>1. ExistsBijection(B, D)
    BY <1>7 DEF ExistsBijection
  <2> HIDE DEF B, D
  <2> QED BY <1>8, <2>1, FS_Bijection
<1>10. Cardinality(C \ A) = Cardinality(C) - Cardinality(C \cap A)
  <2> HIDE DEF C, A
  <2> QED BY <1>8, FS_Difference
<1>11. C \cap A = A
  BY <1>2
<1>12. Cardinality(B) = Cardinality(C) - Cardinality(A)
  BY <1>9, <1>10, <1>11
<1> HIDE DEF A, B, C
<1>13. Cardinality(C) = Cardinality(A) + Cardinality(B)
  BY <1>8, <1>12
<1> QED BY <1>13 DEF Count, A, B, C

(* An expression of one token.                                             *)
LEMMA CountOne ==
  ASSUME NEW t, NEW T
  PROVE  Count(<<t>>, T) = IF t \in T THEN 1 ELSE 0
<1> DEFINE I == {i \in DOMAIN <<t>> : <<t>>[i] \in T}
<1>1. DOMAIN <<t>> = {1} /\ <<t>>[1] = t
  OBVIOUS
<1>2. CASE t \in T
  <2>1. I = {1}
    BY <1>1, <1>2
  <2> QED BY <1>2, <2>1, FS_Singleton DEF Count
<1>3. CASE t \notin T
  <2>1. I = {}
    BY <1>1, <1>3
  <2> QED BY <1>3, <2>1, FS_EmptySet DEF Count
<1> QED BY <1>2, <1>3

(* An expression without tokens.                                           *)
LEMMA CountNone ==
  ASSUME NEW T
  PROVE  Count(<<>>, T) = 0
<1>1. {i \in DOMAIN <<>> : <<>>[i] \in T} = {}
  OBVIOUS
<1> QED BY <1>1, FS_EmptySet DEF Count

(* All tokens of an expression.                                            *)
LEMMA CountAll ==
  ASSUME NEW S, NEW code \in Seq(S)
  PROVE  Count(code, S) = Len(code)
<1>1. {i \in DOMAIN code : code[i] \in S} = 1 .. Len(code) /\ Len(code) \in Nat
  OBVIOUS
<1>2. PICK n : n = Len(code)
  OBVIOUS
<1>3. n \in Nat /\ n \in Int /\ 1 \in Int
  BY <1>1, <1>2
<1>4. Cardinality(1 .. n) = n
  BY <1>3, FS_Interval
<1> QED BY <1>1, <1>2, <1>4 DEF Count

-----------------------------------------------------------------------------
(* An expression a value is inlined into.                                  *)

(* It is cut at a token.                                                   *)
LEMMA CutAt ==
  ASSUME NEW S, NEW code \in Seq(S), NEW i \in 1 .. Len(code)
  PROVE  /\ SubSeq(code, 1, i - 1) \in Seq(S) /\ SubSeq(code, i + 1, Len(code)) \in Seq(S)
         /\ SubSeq(code, i, Len(code)) = <<code[i]>> \o SubSeq(code, i + 1, Len(code))
         /\ code = SubSeq(code, 1, i - 1) \o SubSeq(code, i, Len(code))
<1> DEFINE front == SubSeq(code, 1, i - 1)
           back == SubSeq(code, i + 1, Len(code))
           rest == SubSeq(code, i, Len(code))
<1>1. /\ front \in Seq(S) /\ Len(front) = i - 1
      /\ \A j \in 1 .. i - 1 : front[j] = code[j]
  OBVIOUS
<1>2. /\ back \in Seq(S) /\ Len(back) = Len(code) - i
      /\ \A j \in 1 .. Len(code) - i : back[j] = code[i + j]
  OBVIOUS
<1>3. /\ rest \in Seq(S) /\ Len(rest) = Len(code) - i + 1
      /\ \A j \in 1 .. Len(code) - i + 1 : rest[j] = code[i + j - 1]
  OBVIOUS
<1> HIDE DEF front, back, rest
<1>4. rest = <<code[i]>> \o back
  <2> DEFINE joined == <<code[i]>> \o back
  <2>0. <<code[i]>> \in Seq(S) /\ Len(<<code[i]>>) = 1
    OBVIOUS
  <2>1. joined \in Seq(S) /\ Len(joined) = Len(code) - i + 1
    <3>1. \A a, b \in Seq(S) : a \o b \in Seq(S) /\ Len(a \o b) = Len(a) + Len(b)
      OBVIOUS
    <3>2. joined \in Seq(S) /\ Len(joined) = 1 + (Len(code) - i)
      BY <1>2, <2>0, <3>1
    <3> QED BY <3>2
  <2>2. \A j \in 1 .. Len(code) - i + 1 : joined[j] = code[i + j - 1]
    BY <1>2, <2>0
  <2> HIDE DEF joined
  <2>3. \A j \in 1 .. Len(rest) : rest[j] = joined[j]
    BY <1>3, <2>2
  <2>4. rest = joined
    BY <1>3, <2>1, <2>3
  <2> QED BY <2>4 DEF joined
<1>5. code = front \o rest
  <2> DEFINE joined == front \o rest
  <2>1. joined \in Seq(S) /\ Len(joined) = Len(code)
    BY <1>1, <1>3
  <2>2. \A j \in 1 .. Len(code) : joined[j] = code[j]
    <3> SUFFICES ASSUME NEW j \in 1 .. Len(code) PROVE joined[j] = code[j]
      OBVIOUS
    <3>1. CASE j <= i - 1
      <4>1. joined[j] = front[j]
        BY <1>1, <1>3, <3>1
      <4> QED BY <1>1, <3>1, <4>1
    <3>2. CASE ~ (j <= i - 1)
      <4>1. j - (i - 1) \in 1 .. Len(code) - i + 1 /\ i + (j - (i - 1)) - 1 = j
        BY <3>2
      <4>2. joined[j] = rest[j - (i - 1)]
        BY <1>1, <1>3, <3>2
      <4> QED BY <1>3, <4>1, <4>2
    <3> QED BY <3>1, <3>2
  <2> HIDE DEF joined
  <2>3. code = joined
    BY <2>1, <2>2
  <2> QED BY <2>3 DEF joined
<1> QED BY <1>1, <1>2, <1>4, <1>5 DEF front, back, rest

(* So does what stands in front of a token, anywhere before it.            *)
LEMMA CutBefore ==
  ASSUME NEW S, NEW code \in Seq(S), NEW i \in 1 .. Len(code), NEW start \in 1 .. i - 1
  PROVE  /\ SubSeq(code, 1, start - 1) \in Seq(S) /\ SubSeq(code, start, i - 1) \in Seq(S)
         /\ SubSeq(code, 1, i - 1) = SubSeq(code, 1, start - 1) \o SubSeq(code, start, i - 1)
<1> DEFINE whole == SubSeq(code, 1, i - 1)
<1>1. /\ whole \in Seq(S) /\ Len(whole) = i - 1 /\ start \in 1 .. Len(whole)
      /\ \A j \in 1 .. i - 1 : whole[j] = code[j]
  OBVIOUS
<1>2. /\ whole = SubSeq(whole, 1, start - 1) \o SubSeq(whole, start, Len(whole))
      /\ SubSeq(whole, 1, start - 1) \in Seq(S)
  <2> HIDE DEF whole
  <2> QED BY <1>1, CutAt
<1>3. SubSeq(whole, 1, start - 1) = SubSeq(code, 1, start - 1)
  <2> DEFINE a == SubSeq(whole, 1, start - 1)
             b == SubSeq(code, 1, start - 1)
  <2>1. a \in Seq(S) /\ Len(a) = start - 1 /\ \A j \in 1 .. start - 1 : a[j] = whole[j]
    <3> HIDE DEF whole
    <3> QED BY <1>1
  <2>2. b \in Seq(S) /\ Len(b) = start - 1 /\ \A j \in 1 .. start - 1 : b[j] = code[j]
    OBVIOUS
  <2> HIDE DEF a, b, whole
  <2>3. \A j \in 1 .. start - 1 : j \in 1 .. i - 1 /\ a[j] = b[j]
    BY <1>1, <2>1, <2>2
  <2>4. a = b
    BY <2>1, <2>2, <2>3
  <2> QED BY <2>4 DEF a, b
<1>4. SubSeq(whole, start, Len(whole)) = SubSeq(code, start, i - 1)
  <2> DEFINE a == SubSeq(whole, start, Len(whole))
             b == SubSeq(code, start, i - 1)
  <2>1. /\ a \in Seq(S) /\ Len(a) = i - start
        /\ \A j \in 1 .. i - start : a[j] = whole[start + j - 1]
    <3> HIDE DEF whole
    <3> QED BY <1>1
  <2>2. /\ b \in Seq(S) /\ Len(b) = i - start
        /\ \A j \in 1 .. i - start : b[j] = code[start + j - 1]
    OBVIOUS
  <2> HIDE DEF a, b, whole
  <2>3. \A j \in 1 .. i - start : a[j] = b[j]
    <3> SUFFICES ASSUME NEW j \in 1 .. i - start PROVE a[j] = b[j]
      OBVIOUS
    <3>1. start + j - 1 \in 1 .. i - 1
      OBVIOUS
    <3>2. a[j] = whole[start + j - 1] /\ b[j] = code[start + j - 1]
      BY <2>1, <2>2
    <3>3. whole[start + j - 1] = code[start + j - 1]
      BY <1>1, <3>1
    <3> QED BY <3>2, <3>3
  <2>4. a = b
    BY <2>1, <2>2, <2>3
  <2> QED BY <2>4 DEF a, b
<1>5. SubSeq(code, start, i - 1) \in Seq(S)
  OBVIOUS
<1> QED BY <1>2, <1>3, <1>4, <1>5 DEF whole

(* The first read of the local.                                            *)
LEMMA PositionFound ==
  ASSUME NEW code \in Seq(Token), NEW local \in ReadsIn(code)
  PROVE  /\ Position(code, local) \in 1 .. Len(code)
         /\ code[Position(code, local)].op = "read"
         /\ code[Position(code, local)].name = local
<1> DEFINE reads == {i \in DOMAIN code : code[i].op = "read" /\ code[i].name = local}
<1>1. reads # {} /\ reads \subseteq Nat /\ reads \subseteq 1 .. Len(code)
  BY DEF ReadsIn
<1>2. \E x \in reads : \A y \in reads : x <= y
  <2> HIDE DEF reads
  <2> QED BY <1>1, LeastNatural
<1>3. Min(reads) \in reads
  BY <1>2 DEF Min
<1> QED BY <1>1, <1>3 DEF Position

(* An operand that may begin somewhere begins in front of its end, at the  *)
(* last place where it may.                                                *)
LEMMA OperandFound ==
  ASSUME NEW code, NEW j \in Nat, OperandStarts(code, j) # {}
  PROVE  /\ Max(OperandStarts(code, j)) \in 1 .. j
         /\ Max(OperandStarts(code, j)) \in OperandStarts(code, j)
         /\ \A k \in OperandStarts(code, j) : Max(OperandStarts(code, j)) >= k
<1> DEFINE starts == OperandStarts(code, j)
           left == {j - x : x \in starts}
<1>1. starts # {} /\ starts \subseteq 1 .. j
  BY DEF OperandStarts
<1> HIDE DEF starts
<1>2. left # {} /\ left \subseteq Nat
  <2>1. \A x \in starts : x \in 1 .. j /\ j - x \in Nat
    BY <1>1
  <2> QED BY <1>1, <2>1
<1>3. PICK l \in left : \A k \in left : l <= k
  <2> HIDE DEF left
  <2> QED BY <1>2, LeastNatural
<1>4. PICK x \in starts : l = j - x
  BY <1>3
<1>5. \A y \in starts : j - y \in left /\ x \in 1 .. j /\ y \in 1 .. j
  BY <1>1
<1>6. \A y \in starts : x >= y
  BY <1>3, <1>4, <1>5
<1>7. Max(starts) \in starts /\ \A y \in starts : Max(starts) >= y
  BY <1>6 DEF Max
<1> QED BY <1>1, <1>7 DEF starts

(* The kinds of tokens that are counted do not tell a comparison from its  *)
(* converse.                                                               *)
IsKind(T) ==
    \A t \in Token : t.op \in {"compare", "converse"} => (t \in T <=> Flipped(t) \in T)

(* Counts of expressions that follow each other, and of each.              *)
LEMMA CountsOfTokens ==
  ASSUME NEW T
  PROVE  \A a, b \in Seq(Token) :
            /\ a \o b \in Seq(Token)
            /\ Count(a \o b, T) = Count(a, T) + Count(b, T)
            /\ Count(a, T) \in Nat
<1> SUFFICES ASSUME NEW a \in Seq(Token), NEW b \in Seq(Token)
             PROVE  /\ a \o b \in Seq(Token)
                    /\ Count(a \o b, T) = Count(a, T) + Count(b, T)
                    /\ Count(a, T) \in Nat
  OBVIOUS
<1>1. a \o b \in Seq(Token)
  OBVIOUS
<1>2. Count(a \o b, T) = Count(a, T) + Count(b, T)
  BY CountJoined
<1>3. Count(a, T) \in Nat
  BY CountIsNatural
<1> QED BY <1>1, <1>2, <1>3

(* The tokens of an expression and of a value inlined into it: all stay,   *)
(* but for the read the value replaces.                                    *)
LEMMA InlinedKeepsTokens ==
  ASSUME NEW code \in Seq(Token), NEW value \in Seq(Token), NEW local \in ReadsIn(code),
         NEW T, IsKind(T)
  PROVE  /\ Inlined(code, local, value) \in Seq(Token)
         /\ \E read \in Token :
               /\ read.op = "read" /\ read.name = local
               /\ Count(Inlined(code, local, value), T) =
                     Count(code, T) + Count(value, T) - (IF read \in T THEN 1 ELSE 0)
<1> DEFINE i == Position(code, local)
           front == SubSeq(code, 1, i - 1)
           back == SubSeq(code, i + 1, Len(code))
           one == IF code[i] \in T THEN 1 ELSE 0
<1>1. i \in 1 .. Len(code) /\ code[i].op = "read" /\ code[i].name = local
  BY PositionFound
<1> HIDE DEF i
<1>2. code[i] \in Token /\ Len(code) \in Nat
  BY <1>1
<1>3. /\ front \in Seq(Token) /\ back \in Seq(Token)
      /\ SubSeq(code, i, Len(code)) = <<code[i]>> \o back
      /\ code = front \o SubSeq(code, i, Len(code))
  BY <1>1, CutAt
<1>4. <<code[i]>> \in Seq(Token) /\ <<code[i]>> \o back \in Seq(Token)
  BY <1>2, <1>3
<1>5. one \in Int /\ Count(front, T) \in Nat /\ Count(back, T) \in Nat /\ Count(value, T) \in Nat
  <2>1. one \in Int
    OBVIOUS
  <2> HIDE DEF front, back, one
  <2> QED BY <1>3, <2>1, CountsOfTokens
<1> HIDE DEF front, back, one
<1>6. Count(code, T) = Count(front, T) + (one + Count(back, T))
  <2>1. Count(code, T) = Count(front, T) + Count(<<code[i]>> \o back, T)
    <3>1. PICK rest \in Seq(Token) : rest = <<code[i]>> \o back
      BY <1>4
    <3>2. code = front \o rest
      BY <1>3, <3>1
    <3>3. Count(front \o rest, T) = Count(front, T) + Count(rest, T)
      BY <1>3, CountsOfTokens
    <3> QED BY <3>1, <3>2, <3>3
  <2>2. Count(<<code[i]>> \o back, T) = Count(<<code[i]>>, T) + Count(back, T)
    BY <1>3, <1>4, CountsOfTokens
  <2>3. Count(<<code[i]>>, T) = one
    BY CountOne DEF one
  <2> QED BY <2>1, <2>2, <2>3
<1>7. \A result \in Seq(Token) :
         Count(result, T) = Count(front, T) + (Count(value, T) + Count(back, T)) =>
             Count(result, T) = Count(code, T) + Count(value, T) - one
  BY <1>5, <1>6
<1>8. CASE ~ Swaps(code, i)
  <2>1. Inlined(code, local, value) = (front \o value) \o back
    BY <1>8 DEF Inlined, i, front, back
  <2>2. front \o value \in Seq(Token) /\ (front \o value) \o back \in Seq(Token)
    BY <1>3
  <2>3. Count(front \o value, T) = Count(front, T) + Count(value, T)
    BY <1>3, CountsOfTokens
  <2>4. Count((front \o value) \o back, T) = Count(front \o value, T) + Count(back, T)
    BY <1>3, <2>2, CountsOfTokens
  <2>5. Count((front \o value) \o back, T) = Count(front, T) + (Count(value, T) + Count(back, T))
    BY <1>5, <2>3, <2>4
  <2>6. Count((front \o value) \o back, T) = Count(code, T) + Count(value, T) - one
    BY <1>7, <2>2, <2>5
  <2> QED BY <1>1, <1>2, <2>1, <2>2, <2>6 DEF one
<1>9. CASE Swaps(code, i)
  <2> DEFINE start == Max(OperandStarts(code, i - 1))
             before == SubSeq(code, 1, start - 1)
             operand == SubSeq(code, start, i - 1)
             comparison == code[i + 1]
             behind == SubSeq(code, i + 2, Len(code))
             flipped == <<Flipped(comparison)>>
  <2>1. /\ OperandStarts(code, i - 1) # {} /\ i < Len(code) /\ i + 1 \in 1 .. Len(code)
        /\ comparison.op \in {"compare", "converse"} /\ comparison \in Token
    BY <1>1, <1>9 DEF Swaps
  <2>2. start \in 1 .. i - 1
    <3>1. i - 1 \in Nat
      BY <1>1
    <3> QED BY <2>1, <3>1, OperandFound
  <2>3. Inlined(code, local, value) = (((before \o value) \o operand) \o flipped) \o behind
    BY <1>9 DEF Inlined, Place, i
  <2> HIDE DEF start
  <2>4. before \in Seq(Token) /\ operand \in Seq(Token) /\ front = before \o operand
    BY <1>1, <2>2, CutBefore DEF front
  <2>5. /\ behind \in Seq(Token)
        /\ back = <<comparison>> \o behind
    <3>1. (i + 1) + 1 = i + 2
      BY <1>1
    <3>2. /\ SubSeq(code, (i + 1) + 1, Len(code)) \in Seq(Token)
          /\ SubSeq(code, i + 1, Len(code)) =
                <<code[i + 1]>> \o SubSeq(code, (i + 1) + 1, Len(code))
      BY <2>1, CutAt
    <3> QED BY <3>1, <3>2 DEF back
  <2>6. Flipped(comparison) \in Token
    BY <2>1 DEF Flipped, Token
  <2>7. flipped \in Seq(Token) /\ <<comparison>> \in Seq(Token)
    BY <2>1, <2>6
  <2>8. Count(flipped, T) = Count(<<comparison>>, T)
    <3>1. comparison \in T <=> Flipped(comparison) \in T
      BY <2>1 DEF IsKind
    <3> QED BY <3>1, CountOne
  <2> HIDE DEF before, operand, comparison, behind, flipped
  <2>9. \A a, b \in Seq(Token) :
           /\ a \o b \in Seq(Token)
           /\ Count(a \o b, T) = Count(a, T) + Count(b, T)
           /\ Count(a, T) \in Nat
    BY CountsOfTokens
  <2>10. /\ before \o value \in Seq(Token) /\ (before \o value) \o operand \in Seq(Token)
         /\ ((before \o value) \o operand) \o flipped \in Seq(Token)
         /\ (((before \o value) \o operand) \o flipped) \o behind \in Seq(Token)
    BY <2>4, <2>5, <2>7, <2>9
  <2>11. Count((((before \o value) \o operand) \o flipped) \o behind, T) =
            Count(before, T) + Count(value, T) + Count(operand, T)
            + Count(flipped, T) + Count(behind, T)
    <3>1. Count(before \o value, T) = Count(before, T) + Count(value, T)
      BY <2>4, <2>9
    <3>2. Count((before \o value) \o operand, T) = Count(before \o value, T) + Count(operand, T)
      BY <2>4, <2>9, <2>10
    <3>3. Count(((before \o value) \o operand) \o flipped, T) =
             Count((before \o value) \o operand, T) + Count(flipped, T)
      BY <2>7, <2>9, <2>10
    <3>4. Count((((before \o value) \o operand) \o flipped) \o behind, T) =
             Count(((before \o value) \o operand) \o flipped, T) + Count(behind, T)
      BY <2>5, <2>9, <2>10
    <3> QED BY <3>1, <3>2, <3>3, <3>4
  <2>12. /\ Count(front, T) = Count(before, T) + Count(operand, T)
         /\ Count(back, T) = Count(<<comparison>>, T) + Count(behind, T)
    BY <2>4, <2>5, <2>7, <2>9
  <2>13. /\ Count(before, T) \in Nat /\ Count(operand, T) \in Nat /\ Count(flipped, T) \in Nat
         /\ Count(behind, T) \in Nat
    BY <2>4, <2>5, <2>7, <2>9
  <2>14. Count((((before \o value) \o operand) \o flipped) \o behind, T) =
            Count(front, T) + (Count(value, T) + Count(back, T))
    BY <1>5, <2>8, <2>11, <2>12, <2>13
  <2>15. Count((((before \o value) \o operand) \o flipped) \o behind, T) =
            Count(code, T) + Count(value, T) - one
    BY <1>7, <2>10, <2>14
  <2> QED BY <1>1, <1>2, <2>3, <2>10, <2>15 DEF one
<1> QED BY <1>8, <1>9

-----------------------------------------------------------------------------
(* Sums over sequences.                                                    *)

LEMMA SumIsNatural ==
  ASSUME NEW numbers \in Seq(Nat)
  PROVE  Sum(numbers) \in Nat
<1> DEFINE n == Len(numbers)
           h == [i \in 0 .. n - 1 |-> numbers[i + 1]]
<1>1. n \in Nat /\ \A i \in 0 .. n - 1 : h[i] \in Nat
  OBVIOUS
<1>2. Sum(numbers) = Total(h, n)
  BY DEF Sum
<1> HIDE DEF n, h
<1> QED BY <1>1, <1>2, TotalOfNaturals

(* One number is another one.                                              *)
LEMMA SumChange ==
  ASSUME NEW a \in Seq(Nat), NEW b \in Seq(Nat), NEW j \in 1 .. Len(a), Len(b) = Len(a),
         \A i \in 1 .. Len(a) : i # j => b[i] = a[i]
  PROVE  Sum(b) = Sum(a) + (b[j] - a[j])
<1> DEFINE n == Len(a)
           g == [i \in 0 .. n - 1 |-> a[i + 1]]
           h == [i \in 0 .. n - 1 |-> b[i + 1]]
           d == b[j] - a[j]
           k == j - 1
<1>1. n \in Nat /\ k \in 0 .. n - 1 /\ d \in Int /\ \A i \in 0 .. n - 1 : g[i] \in Int
  OBVIOUS
<1>2. \A i \in 0 .. n - 1 : i # k => h[i] = g[i]
  <2> SUFFICES ASSUME NEW i \in 0 .. n - 1, i # k PROVE h[i] = g[i]
    OBVIOUS
  <2>1. i + 1 \in 1 .. n /\ i + 1 # j
    OBVIOUS
  <2> QED BY <2>1
<1>3. h[k] = g[k] + d
  OBVIOUS
<1>4. Sum(a) = Total(g, n) /\ Sum(b) = Total(h, n)
  BY DEF Sum
<1> HIDE DEF n, g, h, k, d
<1>5. Total(h, n) = Total(g, n) + d
  BY <1>1, <1>2, <1>3, TotalChange
<1> QED BY <1>4, <1>5 DEF d

(* No number is larger, and perhaps one is smaller.                        *)
LEMMA SumMonotonic ==
  ASSUME NEW a \in Seq(Nat), NEW b \in Seq(Nat), Len(b) = Len(a),
         \A i \in 1 .. Len(a) : a[i] <= b[i]
  PROVE  /\ Sum(a) <= Sum(b)
         /\ (\E j \in 1 .. Len(a) : a[j] < b[j]) => Sum(a) < Sum(b)
<1>1. ASSUME NEW c \in Seq(Nat), Len(c) = Len(a), \A i \in 1 .. Len(a) : c[i] <= b[i]
      PROVE  Sum(c) <= Sum(b)
  <2> DEFINE n == Len(a)
             g == [i \in 0 .. n - 1 |-> c[i + 1]]
             h == [i \in 0 .. n - 1 |-> b[i + 1]]
  <2>1. n \in Nat /\ \A i \in 0 .. n - 1 : g[i] \in Int /\ h[i] \in Int /\ g[i] <= h[i]
    <3>1. n \in Nat /\ \A i \in 0 .. n - 1 : i + 1 \in 1 .. n
      OBVIOUS
    <3> QED BY <1>1, <3>1
  <2>2. Sum(c) = Total(g, n) /\ Sum(b) = Total(h, n)
    BY <1>1 DEF Sum
  <2> HIDE DEF n, g, h
  <2> QED BY <2>1, <2>2, TotalMonotonic
<1>2. Sum(a) <= Sum(b)
  BY <1>1
<1>3. ASSUME NEW j \in 1 .. Len(a), a[j] < b[j]
      PROVE  Sum(a) < Sum(b)
  <2> DEFINE c == [a EXCEPT ![j] = b[j]]
  <2>1. /\ c \in Seq(Nat) /\ Len(c) = Len(a) /\ c[j] = b[j]
        /\ \A i \in 1 .. Len(a) : i # j => c[i] = a[i]
    OBVIOUS
  <2> HIDE DEF c
  <2>2. Sum(c) <= Sum(b)
    BY <1>1, <2>1
  <2>3. Sum(c) = Sum(a) + (c[j] - a[j])
    BY <2>1, SumChange
  <2>4. c[j] - a[j] \in Int /\ c[j] - a[j] > 0
    BY <1>3, <2>1
  <2>5. Sum(a) \in Nat /\ Sum(b) \in Nat /\ Sum(c) \in Nat
    BY <2>1, SumIsNatural
  <2> QED BY <2>2, <2>3, <2>4, <2>5
<1> QED BY <1>2, <1>3

(* The weight of a sequence, whose elements weigh what w says.             *)
Weight(s, w) == Sum([i \in DOMAIN s |-> w[s[i]]])

(* The weight is the sum of natural numbers, one per element.              *)
LEMMA WeightIsNatural ==
  ASSUME NEW S, NEW s \in Seq(S), NEW w \in [S -> Nat]
  PROVE  /\ [i \in DOMAIN s |-> w[s[i]]] \in Seq(Nat)
         /\ Len([i \in DOMAIN s |-> w[s[i]]]) = Len(s)
         /\ Weight(s, w) \in Nat
<1> DEFINE a == [i \in DOMAIN s |-> w[s[i]]]
<1>1. a \in Seq(Nat) /\ Len(a) = Len(s)
  OBVIOUS
<1> HIDE DEF a
<1>2. Sum(a) \in Nat
  BY <1>1, SumIsNatural
<1> QED BY <1>1, <1>2 DEF a, Weight

(* An element is another one.                                              *)
LEMMA WeightChange ==
  ASSUME NEW S, NEW s \in Seq(S), NEW w \in [S -> Nat], NEW j \in 1 .. Len(s), NEW e \in S
  PROVE  Weight([s EXCEPT ![j] = e], w) = Weight(s, w) + (w[e] - w[s[j]])
<1> DEFINE t == [s EXCEPT ![j] = e]
           a == [i \in DOMAIN s |-> w[s[i]]]
           b == [i \in DOMAIN t |-> w[t[i]]]
<1>1. /\ t \in Seq(S) /\ Len(t) = Len(s) /\ DOMAIN t = DOMAIN s /\ DOMAIN s = 1 .. Len(s)
      /\ t[j] = e /\ \A i \in 1 .. Len(s) : i # j => t[i] = s[i]
  OBVIOUS
<1> HIDE DEF t
<1>2. /\ a \in Seq(Nat) /\ b \in Seq(Nat) /\ Len(a) = Len(s) /\ Len(b) = Len(s)
  BY <1>1, WeightIsNatural
<1>3. /\ \A i \in 1 .. Len(s) : i # j => b[i] = a[i]
      /\ b[j] = w[e] /\ a[j] = w[s[j]]
  BY <1>1
<1>4. Sum(b) = Sum(a) + (b[j] - a[j])
  <2> HIDE DEF a, b
  <2> QED BY <1>2, <1>3, SumChange
<1> QED BY <1>3, <1>4 DEF Weight, t

(* An element is appended.                                                 *)
LEMMA WeightAppend ==
  ASSUME NEW S, NEW s \in Seq(S), NEW w \in [S -> Nat], NEW e \in S
  PROVE  Weight(Append(s, e), w) = Weight(s, w) + w[e]
<1> DEFINE n == Len(s)
           t == Append(s, e)
           a == [i \in DOMAIN s |-> w[s[i]]]
           b == [i \in DOMAIN t |-> w[t[i]]]
           g == [i \in 0 .. n - 1 |-> a[i + 1]]
           h == [i \in 0 .. n |-> b[i + 1]]
<1>1. /\ n \in Nat /\ Len(a) = n /\ Len(b) = n + 1
      /\ \A i \in 0 .. n - 1 : g[i] \in Int /\ h[i] = g[i]
      /\ h[n] = w[e] /\ w[e] \in Int
  OBVIOUS
<1>2. Sum(a) = Total(g, n)
  BY <1>1 DEF Sum
<1>3. Sum(b) = Total(h, n + 1)
  <2>1. (n + 1) - 1 = n
    BY <1>1
  <2> QED BY <1>1, <2>1 DEF Sum
<1> HIDE DEF n, a, b, g, h
<1>4. \A i \in 0 .. n : h[i] \in Int
  <2>1. \A i \in 0 .. n : i = n \/ i \in 0 .. n - 1
    BY <1>1
  <2> QED BY <1>1, <2>1
<1>5. Total(h, n + 1) = Total(h, n) + h[n]
  BY <1>1, <1>4, TotalStep
<1>6. Total(h, n) = Total(g, n)
  BY <1>1, TotalEqual
<1> QED BY <1>1, <1>2, <1>3, <1>5, <1>6 DEF Weight, a, b

(* The empty sequence weighs nothing.                                      *)
LEMMA WeightOfNothing ==
  ASSUME NEW w
  PROVE  Weight(<<>>, w) = 0
<1> DEFINE a == [i \in DOMAIN <<>> |-> w[<<>>[i]]]
           h == [i \in 0 .. 0 - 1 |-> a[i + 1]]
<1>1. a = <<>> /\ Len(a) = 0
  OBVIOUS
<1>2. Sum(a) = Total(h, 0)
  BY <1>1 DEF Sum
<1>3. \A i \in 0 .. 0 - 1 : h[i] = 0
  OBVIOUS
<1> HIDE DEF h
<1>4. Total(h, 0) = 0
  BY <1>3, TotalOfZeros
<1> QED BY <1>2, <1>4 DEF Weight

(* No element weighs more than the one in its place.                       *)
LEMMA WeightMonotonic ==
  ASSUME NEW S, NEW s \in Seq(S), NEW t \in Seq(S), NEW w \in [S -> Nat], Len(t) = Len(s),
         \A i \in 1 .. Len(s) : w[t[i]] <= w[s[i]]
  PROVE  /\ Weight(t, w) <= Weight(s, w)
         /\ (\E j \in 1 .. Len(s) : w[t[j]] < w[s[j]]) => Weight(t, w) < Weight(s, w)
<1> DEFINE a == [i \in DOMAIN t |-> w[t[i]]]
           b == [i \in DOMAIN s |-> w[s[i]]]
<1>1. /\ a \in Seq(Nat) /\ b \in Seq(Nat) /\ Len(a) = Len(s) /\ Len(b) = Len(s)
      /\ \A i \in 1 .. Len(s) : a[i] = w[t[i]] /\ b[i] = w[s[i]]
  OBVIOUS
<1> HIDE DEF a, b
<1>2. \A i \in 1 .. Len(a) : a[i] <= b[i]
  BY <1>1
<1>3. /\ Sum(a) <= Sum(b)
      /\ (\E j \in 1 .. Len(a) : a[j] < b[j]) => Sum(a) < Sum(b)
  BY <1>1, <1>2, SumMonotonic
<1>4. (\E j \in 1 .. Len(s) : w[t[j]] < w[s[j]]) => Sum(a) < Sum(b)
  BY <1>1, <1>3
<1> QED BY <1>3, <1>4 DEF Weight, a, b

-----------------------------------------------------------------------------
(* The sweep keeps the statements that are not Empty.                      *)
AreRetained(f, statements, n) ==
    f = [i \in 0 .. n |->
            IF i = 0 THEN <<>>
            ELSE IF statements[i] = Empty THEN f[i - 1]
            ELSE Append(f[i - 1], statements[i])]

(* Retained solves its equation.                                           *)
LEMMA RetainedExists ==
  ASSUME NEW S, NEW statements \in Seq(S)
  PROVE  \E f : /\ AreRetained(f, statements, Len(statements))
                /\ Retained(statements) = f[Len(statements)]
<1> DEFINE n == Len(statements)
           V == Seq(S)
           Step(v, k) == IF statements[k] = Empty THEN v ELSE Append(v, statements[k])
           step == [x \in V \X (1 .. n) |-> Step(x[1], x[2])]
<1>1. n \in Nat /\ <<>> \in V
  OBVIOUS
<1>2. step \in [V \X (1 .. n) -> V]
  <2>1. ASSUME NEW v \in V, NEW k \in 1 .. n PROVE Step(v, k) \in V
    OBVIOUS
  <2> HIDE DEF V, Step
  <2> QED BY <2>1
<1>3. \A v \in V, k \in 1 .. n : step[<<v, k>>] = Step(v, k)
  OBVIOUS
<1> HIDE DEF step, V, n
<1>4. PICK f : IsRecursion(f, n, V, <<>>, step)
  BY <1>1, <1>2, RecursionExists
<1>5. f \in [0 .. n -> V]
  BY <1>4 DEF IsRecursion
<1>6. ASSUME NEW k \in 0 .. n
      PROVE  f[k] = IF k = 0 THEN <<>> ELSE Step(f[k - 1], k)
  <2>1. CASE k = 0
    BY <1>4, <2>1 DEF IsRecursion
  <2>2. CASE k # 0
    <3>1. k - 1 \in 0 .. n /\ k \in 1 .. n
      BY <1>1, <2>2
    <3>2. f[k - 1] \in V
      BY <1>5, <3>1
    <3>3. f[k] = step[<<f[k - 1], k>>]
      BY <1>4, <2>2 DEF IsRecursion
    <3> QED BY <1>3, <2>2, <3>1, <3>2, <3>3
  <2> QED BY <2>1, <2>2
<1>7. AreRetained(f, statements, n)
  BY <1>5, <1>6 DEF AreRetained
<1>8. \E g : AreRetained(g, statements, n)
  BY <1>7
<1> DEFINE g == CHOOSE g : AreRetained(g, statements, n)
<1>9. AreRetained(g, statements, n)
  BY <1>8
<1>10. Retained(statements) = g[n]
  BY DEF Retained, AreRetained, n
<1> QED BY <1>9, <1>10 DEF n

(* What is Empty weighs nothing: the rest weighs as much as the whole, and *)
(* is the whole if nothing is Empty.                                       *)
LEMMA RetainedWeight ==
  ASSUME NEW S, Empty \in S, NEW statements \in Seq(S), NEW w \in [S -> Nat], w[Empty] = 0
  PROVE  /\ Retained(statements) \in Seq(S)
         /\ Weight(Retained(statements), w) = Weight(statements, w)
         /\ (\A i \in DOMAIN statements : statements[i] # Empty)
                => Retained(statements) = statements
<1> DEFINE n == Len(statements)
           a == [i \in DOMAIN statements |-> w[statements[i]]]
           h == [i \in 0 .. n - 1 |-> a[i + 1]]
<1>1. PICK f : AreRetained(f, statements, n) /\ Retained(statements) = f[n]
  BY RetainedExists
<1>2. /\ n \in Nat /\ Len(a) = n /\ DOMAIN statements = 1 .. n
      /\ \A i \in 1 .. n : statements[i] \in S
      /\ \A i \in 0 .. n - 1 : h[i] = w[statements[i + 1]] /\ h[i] \in Int
  OBVIOUS
<1>3. Weight(statements, w) = Total(h, n)
  BY <1>2 DEF Weight, Sum
<1> HIDE DEF n, a, h
<1>4. f[0] = <<>>
  BY <1>1, <1>2 DEF AreRetained
<1>5. ASSUME NEW k \in 0 .. n - 1
      PROVE  f[k + 1] = IF statements[k + 1] = Empty THEN f[k]
                        ELSE Append(f[k], statements[k + 1])
  <2>1. k + 1 \in 0 .. n /\ k + 1 # 0 /\ (k + 1) - 1 = k
    BY <1>2
  <2> QED BY <1>1, <2>1 DEF AreRetained
<1> DEFINE Full(k) == Len(f[k]) = k /\ \A i \in 1 .. k : f[k][i] = statements[i]
           T == {k \in 0 .. n : /\ f[k] \in Seq(S)
                                /\ Weight(f[k], w) = Total(h, k)
                                /\ (\A i \in 1 .. n : statements[i] # Empty) => Full(k)}
<1>6. 0 \in T
  <2>1. \A i \in 0 .. 0 - 1 : h[i] = 0
    OBVIOUS
  <2>2. Total(h, 0) = 0
    BY <2>1, TotalOfZeros
  <2>3. Weight(f[0], w) = 0
    BY <1>4, WeightOfNothing
  <2>4. Full(0) /\ f[0] \in Seq(S)
    BY <1>4
  <2> QED BY <1>2, <2>2, <2>3, <2>4
<1>7. ASSUME NEW k \in 0 .. n - 1, k \in T
      PROVE  k + 1 \in T
  <2> DEFINE e == statements[k + 1]
  <2>1. k \in Nat /\ k + 1 \in 0 .. n /\ k + 1 \in 1 .. n /\ e \in S
    BY <1>2
  <2>2. Total(h, k + 1) = Total(h, k) + w[e]
    <3>1. \A i \in 0 .. k : i \in 0 .. n - 1
      BY <1>2
    <3>2. \A i \in 0 .. k : h[i] \in Int
      BY <1>2, <3>1
    <3>3. Total(h, k + 1) = Total(h, k) + h[k]
      BY <2>1, <3>2, TotalStep
    <3> QED BY <1>2, <3>3
  <2>3. f[k] \in Seq(S) /\ Weight(f[k], w) = Total(h, k)
    BY <1>7
  <2>4. (\A i \in 1 .. n : statements[i] # Empty) => Full(k)
    BY <1>7
  <2>5. Weight(f[k], w) \in Nat
    BY <2>3, WeightIsNatural
  <2>6. CASE e = Empty
    <3>1. f[k + 1] = f[k]
      BY <1>5, <2>6
    <3>2. Total(h, k + 1) = Total(h, k)
      BY <2>2, <2>3, <2>5, <2>6
    <3>3. ~ \A i \in 1 .. n : statements[i] # Empty
      BY <2>1, <2>6
    <3> QED BY <2>1, <2>3, <3>1, <3>2, <3>3
  <2>7. CASE e # Empty
    <3>1. f[k + 1] = Append(f[k], e)
      BY <1>5, <2>7
    <3>2. Weight(f[k + 1], w) = Total(h, k + 1)
      BY <2>1, <2>2, <2>3, <3>1, WeightAppend
    <3>3. f[k + 1] \in Seq(S)
      BY <2>1, <2>3, <3>1
    <3>4. ASSUME Full(k) PROVE Full(k + 1)
      <4>1. Len(f[k + 1]) = k + 1
        BY <2>1, <2>3, <3>1, <3>4
      <4>2. ASSUME NEW i \in 1 .. k + 1 PROVE f[k + 1][i] = statements[i]
        BY <2>1, <2>3, <3>1, <3>4
      <4> QED BY <4>1, <4>2
    <3> HIDE DEF Full
    <3> QED BY <2>1, <2>4, <3>2, <3>3, <3>4
  <2> QED BY <2>6, <2>7
<1> HIDE DEF T
<1>8. \A k \in 0 .. n : k \in T
  BY <1>2, <1>6, <1>7, InductionUpTo
<1>9. n \in T
  BY <1>2, <1>8
<1>10. Full(n) => f[n] = statements
  <2>1. ASSUME f[n] \in Seq(S), Full(n) PROVE f[n] = statements
    <3>1. Len(f[n]) = Len(statements) /\ \A i \in 1 .. Len(f[n]) : f[n][i] = statements[i]
      BY <2>1 DEF n
    <3> QED BY <2>1, <3>1, SeqEqual
  <2> QED BY <1>9, <2>1 DEF T
<1> HIDE DEF Full
<1> QED BY <1>1, <1>2, <1>3, <1>9, <1>10 DEF T

-----------------------------------------------------------------------------
(* The weight of a block and its edge: the tokens of a kind, and perhaps   *)
(* the locals that results are assigned to.                                *)
Targets(statement, counted) == IF counted = "all" THEN Len(statement.dst) ELSE 0

StatementWeight(T, counted) ==
    [statement \in Statement |-> Count(statement.code, T) + Targets(statement, counted)]

SideWeight(T) == [argument \in Argument |-> Count(argument.code, T)]

Weighs(statements, sides, T, counted) ==
    Weight(statements, StatementWeight(T, counted)) + Weight(sides, SideWeight(T))

(* The reads of a local.                                                   *)
ReadsOf(local) == {t \in Token : t.op = "read" /\ t.name = local}

IsCallKind(T) == \A t \in T : t.op = "call"

(* A comparison is neither a read nor a call, and any token is one.        *)
LEMMA KindsAreKinds ==
  /\ \A local : IsKind(ReadsOf(local))
  /\ \A T : IsCallKind(T) => IsKind(T)
  /\ IsKind(Token)
<1>1. ASSUME NEW t \in Token, t.op \in {"compare", "converse"}
      PROVE  Flipped(t) \in Token /\ Flipped(t).op \in {"compare", "converse"}
  BY <1>1 DEF Flipped, Token
<1>2. ASSUME NEW local PROVE IsKind(ReadsOf(local))
  BY <1>1 DEF IsKind, ReadsOf
<1>3. ASSUME NEW T, IsCallKind(T) PROVE IsKind(T)
  BY <1>1, <1>3 DEF IsKind, IsCallKind
<1>4. IsKind(Token)
  BY <1>1 DEF IsKind
<1> QED BY <1>2, <1>3, <1>4

(* What statements and arguments consist of.                               *)
LEMMA StatementsHaveParts ==
  /\ \A s \in Statement : s.dst \in Seq(Locals) /\ s.code \in Seq(Token) /\ Len(s.dst) \in Nat
  /\ \A a \in Argument : a.param \in Locals /\ a.code \in Seq(Token)
  /\ \A s \in Statement, c \in Seq(Token) : [s EXCEPT !.code = c] \in Statement
  /\ \A a \in Argument, c \in Seq(Token) : [a EXCEPT !.code = c] \in Argument
  /\ Empty \in Statement
<1>1. \A s \in Statement : s.dst \in Seq(Locals) /\ s.code \in Seq(Token)
  BY DEF Statement
<1>2. \A a \in Argument : a.param \in Locals /\ a.code \in Seq(Token)
  BY DEF Argument
<1>3. \A s \in Statement, c \in Seq(Token) : [s EXCEPT !.code = c] \in Statement
  BY DEF Statement
<1>4. \A a \in Argument, c \in Seq(Token) : [a EXCEPT !.code = c] \in Argument
  BY DEF Argument
<1>5. Empty \in Statement
  BY DEF Statement, Empty
<1>6. \A d \in Seq(Locals) : Len(d) \in Nat
  OBVIOUS
<1> QED BY <1>1, <1>2, <1>3, <1>4, <1>5, <1>6

(* The weights are natural numbers.                                        *)
LEMMA WeightsOfParts ==
  ASSUME NEW T, NEW counted \in {"tokens", "all"}
  PROVE  /\ StatementWeight(T, counted) \in [Statement -> Nat]
         /\ SideWeight(T) \in [Argument -> Nat]
         /\ \A s \in Statement : StatementWeight(T, counted)[s] = Count(s.code, T) + Targets(s, counted)
         /\ \A a \in Argument : SideWeight(T)[a] = Count(a.code, T)
         /\ \A c \in Seq(Token) : Count(c, T) \in Nat
         /\ StatementWeight(T, counted)[Empty] = 0
<1>1. \A c \in Seq(Token) : Count(c, T) \in Nat
  BY CountsOfTokens
<1>2. \A s \in Statement : Targets(s, counted) \in Nat /\ Count(s.code, T) \in Nat
  BY <1>1, StatementsHaveParts DEF Targets
<1>3. \A a \in Argument : Count(a.code, T) \in Nat
  BY <1>1, StatementsHaveParts
<1>4. StatementWeight(T, counted) \in [Statement -> Nat]
  BY <1>2 DEF StatementWeight
<1>5. SideWeight(T) \in [Argument -> Nat]
  BY <1>3 DEF SideWeight
<1>6. \A s \in Statement : StatementWeight(T, counted)[s] = Count(s.code, T) + Targets(s, counted)
  BY DEF StatementWeight
<1>7. \A a \in Argument : SideWeight(T)[a] = Count(a.code, T)
  BY DEF SideWeight
<1>8. Count(Empty.code, T) = 0 /\ Targets(Empty, counted) = 0
  <2>1. Empty.code = <<>> /\ Empty.dst = <<>>
    BY DEF Empty
  <2>2. Count(<<>>, T) = 0
    BY CountNone
  <2> QED BY <2>1, <2>2 DEF Targets
<1>9. StatementWeight(T, counted)[Empty] = 0
  BY <1>6, <1>8, StatementsHaveParts, SMT
<1> QED BY <1>1, <1>4, <1>5, <1>6, <1>7, <1>9

(* Blocks and edges have weights.                                          *)
LEMMA WeighsIsNatural ==
  ASSUME NEW statements \in Seq(Statement), NEW sides \in Seq(Argument),
         NEW T, NEW counted \in {"tokens", "all"}
  PROVE  /\ Weighs(statements, sides, T, counted) \in Nat
         /\ Weight(statements, StatementWeight(T, counted)) \in Nat
         /\ Weight(sides, SideWeight(T)) \in Nat
<1>1. Weight(statements, StatementWeight(T, counted)) \in Nat
  BY WeightsOfParts, WeightIsNatural
<1>2. Weight(sides, SideWeight(T)) \in Nat
  BY WeightsOfParts, WeightIsNatural
<1> QED BY <1>1, <1>2 DEF Weighs

(* The counts of the model are such weights.                               *)
LEMMA CountsAreWeights ==
  ASSUME NEW statements \in Seq(Statement), NEW sides \in Seq(Argument)
  PROVE  /\ \A local : Uses(statements, sides, local) =
                           Weighs(statements, sides, ReadsOf(local), "tokens")
         /\ \A token : Occurrences(statements, sides, token) =
                           Weighs(statements, sides, {token}, "tokens")
         /\ Size(statements, sides) = Weighs(statements, sides, Token, "all")
<1>1. /\ \A i \in DOMAIN statements : statements[i] \in Statement /\ statements[i].code \in Seq(Token)
      /\ \A i \in DOMAIN sides : sides[i] \in Argument /\ sides[i].code \in Seq(Token)
  BY StatementsHaveParts
<1>2. ASSUME NEW local
      PROVE  Uses(statements, sides, local) = Weighs(statements, sides, ReadsOf(local), "tokens")
  <2>1. ASSUME NEW code \in Seq(Token)
        PROVE  UsesIn(code, local) = Count(code, ReadsOf(local))
    <3>1. \A i \in DOMAIN code : code[i] \in Token
      OBVIOUS
    <3>2. {i \in DOMAIN code : code[i].op = "read" /\ code[i].name = local}
             = {i \in DOMAIN code : code[i] \in ReadsOf(local)}
      BY <3>1 DEF ReadsOf
    <3> QED BY <3>2 DEF UsesIn, Count
  <2> DEFINE w == StatementWeight(ReadsOf(local), "tokens")
             v == SideWeight(ReadsOf(local))
  <2>2. \A i \in DOMAIN statements : w[statements[i]] = UsesIn(statements[i].code, local)
    <3>1. \A s \in Statement : w[s] = Count(s.code, ReadsOf(local)) + Targets(s, "tokens")
      BY WeightsOfParts
    <3>2. \A s \in Statement : Targets(s, "tokens") = 0 /\ Count(s.code, ReadsOf(local)) \in Nat
      BY WeightsOfParts, StatementsHaveParts DEF Targets
    <3> HIDE DEF w
    <3> SUFFICES ASSUME NEW i \in DOMAIN statements
                 PROVE  w[statements[i]] = UsesIn(statements[i].code, local)
      OBVIOUS
    <3>3. PICK s \in Statement : s = statements[i] /\ s.code \in Seq(Token)
      BY <1>1
    <3> QED BY <2>1, <3>1, <3>2, <3>3
  <2>3. \A i \in DOMAIN sides : v[sides[i]] = UsesIn(sides[i].code, local)
    <3>1. \A a \in Argument : v[a] = Count(a.code, ReadsOf(local))
      BY WeightsOfParts
    <3> HIDE DEF v
    <3> QED BY <1>1, <2>1, <3>1
  <2> HIDE DEF w, v
  <2>4. /\ [i \in DOMAIN statements |-> UsesIn(statements[i].code, local)]
              = [i \in DOMAIN statements |-> w[statements[i]]]
        /\ [i \in DOMAIN sides |-> UsesIn(sides[i].code, local)]
              = [i \in DOMAIN sides |-> v[sides[i]]]
    BY <2>2, <2>3
  <2> QED BY <2>4 DEF Uses, Weighs, Weight, w, v
<1>3. ASSUME NEW token
      PROVE  Occurrences(statements, sides, token) = Weighs(statements, sides, {token}, "tokens")
  <2>1. ASSUME NEW code \in Seq(Token)
        PROVE  Times(code, token) = Count(code, {token})
    <3>1. {i \in DOMAIN code : code[i] = token} = {i \in DOMAIN code : code[i] \in {token}}
      OBVIOUS
    <3> QED BY <3>1 DEF Times, Count
  <2> DEFINE w == StatementWeight({token}, "tokens")
             v == SideWeight({token})
  <2>2. \A i \in DOMAIN statements : w[statements[i]] = Times(statements[i].code, token)
    <3>1. \A s \in Statement : w[s] = Count(s.code, {token}) + Targets(s, "tokens")
      BY WeightsOfParts
    <3>2. \A s \in Statement : Targets(s, "tokens") = 0 /\ Count(s.code, {token}) \in Nat
      BY WeightsOfParts, StatementsHaveParts DEF Targets
    <3> HIDE DEF w
    <3> SUFFICES ASSUME NEW i \in DOMAIN statements
                 PROVE  w[statements[i]] = Times(statements[i].code, token)
      OBVIOUS
    <3>3. PICK s \in Statement : s = statements[i] /\ s.code \in Seq(Token)
      BY <1>1
    <3>4. w[s] = Count(s.code, {token}) + Targets(s, "tokens")
      BY <3>1
    <3>5. Targets(s, "tokens") = 0 /\ Count(s.code, {token}) \in Nat
      BY <3>2
    <3>6. Times(s.code, token) = Count(s.code, {token})
      BY <2>1, <3>3
    <3>7. w[s] = Times(s.code, token)
      BY <3>4, <3>5, <3>6
    <3> QED BY <3>3, <3>7
  <2>3. \A i \in DOMAIN sides : v[sides[i]] = Times(sides[i].code, token)
    <3>1. \A a \in Argument : v[a] = Count(a.code, {token})
      BY WeightsOfParts
    <3> HIDE DEF v
    <3> QED BY <1>1, <2>1, <3>1
  <2> HIDE DEF w, v
  <2>4. /\ [i \in DOMAIN statements |-> Times(statements[i].code, token)]
              = [i \in DOMAIN statements |-> w[statements[i]]]
        /\ [i \in DOMAIN sides |-> Times(sides[i].code, token)]
              = [i \in DOMAIN sides |-> v[sides[i]]]
    BY <2>2, <2>3
  <2> QED BY <2>4 DEF Occurrences, Weighs, Weight, w, v
<1>4. Size(statements, sides) = Weighs(statements, sides, Token, "all")
  <2>1. ASSUME NEW code \in Seq(Token)
        PROVE  Len(code) = Count(code, Token) /\ Len(code) \in Nat
    <3>1. \A i \in DOMAIN code : code[i] \in Token
      OBVIOUS
    <3> QED BY <3>1, CountAll
  <2> DEFINE w == StatementWeight(Token, "all")
             v == SideWeight(Token)
  <2>2. \A i \in DOMAIN statements :
           w[statements[i]] = Len(statements[i].dst) + Len(statements[i].code)
    <3>1. \A s \in Statement : w[s] = Count(s.code, Token) + Targets(s, "all")
      BY WeightsOfParts
    <3>2. \A s \in Statement : Targets(s, "all") = Len(s.dst) /\ Len(s.dst) \in Nat
      BY StatementsHaveParts DEF Targets
    <3> HIDE DEF w
    <3> SUFFICES ASSUME NEW i \in DOMAIN statements
                 PROVE  w[statements[i]] = Len(statements[i].dst) + Len(statements[i].code)
      OBVIOUS
    <3>3. PICK s \in Statement : s = statements[i] /\ s.code \in Seq(Token)
      BY <1>1
    <3>4. w[s] = Count(s.code, Token) + Targets(s, "all")
      BY <3>1
    <3>5. Targets(s, "all") = Len(s.dst) /\ Len(s.dst) \in Nat
      BY <3>2
    <3>6. Len(s.code) = Count(s.code, Token) /\ Len(s.code) \in Nat
      BY <2>1, <3>3
    <3>7. w[s] = Len(s.dst) + Len(s.code)
      BY <3>4, <3>5, <3>6
    <3> QED BY <3>3, <3>7
  <2>3. \A i \in DOMAIN sides : v[sides[i]] = Len(sides[i].code)
    <3>1. \A a \in Argument : v[a] = Count(a.code, Token)
      BY WeightsOfParts
    <3> HIDE DEF v
    <3> QED BY <1>1, <2>1, <3>1
  <2> HIDE DEF w, v
  <2>4. /\ [i \in DOMAIN statements |-> Len(statements[i].dst) + Len(statements[i].code)]
              = [i \in DOMAIN statements |-> w[statements[i]]]
        /\ [i \in DOMAIN sides |-> Len(sides[i].code)] = [i \in DOMAIN sides |-> v[sides[i]]]
    BY <2>2, <2>3
  <2> QED BY <2>4 DEF Size, Weighs, Weight, w, v
<1> QED BY <1>2, <1>3, <1>4

-----------------------------------------------------------------------------
(* The move of a value.                                                    *)
MovedLocal == block[at].dst[1]

MovedCode == Inlined(Sites[index].code, MovedLocal, block[at].code)

Rewritten(item) == [item EXCEPT !.code = MovedCode]

Remains == [block EXCEPT ![at] = Empty]

(* What is moved where: a value from an assignment to one local, into an   *)
(* expression that reads it, which is not the value.                       *)
LEMMA MoveFound ==
  ASSUME InlinerTypeOK, MoveValue
  PROVE  /\ at \in 1 .. Len(block) /\ block[at] \in Statement
         /\ Len(block[at].dst) = 1 /\ block[at].code \in Seq(Token)
         /\ index \in 1 .. Len(Sites) /\ Sites[index].code \in Seq(Token)
         /\ MovedLocal \in ReadsIn(Sites[index].code)
         /\ part = "statements" =>
               /\ at # index /\ index \in 1 .. Len(block)
               /\ block' = [Remains EXCEPT ![index] = Rewritten(block[index])]
               /\ arguments' = arguments
         /\ part = "arguments" =>
               /\ index \in 1 .. Len(arguments)
               /\ block' = Remains
               /\ arguments' = [arguments EXCEPT ![index] = Rewritten(arguments[index])]
<1>1. /\ block \in Seq(Statement) /\ arguments \in Seq(Argument)
      /\ part \in {"statements", "arguments"} /\ pc = "scan"
      /\ index \in 1 .. Len(Sites) + 1 /\ index <= Len(Sites)
      /\ at \in 0 .. Len(block) /\ at > 0 /\ (part = "statements" => at < index)
      /\ \A i \in index .. Len(Sites) : wanted[i] \subseteq ReadsIn(Sites[i].code)
  BY DEF InlinerTypeOK, MoveValue, Searching, AtSite
<1>2. Len(block) \in Nat /\ Len(arguments) \in Nat
  BY <1>1
<1>3. /\ part = "statements" => Sites = block
      /\ part = "arguments" => Sites = arguments
  BY DEF Sites
<1>4. at \in 1 .. Len(block)
  BY <1>1, <1>2
<1>5. block[at] \in Statement /\ block[at].code \in Seq(Token)
  <2>1. block[at] \in Statement
    BY <1>1, <1>4
  <2> QED BY <2>1, StatementsHaveParts
<1>6. Len(block[at].dst) = 1 /\ MovedLocal \in wanted[index]
  BY DEF MoveValue, Moves, MovedLocal
<1>7. Len(Sites) \in Nat /\ index \in 1 .. Len(Sites)
  BY <1>1, <1>2, <1>3
<1>8. MovedLocal \in ReadsIn(Sites[index].code)
  <2>1. index \in index .. Len(Sites)
    BY <1>7
  <2> QED BY <1>1, <1>6, <2>1
<1>9. Sites[index].code \in Seq(Token)
  <2>1. CASE part = "statements"
    <3>1. Sites[index] \in Statement
      BY <1>1, <1>3, <1>7, <2>1
    <3> QED BY <3>1, StatementsHaveParts
  <2>2. CASE part = "arguments"
    <3>1. Sites[index] \in Argument
      BY <1>1, <1>3, <1>7, <2>2
    <3> QED BY <3>1, StatementsHaveParts
  <2> QED BY <1>1, <2>1, <2>2
<1>10. ASSUME part = "statements"
       PROVE  /\ at # index /\ index \in 1 .. Len(block)
              /\ block' = [Remains EXCEPT ![index] = Rewritten(block[index])]
              /\ arguments' = arguments
  <2>1. at # index /\ index \in 1 .. Len(block)
    BY <1>1, <1>3, <1>4, <1>7, <1>10
  <2>2. /\ block' = [Remains EXCEPT ![index].code = MovedCode]
        /\ arguments' = arguments
    BY <1>10 DEF MoveValue, Remains, MovedCode, MovedLocal, Emptied
  <2>3. Remains[index] = block[index]
    BY <1>1, <2>1 DEF Remains
  <2>4. block' = [Remains EXCEPT ![index] = [Remains[index] EXCEPT !.code = MovedCode]]
    BY <2>2
  <2> QED BY <2>1, <2>2, <2>3, <2>4 DEF Rewritten
<1>11. ASSUME part = "arguments"
       PROVE  /\ index \in 1 .. Len(arguments)
              /\ block' = Remains
              /\ arguments' = [arguments EXCEPT ![index] = Rewritten(arguments[index])]
  <2>1. index \in 1 .. Len(arguments)
    BY <1>3, <1>7, <1>11
  <2>2. /\ block' = Remains
        /\ arguments' = [arguments EXCEPT ![index].code = MovedCode]
    BY <1>11 DEF MoveValue, Remains, MovedCode, MovedLocal, Emptied
  <2> QED BY <2>1, <2>2 DEF Rewritten
<1> QED BY <1>4, <1>5, <1>6, <1>7, <1>8, <1>9, <1>10, <1>11

(* What the move of a value changes: the read it replaces is gone, and so  *)
(* is the local it was assigned to.                                        *)
LEMMA MoveWeighs ==
  ASSUME InlinerTypeOK, MoveValue, NEW T, IsKind(T), NEW counted \in {"tokens", "all"}
  PROVE  /\ block' \in Seq(Statement) /\ arguments' \in Seq(Argument)
         /\ Len(block') = Len(block) /\ Len(arguments') = Len(arguments)
         /\ \E read \in Token :
               /\ read.op = "read"
               /\ Weighs(block', arguments', T, counted) =
                     Weighs(block, arguments, T, counted)
                     - (IF read \in T THEN 1 ELSE 0) - (IF counted = "all" THEN 1 ELSE 0)
<1> DEFINE w == StatementWeight(T, counted)
           v == SideWeight(T)
           code == Sites[index].code
           value == block[at].code
           target == IF counted = "all" THEN 1 ELSE 0
<1>1. /\ block \in Seq(Statement) /\ arguments \in Seq(Argument)
      /\ part \in {"statements", "arguments"}
      /\ Len(block) \in Nat /\ Len(arguments) \in Nat
  BY DEF InlinerTypeOK
<1>2. /\ at \in 1 .. Len(block) /\ block[at] \in Statement
      /\ Len(block[at].dst) = 1 /\ value \in Seq(Token)
      /\ code \in Seq(Token) /\ MovedLocal \in ReadsIn(code)
  BY MoveFound
<1>3. PICK read \in Token :
         /\ read.op = "read"
         /\ Count(MovedCode, T) = Count(code, T) + Count(value, T) - (IF read \in T THEN 1 ELSE 0)
  BY <1>2, InlinedKeepsTokens DEF MovedCode
<1> DEFINE one == IF read \in T THEN 1 ELSE 0
<1>4. MovedCode \in Seq(Token)
  BY <1>2, InlinedKeepsTokens DEF MovedCode
<1>5. /\ w \in [Statement -> Nat] /\ v \in [Argument -> Nat]
      /\ \A s \in Statement : w[s] = Count(s.code, T) + Targets(s, counted)
      /\ \A a \in Argument : v[a] = Count(a.code, T)
      /\ \A c \in Seq(Token) : Count(c, T) \in Nat
      /\ w[Empty] = 0
  BY WeightsOfParts
<1>6. one \in Int /\ target \in Int
  OBVIOUS
<1>7. Count(MovedCode, T) = Count(code, T) + Count(value, T) - one
  BY <1>3
<1> HIDE DEF w, v, code, value, target, one
<1>8. w[block[at]] = Count(value, T) + target
  <2>1. Targets(block[at], counted) = target
    BY <1>2 DEF Targets, target
  <2> QED BY <1>2, <1>5, <2>1 DEF value
<1>9. /\ Count(MovedCode, T) \in Nat /\ Count(code, T) \in Nat /\ Count(value, T) \in Nat
  BY <1>2, <1>4, <1>5
<1>10. /\ Remains \in Seq(Statement) /\ Len(Remains) = Len(block)
       /\ \A i \in 1 .. Len(block) : i # at => Remains[i] = block[i]
  BY <1>1, <1>2, StatementsHaveParts DEF Remains
<1>11. Weight(Remains, w) = Weight(block, w) - (Count(value, T) + target)
  <2>1. Weight([block EXCEPT ![at] = Empty], w) = Weight(block, w) + (w[Empty] - w[block[at]])
    <3>1. Empty \in Statement
      BY StatementsHaveParts
    <3>2. w \in [Statement -> Nat] /\ at \in 1 .. Len(block) /\ block \in Seq(Statement)
      BY <1>1, <1>2, <1>5
    <3> QED BY <3>1, <3>2, WeightChange
  <2>2. Weight(block, w) \in Nat
    BY <1>1, <1>5, WeightIsNatural
  <2> QED BY <1>5, <1>6, <1>8, <1>9, <2>1, <2>2 DEF Remains
<1>12. Weight(block, w) \in Nat /\ Weight(arguments, v) \in Nat
  BY <1>1, <1>5, WeightIsNatural
<1>13. CASE part = "statements"
  <2> DEFINE s == block[index]
  <2>1. /\ at # index /\ index \in 1 .. Len(block)
        /\ block' = [Remains EXCEPT ![index] = Rewritten(s)]
        /\ arguments' = arguments
    BY <1>13, MoveFound
  <2>2. s \in Statement /\ s = Remains[index] /\ s.code = code
    BY <1>1, <1>10, <1>13, <2>1 DEF code, Sites
  <2> HIDE DEF s
  <2>3. /\ Rewritten(s) \in Statement /\ Rewritten(s).code = MovedCode
        /\ Targets(Rewritten(s), counted) = Targets(s, counted)
    <3>1. Rewritten(s) \in Statement
      BY <1>4, <2>2, StatementsHaveParts DEF Rewritten
    <3>2. Rewritten(s).code = MovedCode /\ Rewritten(s).dst = s.dst
      BY <2>2 DEF Rewritten, Statement
    <3> QED BY <3>1, <3>2 DEF Targets
  <2>4. Weight(block', w) = Weight(Remains, w) + (w[Rewritten(s)] - w[s])
    <3>1. index \in 1 .. Len(Remains)
      BY <1>10, <2>1
    <3>2. Rewritten(s) \in Statement
      BY <2>3
    <3>3. Weight([Remains EXCEPT ![index] = Rewritten(s)], w) =
             Weight(Remains, w) + (w[Rewritten(s)] - w[Remains[index]])
      <4>1. w \in [Statement -> Nat] /\ Remains \in Seq(Statement)
        BY <1>5, <1>10
      <4> QED BY <3>1, <3>2, <4>1, WeightChange
    <3> QED BY <2>1, <2>2, <3>3
  <2>5. w[Rewritten(s)] - w[s] = Count(MovedCode, T) - Count(code, T)
    <3>1. w[Rewritten(s)] = Count(MovedCode, T) + Targets(s, counted)
      BY <1>5, <2>3
    <3>2. w[s] = Count(code, T) + Targets(s, counted)
      BY <1>5, <2>2
    <3>3. Targets(s, counted) \in Nat
      BY <2>2, StatementsHaveParts DEF Targets
    <3> QED BY <1>9, <3>1, <3>2, <3>3
  <2>6. Weight(block', w) = Weight(block, w) - one - target
    BY <1>6, <1>7, <1>9, <1>11, <1>12, <2>4, <2>5
  <2>7. block' \in Seq(Statement) /\ Len(block') = Len(block)
    BY <1>10, <2>1, <2>3
  <2>8. Weighs(block', arguments', T, counted) = Weighs(block, arguments, T, counted) - one - target
    BY <1>6, <1>12, <2>1, <2>6 DEF Weighs, w, v
  <2> QED BY <1>1, <1>3, <2>1, <2>7, <2>8 DEF one, target
<1>14. CASE part = "arguments"
  <2> DEFINE a == arguments[index]
  <2>1. /\ index \in 1 .. Len(arguments)
        /\ block' = Remains
        /\ arguments' = [arguments EXCEPT ![index] = Rewritten(a)]
    BY <1>14, MoveFound
  <2>2. a \in Argument /\ a.code = code
    BY <1>1, <1>14, <2>1 DEF code, Sites
  <2>3. Weight([arguments EXCEPT ![index] = Rewritten(a)], v) =
           Weight(arguments, v) + (v[Rewritten(a)] - v[a])
    <3>1. Rewritten(a) \in Argument
      BY <1>4, <2>2, StatementsHaveParts DEF Rewritten
    <3> QED BY <1>1, <1>5, <2>1, <3>1, WeightChange
  <2> HIDE DEF a
  <2>4. Rewritten(a) \in Argument /\ Rewritten(a).code = MovedCode
    <3>1. Rewritten(a) \in Argument
      BY <1>4, <2>2, StatementsHaveParts DEF Rewritten
    <3>2. Rewritten(a).code = MovedCode
      BY <2>2 DEF Rewritten, Argument
    <3> QED BY <3>1, <3>2
  <2>5. v[Rewritten(a)] - v[a] = Count(MovedCode, T) - Count(code, T)
    <3>1. v[Rewritten(a)] = Count(MovedCode, T)
      BY <1>5, <2>4
    <3>2. v[a] = Count(code, T)
      BY <1>5, <2>2
    <3> QED BY <3>1, <3>2
  <2>6. Weight(block', w) + Weight(arguments', v) =
           Weight(block, w) + Weight(arguments, v) - one - target
    <3>1. Weight(block', w) = Weight(block, w) - (Count(value, T) + target)
      BY <1>11, <2>1
    <3>2. Weight(arguments', v) = Weight(arguments, v) + (Count(MovedCode, T) - Count(code, T))
      BY <2>1, <2>3, <2>5
    <3> QED BY <1>6, <1>7, <1>9, <1>12, <3>1, <3>2
  <2>7. arguments' \in Seq(Argument) /\ Len(arguments') = Len(arguments)
    BY <1>1, <2>1, <2>4
  <2>8. Weighs(block', arguments', T, counted) = Weighs(block, arguments, T, counted) - one - target
    BY <1>6, <1>12, <2>6 DEF Weighs, w, v
  <2> QED BY <1>1, <1>3, <1>10, <2>1, <2>7, <2>8 DEF one, target
<1> QED BY <1>1, <1>13, <1>14

-----------------------------------------------------------------------------
(* The sweep.                                                              *)
SweptBlock == [i \in DOMAIN block |-> Swept(block[i])]

(* A swept statement has at most the tokens it had, all its calls, and     *)
(* less of a whole if it is another one.                                   *)
LEMMA SweptWeighs ==
  ASSUME NEW s \in Statement, NEW T, NEW counted \in {"tokens", "all"}
  PROVE  LET w == StatementWeight(T, counted)
         IN  /\ Swept(s) \in Statement
             /\ w[Swept(s)] <= w[s]
             /\ IsCallKind(T) /\ counted = "tokens" => w[Swept(s)] = w[s]
             /\ counted = "all" /\ Swept(s) # s => w[Swept(s)] < w[s]
<1> DEFINE w == StatementWeight(T, counted)
<1>1. /\ \A x \in Statement : w[x] = Count(x.code, T) + Targets(x, counted)
      /\ \A c \in Seq(Token) : Count(c, T) \in Nat
      /\ w[Empty] = 0
  BY WeightsOfParts
<1>2. /\ s.dst \in Seq(Locals) /\ s.code \in Seq(Token) /\ Len(s.dst) \in Nat
      /\ Empty \in Statement
  BY StatementsHaveParts
<1> HIDE DEF w
<1>3. /\ w[s] = Count(s.code, T) + Targets(s, counted)
      /\ Count(s.code, T) \in Nat /\ Targets(s, counted) \in Nat
  BY <1>1, <1>2 DEF Targets
<1>4. CASE ~ Unused(s)
  <2>1. Swept(s) = s
    BY <1>4 DEF Swept
  <2> QED BY <1>3, <2>1 DEF w
<1>5. CASE Unused(s)
  <2>1. Targets(s, counted) = IF counted = "all" THEN 1 ELSE 0
    BY <1>5 DEF Unused, Targets
  <2>2. CASE ~ HasEffects(s.code)
    <3>1. Swept(s) = Empty
      BY <1>5, <2>2 DEF Swept
    <3>2. ASSUME IsCallKind(T) PROVE Count(s.code, T) = 0
      <4>1. {i \in DOMAIN s.code : s.code[i] \in T} = {}
        BY <2>2, <3>2 DEF IsCallKind, HasEffects, Effectful
      <4> QED BY <4>1, FS_EmptySet DEF Count
    <3> QED BY <1>1, <1>2, <1>3, <2>1, <3>1, <3>2 DEF w
  <2>3. CASE HasEffects(s.code) /\ Last(s.code).op = "call"
    <3> DEFINE kept == [s EXCEPT !.dst = <<>>]
    <3>1. Swept(s) = kept
      BY <1>5, <2>3 DEF Swept
    <3>2. kept \in Statement /\ kept.code = s.code /\ kept.dst = <<>> /\ Len(kept.dst) = 0
      <4>1. <<>> \in Seq(Locals) /\ Len(<<>>) = 0
        OBVIOUS
      <4>2. s \in [dst : Seq(Locals), code : Seq(Token)]
        BY DEF Statement
      <4>3. kept \in [dst : Seq(Locals), code : Seq(Token)] /\ kept.code = s.code /\ kept.dst = <<>>
        BY <4>1, <4>2
      <4> QED BY <4>1, <4>3 DEF Statement
    <3> HIDE DEF kept
    <3>3. w[kept] = Count(s.code, T) + Targets(kept, counted)
      BY <1>1, <3>2
    <3>4. Targets(kept, counted) = 0
      BY <3>2 DEF Targets
    <3> QED BY <1>3, <2>1, <3>1, <3>2, <3>3, <3>4 DEF w
  <2>4. CASE HasEffects(s.code) /\ Last(s.code).op # "call"
    <3>1. Swept(s) = s
      BY <1>5, <2>4 DEF Swept
    <3> QED BY <1>3, <3>1 DEF w
  <2> QED BY <2>2, <2>3, <2>4
<1> QED BY <1>4, <1>5

(* What the whole sweep changes.                                           *)
LEMMA SweepWeighs ==
  ASSUME InlinerTypeOK, Sweep, NEW T, NEW counted \in {"tokens", "all"}
  PROVE  /\ block' \in Seq(Statement) /\ arguments' = arguments
         /\ Weighs(block', arguments', T, counted) <= Weighs(block, arguments, T, counted)
         /\ IsCallKind(T) /\ counted = "tokens" =>
               Weighs(block', arguments', T, counted) = Weighs(block, arguments, T, counted)
         /\ counted = "all" /\ SweptBlock # block =>
               Weighs(block', arguments', T, counted) < Weighs(block, arguments, T, counted)
         /\ (SweptBlock = block /\ \A i \in DOMAIN block : block[i] # Empty) => block' = block
<1> DEFINE w == StatementWeight(T, counted)
           v == SideWeight(T)
           swept == SweptBlock
<1>1. block \in Seq(Statement) /\ arguments \in Seq(Argument) /\ Len(block) \in Nat
  BY DEF InlinerTypeOK
<1>2. block' = Retained(swept) /\ arguments' = arguments
  BY DEF Sweep, SweptBlock
<1>3. w \in [Statement -> Nat] /\ v \in [Argument -> Nat] /\ w[Empty] = 0
  BY WeightsOfParts
<1>4. ASSUME NEW i \in 1 .. Len(block)
      PROVE  /\ block[i] \in Statement /\ Swept(block[i]) \in Statement
             /\ w[Swept(block[i])] <= w[block[i]]
             /\ IsCallKind(T) /\ counted = "tokens" => w[Swept(block[i])] = w[block[i]]
             /\ counted = "all" /\ Swept(block[i]) # block[i] => w[Swept(block[i])] < w[block[i]]
  <2>1. block[i] \in Statement
    BY <1>1
  <2> QED BY <2>1, SweptWeighs
<1>5. /\ swept \in Seq(Statement) /\ Len(swept) = Len(block)
      /\ \A i \in 1 .. Len(block) : swept[i] = Swept(block[i])
  <2>1. \A i \in 1 .. Len(block) : Swept(block[i]) \in Statement
    BY <1>4
  <2>2. swept = [i \in 1 .. Len(block) |-> Swept(block[i])]
    BY <1>1 DEF SweptBlock
  <2> HIDE DEF swept
  <2> QED BY <1>1, <2>1, <2>2
<1> HIDE DEF w, v, swept
<1>6. /\ Retained(swept) \in Seq(Statement)
      /\ Weight(Retained(swept), w) = Weight(swept, w)
      /\ (\A i \in DOMAIN swept : swept[i] # Empty) => Retained(swept) = swept
  <2>1. Empty \in Statement
    BY StatementsHaveParts
  <2> QED BY <1>3, <1>5, <2>1, RetainedWeight
<1>7. Weight(block, w) \in Nat /\ Weight(swept, w) \in Nat /\ Weight(arguments, v) \in Nat
  BY <1>1, <1>3, <1>5, WeightIsNatural
<1>8. /\ Weight(swept, w) <= Weight(block, w)
      /\ (\E j \in 1 .. Len(block) : w[swept[j]] < w[block[j]]) => Weight(swept, w) < Weight(block, w)
  <2>1. \A i \in 1 .. Len(block) : w[swept[i]] <= w[block[i]]
    BY <1>4, <1>5
  <2>2. w \in [Statement -> Nat] /\ block \in Seq(Statement) /\ swept \in Seq(Statement)
        /\ Len(swept) = Len(block)
    BY <1>1, <1>3, <1>5
  <2> QED BY <2>1, <2>2, WeightMonotonic
<1>9. ASSUME IsCallKind(T), counted = "tokens" PROVE Weight(swept, w) = Weight(block, w)
  <2>1. \A i \in 1 .. Len(swept) : w[block[i]] <= w[swept[i]]
    <3>1. ASSUME NEW i \in 1 .. Len(swept) PROVE w[block[i]] <= w[swept[i]]
      <4>1. w[swept[i]] = w[block[i]] /\ w[block[i]] \in Nat
        BY <1>3, <1>4, <1>5, <1>9
      <4> QED BY <4>1
    <3> QED BY <3>1
  <2>2. w \in [Statement -> Nat] /\ block \in Seq(Statement) /\ swept \in Seq(Statement)
        /\ Len(block) = Len(swept)
    BY <1>1, <1>3, <1>5
  <2>3. Weight(block, w) <= Weight(swept, w)
    BY <2>1, <2>2, WeightMonotonic
  <2> QED BY <1>7, <1>8, <2>3
<1>10. ASSUME counted = "all", swept # block PROVE Weight(swept, w) < Weight(block, w)
  <2>1. \E j \in 1 .. Len(block) : swept[j] # block[j]
    BY <1>1, <1>5, <1>10, SeqEqual
  <2> QED BY <1>4, <1>5, <1>8, <1>10, <2>1
<1>11. Weighs(block', arguments', T, counted) = Weight(swept, w) + Weight(arguments, v)
  BY <1>2, <1>6 DEF Weighs, w, v
<1>12. Weighs(block, arguments, T, counted) = Weight(block, w) + Weight(arguments, v)
  BY DEF Weighs, w, v
<1>13. /\ Weighs(block', arguments', T, counted) <= Weighs(block, arguments, T, counted)
       /\ IsCallKind(T) /\ counted = "tokens" =>
             Weighs(block', arguments', T, counted) = Weighs(block, arguments, T, counted)
       /\ counted = "all" /\ SweptBlock # block =>
             Weighs(block', arguments', T, counted) < Weighs(block, arguments, T, counted)
  BY <1>7, <1>8, <1>9, <1>10, <1>11, <1>12 DEF swept
<1> QED BY <1>2, <1>6, <1>13 DEF swept

-----------------------------------------------------------------------------
(* The invariant.                                                          *)

(* A local is read where a read of it occurs.                              *)
LEMMA ReadsAreCounted ==
  ASSUME NEW code \in Seq(Token), NEW local
  PROVE  local \in ReadsIn(code) <=> Count(code, ReadsOf(local)) > 0
<1> DEFINE reads == {i \in DOMAIN code : code[i] \in ReadsOf(local)}
<1>1. IsFiniteSet(reads) /\ Count(code, ReadsOf(local)) = Cardinality(reads)
      /\ Cardinality(reads) \in Nat
  BY CountIsNatural, FS_CardinalityType DEF Count
<1>2. reads = {} <=> Cardinality(reads) = 0
  BY <1>1, FS_EmptySet
<1>3. \A i \in DOMAIN code : code[i] \in Token
  OBVIOUS
<1>4. local \in ReadsIn(code) <=> reads # {}
  BY <1>3 DEF ReadsIn, ReadsOf
<1> QED BY <1>1, <1>2, <1>4

(* The locals that an expression reads, but for the one that was moved,    *)
(* are still read.                                                         *)
LEMMA OthersAreStillRead ==
  ASSUME InlinerTypeOK, MoveValue
  PROVE  MovedCode \in Seq(Token) /\ ReadsIn(Sites[index].code) \ {MovedLocal} \subseteq ReadsIn(MovedCode)
<1> DEFINE code == Sites[index].code
           value == block[at].code
<1>1. code \in Seq(Token) /\ value \in Seq(Token) /\ MovedLocal \in ReadsIn(code)
  BY MoveFound
<1>2. MovedCode \in Seq(Token)
  <2>1. \A T : IsKind(T) => Inlined(code, MovedLocal, value) \in Seq(Token)
    BY <1>1, InlinedKeepsTokens
  <2> QED BY <2>1, KindsAreKinds DEF MovedCode
<1>3. ASSUME NEW l \in ReadsIn(code), l # MovedLocal
      PROVE  l \in ReadsIn(MovedCode)
  <2> DEFINE T == ReadsOf(l)
  <2>1. IsKind(T)
    BY KindsAreKinds
  <2>2. PICK read \in Token :
           /\ read.op = "read" /\ read.name = MovedLocal
           /\ Count(MovedCode, T) = Count(code, T) + Count(value, T) - (IF read \in T THEN 1 ELSE 0)
    <3> HIDE DEF T, code, value
    <3>1. \E read \in Token :
             /\ read.op = "read" /\ read.name = MovedLocal
             /\ Count(Inlined(code, MovedLocal, value), T) =
                   Count(code, T) + Count(value, T) - (IF read \in T THEN 1 ELSE 0)
      BY <1>1, <2>1, InlinedKeepsTokens
    <3> QED BY <3>1 DEF MovedCode, code, value
  <2>3. read \notin T
    BY <1>3, <2>2 DEF ReadsOf
  <2>4. Count(code, T) > 0
    BY <1>1, ReadsAreCounted
  <2>5. Count(code, T) \in Nat /\ Count(value, T) \in Nat
    BY <1>1, CountsOfTokens
  <2> HIDE DEF T
  <2>6. Count(MovedCode, T) > 0
    BY <2>2, <2>3, <2>4, <2>5
  <2> QED BY <1>2, <2>6, ReadsAreCounted DEF T
<1> QED BY <1>2, <1>3

(* Cursors stay where they belong.                                         *)
LEMMA TypeIsPreserved ==
  ASSUME InlinerTypeOK, Next
  PROVE  InlinerTypeOK'
<1>1. /\ original \in Case
      /\ block \in Seq(Statement) /\ arguments \in Seq(Argument)
      /\ usages \in [Locals -> Nat]
      /\ allowEffects \in BOOLEAN /\ anyChange \in BOOLEAN
      /\ part \in {"statements", "arguments"}
      /\ Len(block) \in Nat /\ Len(arguments) \in Nat
  BY DEF InlinerTypeOK
<1>2. /\ original' = original /\ usages' = usages
  BY DEF Next, BeginStatements, BeginArguments, EndPass, NextSite, GiveUp, SkipReader, MoveValue,
         PassStatement, Sweep
<1> DEFINE InScan(p, items, b, i, a, wants) ==
              /\ DOMAIN wants = DOMAIN items
              /\ i \in 1 .. Len(items) + 1
              /\ a \in 0 .. Len(b) /\ (p = "statements" => a < i)
              /\ \A j \in i .. Len(items) : wants[j] \subseteq ReadsIn(items[j].code)
<1>3. pc = "scan" => InScan(part, Sites, block, index, at, wanted)
  BY DEF InlinerTypeOK
<1>4. ASSUME /\ block' \in Seq(Statement) /\ arguments' \in Seq(Argument)
             /\ allowEffects' \in BOOLEAN /\ anyChange' \in BOOLEAN
             /\ part' \in {"statements", "arguments"} /\ pc' \in {"begin", "scan", "sweep", "done"}
             /\ pc' = "scan" => InScan(part', Sites', block', index', at', wanted')
      PROVE  InlinerTypeOK'
  BY <1>1, <1>2, <1>4 DEF InlinerTypeOK
<1>5. CASE BeginStatements
  <2>1. /\ block' = block /\ arguments' = arguments /\ allowEffects' = TRUE /\ anyChange' = anyChange
        /\ part' = "statements" /\ pc' = "scan" /\ index' = 1 /\ at' = 1 - 1
        /\ wanted' = [i \in DOMAIN block |-> SingleUse(block[i].code)] /\ Sites' = block
    BY <1>5 DEF BeginStatements, SearchFor, Sites
  <2>2. InScan("statements", block, block, 1, 0, [i \in DOMAIN block |-> SingleUse(block[i].code)])
    BY <1>1 DEF SingleUse
  <2> HIDE DEF InScan
  <2> QED BY <1>1, <1>4, <2>1, <2>2
<1>6. CASE BeginArguments
  <2>1. /\ block' = block /\ arguments' = arguments /\ allowEffects' = TRUE /\ anyChange' = anyChange
        /\ part' = "arguments" /\ pc' = "scan" /\ index' = 1 /\ at' = Len(block)
        /\ wanted' = [i \in DOMAIN arguments |-> SingleUse(arguments[i].code)] /\ Sites' = arguments
    BY <1>6 DEF BeginArguments, SearchFor, Sites
  <2>2. InScan("arguments", arguments, block, 1, Len(block),
               [i \in DOMAIN arguments |-> SingleUse(arguments[i].code)])
    BY <1>1 DEF SingleUse
  <2> HIDE DEF InScan
  <2> QED BY <1>1, <1>4, <2>1, <2>2
<1>7. CASE EndPass
  BY <1>1, <1>4, <1>7 DEF EndPass
<1>8. CASE NextSite \/ GiveUp
  <2>1. /\ block' = block /\ arguments' = arguments /\ allowEffects' = TRUE /\ anyChange' = anyChange
        /\ part' = part /\ pc' = "scan" /\ pc = "scan" /\ index' = index + 1
        /\ at' = (IF part = "statements" THEN (index + 1) - 1 ELSE Len(block))
        /\ wanted' = wanted /\ Sites' = Sites /\ index <= Len(Sites)
    <3>1. AtSite /\ SearchFor(part, index + 1)
          /\ UNCHANGED <<block, arguments, part, wanted, anyChange, pc>>
      BY <1>8 DEF NextSite, GiveUp, Searching
    <3>2. Sites' = Sites
      BY <3>1 DEF Sites
    <3>3. pc = "scan" /\ index <= Len(Sites)
      BY <3>1 DEF AtSite
    <3>4. index' = index + 1
      BY <3>1 DEF SearchFor
    <3>5. allowEffects' = TRUE
      BY <3>1 DEF SearchFor
    <3>6. at' = (IF part = "statements" THEN (index + 1) - 1 ELSE Len(block))
      BY <3>1 DEF SearchFor
    <3> QED BY <3>1, <3>2, <3>3, <3>4, <3>5, <3>6
  <2>2. /\ part = "statements" => Sites = block
        /\ part = "arguments" => Sites = arguments
    BY DEF Sites
  <2>3. InScan(part', Sites', block', index', at', wanted')
    <3>1. index + 1 \in 1 .. Len(Sites) + 1 /\ (index + 1) - 1 = index /\ index < index + 1
      BY <1>1, <1>3, <2>1, <2>2
    <3>2. at' \in 0 .. Len(block) /\ (part = "statements" => at' < index + 1)
      BY <1>1, <1>3, <2>1, <2>2, <3>1
    <3>3. \A j \in index + 1 .. Len(Sites) : j \in index .. Len(Sites)
      BY <1>1, <1>3, <2>1, <2>2
    <3> QED BY <1>3, <2>1, <3>1, <3>2, <3>3
  <2> HIDE DEF InScan
  <2> QED BY <1>1, <1>4, <2>1, <2>3
<1>9. CASE SkipReader \/ PassStatement
  <2>1. /\ block' = block /\ arguments' = arguments /\ allowEffects' \in BOOLEAN /\ anyChange' = anyChange
        /\ part' = part /\ pc' = "scan" /\ pc = "scan" /\ index' = index
        /\ at > 0 /\ at' = at - 1 /\ wanted' = wanted /\ Sites' = Sites
    BY <1>1, <1>9 DEF SkipReader, PassStatement, Searching, AtSite, EffectsAllowed, Sites
  <2>2. InScan(part, Sites, block, index, at - 1, wanted)
    <3>1. Len(Sites) \in Nat
      BY <1>1 DEF Sites
    <3>2. at - 1 \in 0 .. Len(block) /\ (part = "statements" => at - 1 < index)
      BY <1>1, <1>3, <2>1, <3>1
    <3> QED BY <1>3, <2>1, <3>2
  <2> HIDE DEF InScan
  <2> QED BY <1>1, <1>4, <2>1, <2>2
<1>10. CASE MoveValue
  <2>1. /\ block' \in Seq(Statement) /\ arguments' \in Seq(Argument)
        /\ Len(block') = Len(block) /\ Len(arguments') = Len(arguments)
    BY <1>10, KindsAreKinds, MoveWeighs
  <2>2. /\ allowEffects' = TRUE /\ anyChange' = TRUE /\ part' = part /\ pc' = "scan" /\ pc = "scan"
        /\ index' = index /\ at' = (IF part = "statements" THEN index - 1 ELSE Len(block))
        /\ wanted' = [wanted EXCEPT ![index] = @ \ {MovedLocal}]
    BY <1>10 DEF MoveValue, Searching, AtSite, SearchFor, Changed, MovedLocal
  <2>3. /\ at \in 1 .. Len(block) /\ index \in 1 .. Len(Sites)
        /\ part = "statements" =>
              /\ at # index /\ index \in 1 .. Len(block)
              /\ block' = [Remains EXCEPT ![index] = Rewritten(block[index])]
        /\ part = "arguments" =>
              /\ index \in 1 .. Len(arguments)
              /\ arguments' = [arguments EXCEPT ![index] = Rewritten(arguments[index])]
    BY <1>10, MoveFound
  <2>4. ReadsIn(Sites[index].code) \ {MovedLocal} \subseteq ReadsIn(MovedCode)
    BY <1>10, OthersAreStillRead
  <2>5. /\ InScan(part, Sites, block, index, at, wanted) /\ Len(Sites) \in Nat
        /\ wanted[index] \subseteq ReadsIn(Sites[index].code)
    <3>1. Len(Sites) \in Nat
      BY <1>1 DEF Sites
    <3>2. index \in index .. Len(Sites)
      BY <2>3, <3>1
    <3> QED BY <1>3, <2>2, <3>1, <3>2
  <2>6. ASSUME NEW j \in index .. Len(Sites)
        PROVE  Sites'[j].code = (IF j = index THEN MovedCode ELSE Sites[j].code)
    <3>1. j \in 1 .. Len(Sites)
      BY <2>3, <2>5
    <3>2. CASE part = "statements"
      <4>1. Sites = block /\ Sites' = block'
        BY <2>2, <3>2 DEF Sites
      <4>2. Len(Remains) = Len(block) /\ j # at
            /\ j \in 1 .. Len(block) /\ Remains[j] = block[j] /\ block[j] \in Statement
        BY <1>1, <2>3, <2>5, <3>1, <3>2, <4>1 DEF Remains
      <4>3. DOMAIN Remains = 1 .. Len(block)
        BY <1>1 DEF Remains
      <4>4. block'[j] = IF j = index THEN Rewritten(block[index]) ELSE block[j]
        BY <2>3, <3>2, <4>2, <4>3
      <4>5. Rewritten(block[j]).code = MovedCode
        BY <4>2 DEF Rewritten, Statement
      <4> QED BY <4>1, <4>4, <4>5
    <3>3. CASE part = "arguments"
      <4>1. Sites = arguments /\ Sites' = arguments'
        BY <2>2, <3>3 DEF Sites
      <4>2. j \in 1 .. Len(arguments) /\ arguments[j] \in Argument /\ DOMAIN arguments = 1 .. Len(arguments)
        BY <1>1, <3>1, <4>1
      <4>3. arguments'[j] = IF j = index THEN Rewritten(arguments[index]) ELSE arguments[j]
        BY <2>3, <3>3, <4>2
      <4>4. Rewritten(arguments[j]).code = MovedCode
        BY <4>2 DEF Rewritten, Argument
      <4> QED BY <4>1, <4>3, <4>4
    <3> QED BY <1>1, <3>2, <3>3
  <2>7. DOMAIN Sites' = DOMAIN Sites /\ Len(Sites') = Len(Sites) /\ DOMAIN Sites = 1 .. Len(Sites)
    BY <1>1, <2>1, <2>2 DEF Sites
  <2>8. ASSUME NEW j \in index .. Len(Sites)
        PROVE  wanted'[j] \subseteq ReadsIn(Sites'[j].code)
    <3>1. j \in DOMAIN wanted
      BY <2>3, <2>5, <2>7
    <3>2. CASE j = index
      <4>1. wanted'[j] = wanted[index] \ {MovedLocal}
        BY <2>2, <3>1, <3>2
      <4> QED BY <2>4, <2>5, <2>6, <3>2, <4>1
    <3>3. CASE j # index
      <4>1. wanted'[j] = wanted[j]
        BY <2>2, <3>1, <3>3
      <4>2. wanted[j] \subseteq ReadsIn(Sites[j].code)
        BY <2>5
      <4> QED BY <2>6, <3>3, <4>1, <4>2
    <3> QED BY <3>2, <3>3
  <2>9. DOMAIN wanted' = DOMAIN Sites'
    BY <2>2, <2>5, <2>7
  <2>10. at' \in 0 .. Len(block') /\ (part = "statements" => at' < index)
    <3>1. part = "statements" => Len(Sites) = Len(block)
      BY DEF Sites
    <3> QED BY <1>1, <2>1, <2>2, <2>3, <2>5, <3>1
  <2>11. InScan(part', Sites', block', index', at', wanted')
    BY <2>2, <2>3, <2>5, <2>7, <2>8, <2>9, <2>10
  <2> HIDE DEF InScan
  <2> QED BY <1>1, <1>4, <2>1, <2>2, <2>11
<1>11. CASE Sweep
  <2>1. block' \in Seq(Statement) /\ arguments' = arguments
    BY <1>11, SweepWeighs
  <2>2. /\ anyChange' \in BOOLEAN /\ pc' \in {"begin", "done"}
        /\ allowEffects' = allowEffects /\ part' = part
    BY <1>1, <1>11 DEF Sweep
  <2> HIDE DEF InScan
  <2> QED BY <1>1, <1>4, <2>1, <2>2
<1> QED BY <1>5, <1>6, <1>7, <1>8, <1>9, <1>10, <1>11 DEF Next

(* A step that leaves the statements and arguments alone.                  *)
IsQuiet == UNCHANGED <<original, block, arguments, usages, anyChange>>

(* Values are moved and swept away in two actions only.                    *)
LEMMA StepsAreQuiet ==
  ASSUME Next
  PROVE  IsQuiet \/ MoveValue \/ Sweep
BY DEF Next, BeginStatements, BeginArguments, EndPass, NextSite, GiveUp, SkipReader, PassStatement,
       IsQuiet

(* Nothing that is moved or swept away makes a local be read more often.   *)
LEMMA BoundsArePreserved ==
  ASSUME InlinerTypeOK, UsagesAreBounds, Next
  PROVE  UsagesAreBounds'
<1>1. block \in Seq(Statement) /\ arguments \in Seq(Argument) /\ usages \in [Locals -> Nat]
  BY DEF InlinerTypeOK
<1>2. usages' = usages
  BY DEF Next, BeginStatements, BeginArguments, EndPass, NextSite, GiveUp, SkipReader, MoveValue,
         PassStatement, Sweep
<1>3. CASE IsQuiet
  BY <1>3 DEF IsQuiet, UsagesAreBounds, Uses, UsesIn
<1>4. ASSUME NEW l \in Locals, MoveValue \/ Sweep
      PROVE  Uses(block', arguments', l) <= usages'[l]
  <2> DEFINE T == ReadsOf(l)
  <2>1. IsKind(T) /\ "tokens" \in {"tokens", "all"}
    BY KindsAreKinds
  <2> HIDE DEF T
  <2>2. /\ block' \in Seq(Statement) /\ arguments' \in Seq(Argument)
        /\ Weighs(block', arguments', T, "tokens") <= Weighs(block, arguments, T, "tokens")
    <3>1. Weighs(block, arguments, T, "tokens") \in Nat
      BY <1>1, WeighsIsNatural
    <3>2. CASE MoveValue
      <4>1. /\ block' \in Seq(Statement) /\ arguments' \in Seq(Argument)
            /\ \E read \in Token :
                  Weighs(block', arguments', T, "tokens") =
                     Weighs(block, arguments, T, "tokens")
                     - (IF read \in T THEN 1 ELSE 0) - (IF "tokens" = "all" THEN 1 ELSE 0)
        BY <2>1, <3>2, MoveWeighs
      <4> QED BY <3>1, <4>1
    <3>3. CASE Sweep
      BY <1>1, <2>1, <3>3, SweepWeighs
    <3> QED BY <1>4, <3>2, <3>3
  <2>3. /\ Uses(block', arguments', l) = Weighs(block', arguments', T, "tokens")
        /\ Uses(block, arguments, l) = Weighs(block, arguments, T, "tokens")
    BY <1>1, <2>2, CountsAreWeights DEF T
  <2>4. Uses(block, arguments, l) <= usages[l] /\ usages[l] \in Nat
    BY <1>1 DEF UsagesAreBounds
  <2>5. /\ Weighs(block, arguments, T, "tokens") \in Nat
        /\ Weighs(block', arguments', T, "tokens") \in Nat
    BY <1>1, <2>2, WeighsIsNatural
  <2> QED BY <1>2, <2>2, <2>3, <2>4, <2>5
<1>5. CASE MoveValue \/ Sweep
  <2>1. \A l \in Locals : Uses(block', arguments', l) <= usages'[l]
    BY <1>4, <1>5
  <2>2. UsagesAreBounds' <=> \A l \in Locals : Uses(block', arguments', l) <= usages'[l]
    BY DEF UsagesAreBounds, Uses, UsesIn
  <2> QED BY <2>1, <2>2
<1> QED BY <1>3, <1>5, StepsAreQuiet

(* The block is what it was until a change is reported, and smaller then.  *)
Reported ==
    IF anyChange
    THEN Size(block, arguments) < Size(original.block, original.arguments)
    ELSE block = original.block /\ arguments = original.arguments

(* A move takes a read and a target away, a sweep that changes something at *)
(* least a target.                                                         *)
LEMMA ReportIsPreserved ==
  ASSUME InlinerTypeOK, NothingIsEmpty, Reported, Next
  PROVE  Reported'
<1>1. /\ block \in Seq(Statement) /\ arguments \in Seq(Argument) /\ anyChange \in BOOLEAN
      /\ original.block \in Seq(Statement) /\ original.arguments \in Seq(Argument)
  BY DEF InlinerTypeOK, Case
<1>2. original' = original
  BY DEF Next, BeginStatements, BeginArguments, EndPass, NextSite, GiveUp, SkipReader, MoveValue,
         PassStatement, Sweep
<1>3. Reported' <=> IF anyChange'
                    THEN Size(block', arguments') < Size(original.block, original.arguments)
                    ELSE block' = original.block /\ arguments' = original.arguments
  BY <1>2 DEF Reported, Size
<1>4. /\ Size(block, arguments) \in Nat
      /\ Size(original.block, original.arguments) \in Nat
      /\ Size(block, arguments) = Weighs(block, arguments, Token, "all")
  <2>1. \A b \in Seq(Statement), a \in Seq(Argument) :
           Size(b, a) \in Nat /\ Size(b, a) = Weighs(b, a, Token, "all")
    <3> SUFFICES ASSUME NEW b \in Seq(Statement), NEW a \in Seq(Argument)
                 PROVE  Size(b, a) \in Nat /\ Size(b, a) = Weighs(b, a, Token, "all")
      OBVIOUS
    <3>1. Size(b, a) = Weighs(b, a, Token, "all")
      BY CountsAreWeights
    <3>2. Weighs(b, a, Token, "all") \in Nat
      BY WeighsIsNatural
    <3> QED BY <3>1, <3>2
  <2> QED BY <1>1, <2>1
<1>5. CASE IsQuiet
  BY <1>3, <1>5 DEF IsQuiet, Reported
<1>6. Size(block, arguments) <= Size(original.block, original.arguments)
  BY <1>1, <1>4 DEF Reported
<1>7. CASE MoveValue
  <2>1. /\ block' \in Seq(Statement) /\ arguments' \in Seq(Argument)
        /\ \E read \in Token :
              Weighs(block', arguments', Token, "all") =
                 Weighs(block, arguments, Token, "all")
                 - (IF read \in Token THEN 1 ELSE 0) - (IF "all" = "all" THEN 1 ELSE 0)
    BY <1>7, KindsAreKinds, MoveWeighs
  <2>2. Size(block', arguments') = Weighs(block', arguments', Token, "all")
    BY <2>1, CountsAreWeights
  <2>3. Size(block', arguments') < Size(block, arguments)
    BY <1>4, <2>1, <2>2
  <2>4. Size(block', arguments') \in Nat
    BY <2>1, <2>2, WeighsIsNatural
  <2>5. anyChange'
    BY <1>7 DEF MoveValue, Changed
  <2> QED BY <1>3, <1>4, <1>6, <2>3, <2>4, <2>5
<1>8. CASE Sweep
  <2>1. /\ block' \in Seq(Statement) /\ arguments' = arguments
        /\ Weighs(block', arguments', Token, "all") <= Weighs(block, arguments, Token, "all")
        /\ SweptBlock # block =>
               Weighs(block', arguments', Token, "all") < Weighs(block, arguments, Token, "all")
        /\ (SweptBlock = block /\ \A i \in DOMAIN block : block[i] # Empty) => block' = block
    BY <1>8, SweepWeighs
  <2>2. anyChange' = (anyChange \/ SweptBlock # block)
    BY <1>8 DEF Sweep, SweptBlock
  <2>3. Size(block', arguments') = Weighs(block', arguments', Token, "all")
    BY <1>1, <2>1, CountsAreWeights
  <2>4. Size(block', arguments') \in Nat
    BY <1>1, <2>1, <2>3, WeighsIsNatural
  <2>5. CASE SweptBlock # block
    <3>1. anyChange'
      BY <2>2, <2>5
    <3>2. Size(block', arguments') < Size(original.block, original.arguments)
      BY <1>4, <1>6, <2>1, <2>3, <2>4, <2>5
    <3> QED BY <1>3, <3>1, <3>2
  <2>6. CASE SweptBlock = block /\ anyChange
    <3>1. Size(block, arguments) < Size(original.block, original.arguments)
      BY <2>6 DEF Reported
    <3>2. anyChange'
      BY <2>2, <2>6
    <3>3. Size(block', arguments') < Size(original.block, original.arguments)
      BY <1>4, <2>1, <2>3, <2>4, <3>1
    <3> QED BY <1>3, <3>2, <3>3
  <2>7. CASE SweptBlock = block /\ ~ anyChange
    <3>1. block = original.block /\ arguments = original.arguments
      BY <2>7 DEF Reported
    <3>2. block' = block
      BY <2>1, <2>7, <3>1 DEF NothingIsEmpty
    <3> QED BY <1>3, <2>1, <2>2, <2>7, <3>1, <3>2
  <2> QED BY <2>5, <2>6, <2>7
<1> QED BY <1>5, <1>7, <1>8, StepsAreQuiet

(* Every call is made as often as in the block that was given.             *)
CallsKept ==
    \A call \in Token :
        call.op = "call" =>
            Occurrences(block, arguments, call)
                = Occurrences(original.block, original.arguments, call)

(* A move takes no call away, nor does the sweep.                          *)
LEMMA CallsArePreserved ==
  ASSUME InlinerTypeOK, CallsKept, Next
  PROVE  CallsKept'
<1>1. block \in Seq(Statement) /\ arguments \in Seq(Argument)
  BY DEF InlinerTypeOK
<1>2. original' = original
  BY DEF Next, BeginStatements, BeginArguments, EndPass, NextSite, GiveUp, SkipReader, MoveValue,
         PassStatement, Sweep
<1>3. ASSUME NEW call \in Token, call.op = "call"
      PROVE  Occurrences(block', arguments', call) = Occurrences(block, arguments, call)
  <2> DEFINE T == {call}
  <2>1. IsCallKind(T) /\ IsKind(T)
    BY <1>3, KindsAreKinds DEF IsCallKind
  <2>2. \A read \in Token : read.op = "read" => read \notin T
    BY <1>3
  <2> HIDE DEF T
  <2>3. CASE IsQuiet
    BY <2>3 DEF IsQuiet
  <2>4. /\ Weighs(block, arguments, T, "tokens") \in Nat
        /\ Occurrences(block, arguments, call) = Weighs(block, arguments, T, "tokens")
    BY <1>1, CountsAreWeights, WeighsIsNatural DEF T
  <2>5. CASE MoveValue
    <3>1. /\ block' \in Seq(Statement) /\ arguments' \in Seq(Argument)
          /\ \E read \in Token :
                /\ read.op = "read"
                /\ Weighs(block', arguments', T, "tokens") =
                      Weighs(block, arguments, T, "tokens")
                      - (IF read \in T THEN 1 ELSE 0) - (IF "tokens" = "all" THEN 1 ELSE 0)
      BY <2>1, <2>5, MoveWeighs
    <3>2. Weighs(block', arguments', T, "tokens") = Weighs(block, arguments, T, "tokens")
      BY <2>2, <2>4, <3>1
    <3>3. Occurrences(block', arguments', call) = Weighs(block', arguments', T, "tokens")
      BY <3>1, CountsAreWeights DEF T
    <3> QED BY <2>4, <3>2, <3>3
  <2>6. CASE Sweep
    <3>1. /\ block' \in Seq(Statement) /\ arguments' = arguments
          /\ Weighs(block', arguments', T, "tokens") = Weighs(block, arguments, T, "tokens")
      BY <2>1, <2>6, SweepWeighs
    <3>2. Occurrences(block', arguments', call) = Weighs(block', arguments', T, "tokens")
      BY <1>1, <3>1, CountsAreWeights DEF T
    <3> QED BY <2>4, <3>1, <3>2
  <2> QED BY <2>3, <2>5, <2>6, StepsAreQuiet
<1>4. CallsKept' <=> \A call \in Token :
                        call.op = "call" =>
                            Occurrences(block', arguments', call)
                                = Occurrences(original.block, original.arguments, call)
  BY <1>2 DEF CallsKept, Occurrences, Times
<1> QED BY <1>3, <1>4 DEF CallsKept

(* The calls that occur are tokens.                                        *)
LEMMA CallsKeptSurvive ==
  ASSUME InlinerTypeOK, CallsKept
  PROVE  CallsSurvive
<1>1. ASSUME NEW items, NEW t \in CallsIn(items),
             \A i \in DOMAIN items : items[i].code \in Seq(Token)
      PROVE  t \in Token /\ t.op = "call"
  <2>1. PICK i \in DOMAIN items : t \in ToSet(items[i].code) /\ t.op = "call"
    BY DEF CallsIn
  <2>2. items[i].code \in Seq(Token)
    BY <1>1
  <2> QED BY <2>1, <2>2 DEF ToSet
<1>2. /\ block \in Seq(Statement) /\ arguments \in Seq(Argument)
      /\ original.block \in Seq(Statement) /\ original.arguments \in Seq(Argument)
  BY DEF InlinerTypeOK, Case
<1>3. /\ \A i \in DOMAIN block : block[i].code \in Seq(Token)
      /\ \A i \in DOMAIN arguments : arguments[i].code \in Seq(Token)
      /\ \A i \in DOMAIN original.block : original.block[i].code \in Seq(Token)
      /\ \A i \in DOMAIN original.arguments : original.arguments[i].code \in Seq(Token)
  <2>1. \A b \in Seq(Statement) : \A i \in DOMAIN b : b[i] \in Statement
    OBVIOUS
  <2>2. \A a \in Seq(Argument) : \A i \in DOMAIN a : a[i] \in Argument
    OBVIOUS
  <2> QED BY <1>2, <2>1, <2>2, StatementsHaveParts
<1>4. \A call \in CallsIn(block) \cup CallsIn(arguments)
                   \cup CallsIn(original.block) \cup CallsIn(original.arguments) :
         call \in Token /\ call.op = "call"
  BY <1>1, <1>3
<1> QED BY <1>4 DEF CallsSurvive, CallsKept

(* The block that is given.                                                *)
LEMMA InitHolds ==
  ASSUME Init
  PROVE  InlinerTypeOK /\ CallsKept /\ UsagesAreBounds /\ Reported
<1>1. original \in Case
  BY CasesAssumption DEF Init
<1>2. /\ block = original.block /\ arguments = original.arguments
      /\ block \in Seq(Statement) /\ arguments \in Seq(Argument)
      /\ anyChange = FALSE /\ allowEffects = TRUE /\ part = "statements" /\ pc = "begin"
      /\ usages = [l \in Locals |-> Uses(block, arguments, l)]
  BY <1>1 DEF Init, Case
<1>3. ASSUME NEW l \in Locals PROVE Uses(block, arguments, l) \in Nat
  <2>1. Uses(block, arguments, l) = Weighs(block, arguments, ReadsOf(l), "tokens")
    BY <1>2, CountsAreWeights
  <2>2. Weighs(block, arguments, ReadsOf(l), "tokens") \in Nat
    BY <1>2, WeighsIsNatural
  <2> QED BY <2>1, <2>2
<1>4. usages \in [Locals -> Nat]
  BY <1>2, <1>3
<1>5. InlinerTypeOK
  BY <1>1, <1>2, <1>4 DEF InlinerTypeOK
<1>6. CallsKept
  BY <1>2 DEF CallsKept
<1>7. UsagesAreBounds
  BY <1>2, <1>3 DEF UsagesAreBounds
<1>8. Reported
  BY <1>2 DEF Reported
<1> QED BY <1>5, <1>6, <1>7, <1>8

-----------------------------------------------------------------------------
(* inline() keeps its cursors inside what they point into, and wants no    *)
(* local where it is not read; the usages it counted once remain upper     *)
(* bounds while values move and assignments are swept away; and the block  *)
(* is smaller than before as soon as a change is reported, the same until  *)
(* then (inline.rs, inline()).                                             *)
THEOREM InlinerIsConsistent == Spec => []InlinerInvariant
<1> DEFINE Inv == InlinerTypeOK /\ UsagesAreBounds /\ (NothingIsEmpty => Reported)
<1>1. Init => Inv
  BY InitHolds
<1>2. Inv /\ [Next]_vars => Inv'
  <2> SUFFICES ASSUME Inv, [Next]_vars PROVE Inv'
    OBVIOUS
  <2>1. CASE Next
    <3>1. InlinerTypeOK' /\ UsagesAreBounds'
      BY <2>1, TypeIsPreserved, BoundsArePreserved
    <3>2. NothingIsEmpty' => NothingIsEmpty
      BY <2>1 DEF Next, BeginStatements, BeginArguments, EndPass, NextSite, GiveUp, SkipReader,
                  MoveValue, PassStatement, Sweep, NothingIsEmpty
    <3>3. NothingIsEmpty => Reported'
      BY <2>1, ReportIsPreserved
    <3> QED BY <3>1, <3>2, <3>3
  <2>2. CASE UNCHANGED vars
    <3>1. InlinerTypeOK'
      BY <2>2 DEF vars, InlinerTypeOK, Sites
    <3>2. UsagesAreBounds'
      BY <2>2 DEF vars, UsagesAreBounds, Uses, UsesIn
    <3>3. (NothingIsEmpty' <=> NothingIsEmpty) /\ (Reported' <=> Reported)
      BY <2>2 DEF vars, NothingIsEmpty, Reported, Size
    <3> QED BY <3>1, <3>2, <3>3
  <2> QED BY <2>1, <2>2
<1>3. Inv => InlinerInvariant
  BY DEF InlinerInvariant, Reported
<1> QED BY <1>1, <1>2, <1>3, PTL DEF Spec

(* No call is lost or made twice when values move and unused assignments   *)
(* are swept away: each is made as often as in the block that was given    *)
(* (inline.rs, inline() and the sweep behind it).                          *)
THEOREM CallsAlwaysSurvive == Spec => []CallsSurvive
<1> DEFINE Inv == InlinerTypeOK /\ CallsKept
<1>1. Init => Inv
  BY InitHolds
<1>2. Inv /\ [Next]_vars => Inv'
  <2> SUFFICES ASSUME Inv, [Next]_vars PROVE Inv'
    OBVIOUS
  <2>1. CASE Next
    BY <2>1, TypeIsPreserved, CallsArePreserved
  <2>2. CASE UNCHANGED vars
    <3>1. InlinerTypeOK'
      BY <2>2 DEF vars, InlinerTypeOK, Sites
    <3>2. CallsKept'
      <4>1. block' = block /\ arguments' = arguments /\ original' = original
        BY <2>2 DEF vars
      <4>2. CallsKept' <=> \A call \in Token :
                              call.op = "call" =>
                                  Occurrences(block', arguments', call)
                                      = Occurrences(original.block, original.arguments, call)
        BY <4>1 DEF CallsKept, Occurrences, Times
      <4> QED BY <4>1, <4>2 DEF CallsKept
    <3> QED BY <3>1, <3>2
  <2> QED BY <2>1, <2>2
<1>3. Inv => CallsSurvive
  BY CallsKeptSurvive
<1> QED BY <1>1, <1>2, <1>3, PTL DEF Spec

(* The flag that inline() returns is set if and only if the block or an    *)
(* argument is another one than before, provided that no statement that is *)
(* given is Empty (inline.rs, inline(); lib.rs, the pass "inline").        *)
THEOREM ReportIsAlwaysTrue == Spec => [](NothingIsEmpty => ReportIsTrue)
<1>1. InlinerInvariant => (NothingIsEmpty => ReportIsTrue)
  <2> SUFFICES ASSUME InlinerInvariant, NothingIsEmpty PROVE ReportIsTrue
    OBVIOUS
  <2>1. CASE anyChange
    <3>1. Size(block, arguments) < Size(original.block, original.arguments)
      BY <2>1 DEF InlinerInvariant
    <3>2. /\ original.block \in Seq(Statement) /\ original.arguments \in Seq(Argument)
      BY DEF InlinerInvariant, InlinerTypeOK, Case
    <3>3. Size(original.block, original.arguments) \in Nat
      <4>1. /\ Size(original.block, original.arguments)
                  = Weighs(original.block, original.arguments, Token, "all")
            /\ Weighs(original.block, original.arguments, Token, "all") \in Nat
        BY <3>2, CountsAreWeights, WeighsIsNatural
      <4> QED BY <4>1
    <3>4. ASSUME block = original.block, arguments = original.arguments PROVE FALSE
      BY <3>1, <3>3, <3>4
    <3> QED BY <2>1, <3>4 DEF ReportIsTrue
  <2>2. CASE ~ anyChange
    BY <2>2 DEF InlinerInvariant, ReportIsTrue
  <2> QED BY <2>1, <2>2
<1> QED BY <1>1, InlinerIsConsistent, PTL

-----------------------------------------------------------------------------
(***************************************************************************)
(* What the inliner keeps: a block has the same effects, in                *)
(* the same order, and passes the same values along its edge whatever is   *)
(* moved and swept away, if no register is shared and no local captured.   *)
(*                                                                         *)
(* Two machines run side by side, one on the block before a step and one   *)
(* on the block after it.  Up to the assignment of the value they agree;   *)
(* behind it they agree on all locals but the one that is gone, and one    *)
(* still has the effects of the value before it; where the value arrives   *)
(* they agree again, since the tokens before it have no effects if it has, *)
(* and the operands of a comparison that change sides find each other      *)
(* turned.  Inside an expression the argument runs along the stack, whose  *)
(* depth tells which tokens make up an operand.                            *)
(***************************************************************************)

(* A stack, of values of any kind.                                         *)
IsStack(s) == \E n \in Nat : s = [i \in 1 .. n |-> s[i]]

(* A stack is a sequence over any set that has its values.                 *)
LEMMA StackFacts ==
  ASSUME NEW s, IsStack(s)
  PROVE  /\ Len(s) \in Nat /\ DOMAIN s = 1 .. Len(s)
         /\ s = [i \in 1 .. Len(s) |-> s[i]]
         /\ \A S : (\A i \in 1 .. Len(s) : s[i] \in S) => s \in Seq(S)
<1>1. PICK n \in Nat : s = [i \in 1 .. n |-> s[i]]
  BY DEF IsStack
<1> DEFINE S == {s[i] : i \in 1 .. n}
<1>2. s \in [1 .. n -> S]
  BY <1>1
<1>3. s \in Seq(S)
  <2> HIDE DEF S
  <2> QED BY <1>2, SeqDef
<1>4. DOMAIN s = 1 .. n
  BY <1>1
<1>5. Len(s) = n
  <2> HIDE DEF S
  <2> QED BY <1>3, <1>4, LenProperties, SMT
<1>6. ASSUME NEW R, \A i \in 1 .. Len(s) : s[i] \in R PROVE s \in Seq(R)
  <2>1. s \in [1 .. n -> R]
    BY <1>1, <1>5, <1>6
  <2> QED BY <2>1, SeqDef
<1> QED BY <1>1, <1>4, <1>5, <1>6

(* The empty stack.                                                        *)
LEMMA StackEmpty == IsStack(<<>>) /\ Len(<<>>) = 0
<1>1. <<>> = [i \in 1 .. 0 |-> <<>>[i]]
  OBVIOUS
<1> QED BY <1>1 DEF IsStack

(* A result replaces what is on top of a stack.                            *)
LEMMA StackPushed ==
  ASSUME NEW s, IsStack(s), NEW k \in 0 .. Len(s), NEW r
  PROVE  LET p == Append(SubSeq(s, 1, k), r)
         IN  /\ IsStack(p) /\ Len(p) = k + 1 /\ p[k + 1] = r
             /\ \A i \in 1 .. k : p[i] = s[i]
<1> DEFINE S == {s[i] : i \in 1 .. Len(s)} \cup {r}
           c == SubSeq(s, 1, k)
           p == Append(c, r)
<1>1. s \in Seq(S) /\ Len(s) \in Nat /\ r \in S
  BY StackFacts
<1> HIDE DEF S
<1>2. c \in Seq(S) /\ Len(c) = k /\ \A i \in 1 .. k : c[i] = s[i]
  BY <1>1
<1> HIDE DEF c
<1>3. p \in Seq(S) /\ Len(p) = k + 1 /\ p[k + 1] = r /\ \A i \in 1 .. k : p[i] = c[i]
  BY <1>1, <1>2
<1>4. p = [i \in 1 .. k + 1 |-> p[i]]
  <2> HIDE DEF p
  <2> QED BY <1>3, LenProperties
<1>5. IsStack(p)
  BY <1>1, <1>4 DEF IsStack
<1> QED BY <1>2, <1>3, <1>5 DEF c

(* Equal tops of stacks.                                                   *)
LEMMA StackTops ==
  ASSUME NEW s, NEW t, IsStack(s), IsStack(t), NEW a \in Nat, a <= Len(s), a <= Len(t),
         \A i \in 1 .. a : s[Len(s) - a + i] = t[Len(t) - a + i]
  PROVE  SubSeq(s, Len(s) - a + 1, Len(s)) = SubSeq(t, Len(t) - a + 1, Len(t))
<1> DEFINE S == {s[i] : i \in 1 .. Len(s)} \cup {t[i] : i \in 1 .. Len(t)}
           u == SubSeq(s, Len(s) - a + 1, Len(s))
           v == SubSeq(t, Len(t) - a + 1, Len(t))
<1>1. s \in Seq(S) /\ Len(s) \in Nat /\ t \in Seq(S) /\ Len(t) \in Nat
  BY StackFacts
<1> HIDE DEF S
<1>2. u \in Seq(S) /\ Len(u) = a /\ \A i \in 1 .. a : u[i] = s[Len(s) - a + i]
  BY <1>1
<1>3. v \in Seq(S) /\ Len(v) = a /\ \A i \in 1 .. a : v[i] = t[Len(t) - a + i]
  BY <1>1
<1> HIDE DEF u, v
<1>4. u = v
  BY <1>2, <1>3, SeqEqual
<1> QED BY <1>4 DEF u, v

-----------------------------------------------------------------------------
(* Machines.  The proofs are about blocks in which no local is captured.   *)
IsMachine(m) ==
    /\ m = [values |-> m.values, stack |-> m.stack, log |-> m.log]
    /\ IsStack(m.stack)

(* A token whose operands are on the stack.                                *)
IsSupplied(token, k) ==
    /\ token \in Token /\ token.arity <= k
    /\ token.op = "read" => token.name \in Locals /\ token.arity = 0

(* A machine with another stack, and with another log.                     *)
LEMMA MachineParts ==
  ASSUME NEW m, IsMachine(m), NEW s, NEW l
  PROVE  /\ [m EXCEPT !.stack = s] = [values |-> m.values, stack |-> s, log |-> m.log]
         /\ [m EXCEPT !.stack = s, !.log = l] = [values |-> m.values, stack |-> s, log |-> l]
<1>1. PICK v, k, o : v = m.values /\ k = m.stack /\ o = m.log
  OBVIOUS
<1>2. m = [values |-> v, stack |-> k, log |-> o]
  BY <1>1 DEF IsMachine
<1> DEFINE V == {v}
           K == {k}
           O == {o}
           q == [m EXCEPT !.stack = s]
           L == {s}
<1>3. m \in [values : V, stack : K, log : O]
  BY <1>2
<1>4. q = [values |-> m.values, stack |-> s, log |-> m.log]
  <2> HIDE DEF V, K, O
  <2> QED BY <1>3
<1>5. q \in [values : V, stack : L, log : O]
  <2>1. q = [values |-> v, stack |-> s, log |-> o]
    BY <1>1, <1>4
  <2> HIDE DEF q
  <2> QED BY <2>1
<1>6. [q EXCEPT !.log = l] = [values |-> q.values, stack |-> q.stack, log |-> l]
  <2> HIDE DEF V, L, O, q
  <2> QED BY <1>5
<1>7. q.values = m.values /\ q.stack = s
  <2> HIDE DEF q
  <2> QED BY <1>4
<1>8. [m EXCEPT !.stack = s, !.log = l] = [q EXCEPT !.log = l]
  OBVIOUS
<1> HIDE DEF q
<1>9. [m EXCEPT !.stack = s, !.log = l] = [values |-> m.values, stack |-> s, log |-> l]
  BY <1>6, <1>7, <1>8
<1> QED BY <1>4, <1>9 DEF q

(* What a token does.                                                      *)
TokenResult(m, token) ==
    IF token.op = "read" THEN m.values[token.name]
    ELSE Result(token.name, Operands(m, token), IF token.op = "pure" THEN 0 ELSE Len(m.log) + 1)

(* What a token does: it takes its operands from the stack, leaves its     *)
(* result there and, if it has effects, logs them.                         *)
LEMMA TokenStep ==
  ASSUME original.upvalues = {}, NEW m, IsMachine(m), NEW t, IsSupplied(t, Len(m.stack))
  PROVE  LET e == EvaluateToken(m, t)
             n == Len(m.stack) - t.arity
         IN  /\ IsMachine(e)
             /\ e.values = m.values
             /\ Len(e.stack) = n + 1
             /\ \A i \in 1 .. n : e.stack[i] = m.stack[i]
             /\ e.stack[n + 1] = TokenResult(m, t)
             /\ e.log = IF Effectful(t)
                        THEN Append(m.log, Result(t.name, Operands(m, t), Len(m.log)))
                        ELSE m.log
<1> DEFINE n == Len(m.stack) - t.arity
           r == TokenResult(m, t)
           s == Append(SubSeq(m.stack, 1, n), r)
           l == Append(m.log, Result(t.name, Operands(m, t), Len(m.log)))
           e == EvaluateToken(m, t)
<1>1. /\ t \in Token /\ t.arity \in Nat /\ t.arity <= Len(m.stack)
      /\ t.op \in {"read", "pure", "load", "compare", "converse", "call"}
      /\ t.op = "read" => t.arity = 0
      /\ IsStack(m.stack) /\ Len(m.stack) \in Nat /\ n \in 0 .. Len(m.stack)
  BY StackFacts DEF IsSupplied, IsMachine, Token
<1>2. /\ IsStack(s) /\ Len(s) = n + 1 /\ s[n + 1] = r
      /\ \A i \in 1 .. n : s[i] = m.stack[i]
  <2> HIDE DEF n, r
  <2> QED BY <1>1, StackPushed
<1>3. e = [values |-> m.values, stack |-> s, log |-> IF Effectful(t) THEN l ELSE m.log]
  <2>1. CASE t.op = "read"
    <3>1. e = [m EXCEPT !.stack = Append(@, m.values[t.name])]
      <4>1. t.name \notin original.upvalues
        OBVIOUS
      <4> QED BY <2>1, <4>1 DEF EvaluateToken, Effectful
    <3>2. Append(m.stack, m.values[t.name]) = s
      <4>1. n = Len(m.stack) /\ r = m.values[t.name]
        BY <1>1, <2>1 DEF TokenResult
      <4>2. SubSeq(m.stack, 1, Len(m.stack)) = m.stack
        <5> DEFINE S == {m.stack[i] : i \in 1 .. Len(m.stack)}
        <5>1. m.stack \in Seq(S)
          BY <1>1, StackFacts
        <5> HIDE DEF S
        <5>2. PICK q : q = m.stack
          OBVIOUS
        <5>3. q \in Seq(S)
          BY <5>1, <5>2
        <5>4. SubSeq(q, 1, Len(q)) = q
          <6> DEFINE c == SubSeq(q, 1, Len(q))
          <6>1. c \in Seq(S) /\ Len(c) = Len(q) /\ \A i \in 1 .. Len(c) : c[i] = q[i]
            BY <5>3
          <6> HIDE DEF c
          <6>2. c = q
            BY <5>3, <6>1, SeqEqual
          <6> QED BY <6>2 DEF c
        <5> QED BY <5>2, <5>4
      <4> QED BY <4>1, <4>2
    <3>3. ~ Effectful(t)
      BY <2>1 DEF Effectful
    <3> QED BY <3>1, <3>2, <3>3, MachineParts
  <2>2. CASE t.op = "pure"
    <3>1. e = [m EXCEPT !.stack = Pushed(m, t, Result(t.name, Operands(m, t), 0))]
      BY <2>2 DEF EvaluateToken, Effectful
    <3>2. Pushed(m, t, Result(t.name, Operands(m, t), 0)) = s /\ ~ Effectful(t)
      BY <2>2 DEF Pushed, TokenResult, Effectful
    <3> QED BY <3>1, <3>2, MachineParts
  <2>3. CASE t.op \notin {"read", "pure"}
    <3>1. Effectful(t)
      BY <1>1, <2>3 DEF Effectful
    <3>2. e = [m EXCEPT !.stack = Pushed(m, t, Result(t.name, Operands(m, t), Len(m.log) + 1)),
                        !.log = Append(@, Result(t.name, Operands(m, t), Len(m.log)))]
      BY <2>3, <3>1 DEF EvaluateToken
    <3>3. Pushed(m, t, Result(t.name, Operands(m, t), Len(m.log) + 1)) = s
      BY <2>3 DEF Pushed, TokenResult
    <3> QED BY <3>1, <3>2, <3>3, MachineParts
  <2> QED BY <2>1, <2>2, <2>3
<1>4. e.values = m.values /\ e.stack = s /\ e.log = IF Effectful(t) THEN l ELSE m.log
  <2> HIDE DEF e, s, l
  <2> QED BY <1>3
<1>5. IsMachine(e)
  BY <1>2, <1>3, <1>4 DEF IsMachine
<1> HIDE DEF e, s, n, r, l
<1> QED BY <1>2, <1>4, <1>5 DEF e, n, r, l

(* The tops of two stacks hold the same k values.                          *)
Alike(m1, m2, a, b, k) ==
    /\ IsMachine(m1) /\ IsMachine(m2)
    /\ Len(m1.stack) = a + k /\ Len(m2.stack) = b + k
    /\ \A i \in 1 .. k : m1.stack[a + i] = m2.stack[b + i]

(* What was below stays; what the tokens push is alike, and so is what     *)
(* they log.                                                               *)
AlikeAfter(m1, m2, e1, e2, a, b, k, tokens) ==
    /\ Alike(e1, e2, a, b, k)
    /\ e1.values = m1.values /\ e2.values = m2.values
    /\ \A i \in 1 .. a : e1.stack[i] = m1.stack[i]
    /\ \A i \in 1 .. b : e2.stack[i] = m2.stack[i]
    /\ m1.log = m2.log => e1.log = e2.log
    /\ (\A t \in tokens : ~ Effectful(t)) => e1.log = m1.log /\ e2.log = m2.log

(* A token does the same on two machines whose stacks have the same top,   *)
(* where the values it reads agree and, if it has effects, the logs.       *)
LEMMA TokenAlike ==
  ASSUME original.upvalues = {}, NEW m1, NEW m2, NEW a \in Nat, NEW b \in Nat, NEW k \in Nat,
         Alike(m1, m2, a, b, k), NEW t, IsSupplied(t, k),
         t.op = "read" => m1.values[t.name] = m2.values[t.name],
         m1.log = m2.log \/ ~ Effectful(t)
  PROVE  AlikeAfter(m1, m2, EvaluateToken(m1, t), EvaluateToken(m2, t), a, b, k - t.arity + 1, {t})
<1> DEFINE e1 == EvaluateToken(m1, t)
           e2 == EvaluateToken(m2, t)
<1>1. /\ IsMachine(m1) /\ IsMachine(m2) /\ IsStack(m1.stack) /\ IsStack(m2.stack)
      /\ Len(m1.stack) = a + k /\ Len(m2.stack) = b + k
      /\ \A i \in 1 .. k : m1.stack[a + i] = m2.stack[b + i]
      /\ t \in Token /\ t.arity \in Nat /\ t.arity <= k
      /\ t.op = "read" => t.arity = 0
      /\ IsSupplied(t, Len(m1.stack)) /\ IsSupplied(t, Len(m2.stack))
  BY DEF Alike, IsMachine, IsSupplied, Token
<1>0. PICK x, y, z : /\ x = t.arity /\ y = Len(m1.stack) /\ z = Len(m2.stack)
                     /\ x \in Nat /\ x <= k /\ y = a + k /\ z = b + k
  BY <1>1
<1>2. Operands(m1, t) = Operands(m2, t)
  <2>1. SubSeq(m1.stack, Len(m1.stack) - t.arity + 1, Len(m1.stack))
            = SubSeq(m2.stack, Len(m2.stack) - t.arity + 1, Len(m2.stack))
    <3>1. \A i \in 1 .. t.arity :
              m1.stack[Len(m1.stack) - t.arity + i] = m2.stack[Len(m2.stack) - t.arity + i]
      <4> SUFFICES ASSUME NEW i \in 1 .. t.arity
                   PROVE  m1.stack[Len(m1.stack) - t.arity + i]
                              = m2.stack[Len(m2.stack) - t.arity + i]
        OBVIOUS
      <4>1. /\ k - x + i \in 1 .. k
            /\ y - x + i = a + (k - x + i)
            /\ z - x + i = b + (k - x + i)
        BY <1>0
      <4> QED BY <1>0, <1>1, <4>1
    <3>2. t.arity <= Len(m1.stack) /\ t.arity <= Len(m2.stack)
      BY <1>1
    <3> QED BY <1>1, <3>1, <3>2, StackTops
  <2> QED BY <2>1 DEF Operands
<1>3. /\ IsMachine(e1) /\ e1.values = m1.values
      /\ Len(e1.stack) = Len(m1.stack) - t.arity + 1
      /\ \A i \in 1 .. Len(m1.stack) - t.arity : e1.stack[i] = m1.stack[i]
      /\ e1.stack[Len(m1.stack) - t.arity + 1] = TokenResult(m1, t)
      /\ e1.log = IF Effectful(t)
                  THEN Append(m1.log, Result(t.name, Operands(m1, t), Len(m1.log)))
                  ELSE m1.log
  BY <1>1, TokenStep
<1>4. /\ IsMachine(e2) /\ e2.values = m2.values
      /\ Len(e2.stack) = Len(m2.stack) - t.arity + 1
      /\ \A i \in 1 .. Len(m2.stack) - t.arity : e2.stack[i] = m2.stack[i]
      /\ e2.stack[Len(m2.stack) - t.arity + 1] = TokenResult(m2, t)
      /\ e2.log = IF Effectful(t)
                  THEN Append(m2.log, Result(t.name, Operands(m2, t), Len(m2.log)))
                  ELSE m2.log
  BY <1>1, TokenStep
<1> HIDE DEF e1, e2
<1>5. TokenResult(m1, t) = TokenResult(m2, t)
  <2>1. CASE t.op \in {"read", "pure"}
    BY <1>2, <2>1 DEF TokenResult
  <2>2. CASE t.op \notin {"read", "pure"}
    <3>1. Effectful(t)
      BY <1>1, <2>2 DEF Effectful, Token
    <3> QED BY <1>2, <2>2, <3>1 DEF TokenResult
  <2> QED BY <2>1, <2>2
<1> DEFINE d == k - t.arity + 1
<1>6. d \in Nat /\ Len(e1.stack) = a + d /\ Len(e2.stack) = b + d
  <2>0. d = k - x + 1
    BY <1>0
  <2>1. Len(e1.stack) = y - x + 1 /\ Len(e2.stack) = z - x + 1
    BY <1>0, <1>3, <1>4
  <2>2. k - x + 1 \in Nat /\ y - x + 1 = a + (k - x + 1) /\ z - x + 1 = b + (k - x + 1)
    BY <1>0
  <2> HIDE DEF d
  <2> QED BY <2>0, <2>1, <2>2
<1>7. ASSUME NEW i \in 1 .. d PROVE e1.stack[a + i] = e2.stack[b + i]
  <2>1. CASE i = d
    <3>1. a + i = Len(m1.stack) - t.arity + 1 /\ b + i = Len(m2.stack) - t.arity + 1
      BY <1>1, <2>1
    <3> QED BY <1>3, <1>4, <1>5, <3>1
  <2>2. CASE i # d
    <3>1. /\ i \in 1 .. k
          /\ a + i \in 1 .. Len(m1.stack) - t.arity /\ b + i \in 1 .. Len(m2.stack) - t.arity
      <4>1. i \in 1 .. k - x + 1 /\ i # k - x + 1
        BY <1>0, <2>2
      <4>2. i \in 1 .. k /\ a + i \in 1 .. y - x /\ b + i \in 1 .. z - x
        BY <1>0, <4>1
      <4> QED BY <1>0, <4>2
    <3> QED BY <1>1, <1>3, <1>4, <3>1
  <2> QED BY <2>1, <2>2
<1>8. Alike(e1, e2, a, b, d)
  <2> HIDE DEF d
  <2> QED BY <1>3, <1>4, <1>6, <1>7 DEF Alike
<1>9. /\ \A i \in 1 .. a : i \in 1 .. Len(m1.stack) - t.arity
      /\ \A i \in 1 .. b : i \in 1 .. Len(m2.stack) - t.arity
  BY <1>1
<1>10. m1.log = m2.log => e1.log = e2.log
  BY <1>2, <1>3, <1>4
<1>11. ~ Effectful(t) => e1.log = m1.log /\ e2.log = m2.log
  BY <1>3, <1>4
<1>12. AlikeAfter(m1, m2, e1, e2, a, b, d, {t})
  <2> HIDE DEF d
  <2> QED BY <1>3, <1>4, <1>8, <1>9, <1>10, <1>11 DEF AlikeAfter
<1> QED BY <1>12 DEF e1, e2

-----------------------------------------------------------------------------
(* Expressions.                                                            *)

(* The depth of the stack from token to token.                             *)
LEMMA DepthSteps ==
  ASSUME NEW code \in Seq(Token)
  PROVE  /\ Depth(code, 0) = 0
         /\ \A j \in 0 .. Len(code) : Depth(code, j) \in Int
         /\ \A j \in 0 .. Len(code) - 1 :
               Depth(code, j + 1) = Depth(code, j) - code[j + 1].arity + 1
<1> DEFINE n == Len(code)
           h == [i \in 0 .. n - 1 |-> code[i + 1].arity]
<1>1. n \in Nat
  OBVIOUS
<1>2. \A i \in 0 .. n - 1 : h[i] = code[i + 1].arity /\ h[i] \in Int
  <2> SUFFICES ASSUME NEW i \in 0 .. n - 1 PROVE code[i + 1].arity \in Int
    OBVIOUS
  <2>1. code[i + 1] \in Token
    OBVIOUS
  <2> QED BY <2>1 DEF Token
<1>3. \A j : Depth(code, j) = j - Total(h, j)
  BY DEF Depth
<1> HIDE DEF n, h
<1>4. \A j \in 0 .. n : Total(h, j) \in Int
  <2> SUFFICES ASSUME NEW j \in 0 .. n PROVE Total(h, j) \in Int
    OBVIOUS
  <2>1. \A i \in 0 .. j - 1 : h[i] \in Int
    BY <1>1, <1>2
  <2> QED BY <2>1, TotalInt
<1>5. \A j \in 0 .. n - 1 : Total(h, 0) = 0 /\ Total(h, j + 1) = Total(h, j) + h[j]
  <2> SUFFICES ASSUME NEW j \in 0 .. n - 1
               PROVE  Total(h, 0) = 0 /\ Total(h, j + 1) = Total(h, j) + h[j]
    OBVIOUS
  <2>1. \A i \in 0 .. j : h[i] \in Int
    BY <1>1, <1>2
  <2> QED BY <2>1, TotalStep
<1>6. Total(h, 0) = 0
  <2>1. \A i \in 0 .. 0 - 1 : h[i] = 0
    OBVIOUS
  <2> QED BY <2>1, TotalOfZeros
<1>7. ASSUME NEW j \in 0 .. n - 1
      PROVE  Depth(code, j + 1) = Depth(code, j) - code[j + 1].arity + 1
  <2>1. j \in 0 .. n /\ Total(h, j) \in Int /\ h[j] \in Int /\ h[j] = code[j + 1].arity
    BY <1>1, <1>2, <1>4
  <2>2. PICK t, x : t = Total(h, j) /\ x = code[j + 1].arity
    OBVIOUS
  <2>3. Depth(code, j + 1) = (j + 1) - (t + x)
    BY <1>3, <1>5, <2>1, <2>2
  <2>4. Depth(code, j) = j - t
    BY <1>3, <2>2
  <2>5. (j + 1) - (t + x) = (j - t) - x + 1
    BY <2>1, <2>2
  <2> QED BY <2>2, <2>3, <2>4, <2>5
<1>8. \A j \in 0 .. n : Depth(code, j) \in Int
  BY <1>1, <1>3, <1>4
<1> QED BY <1>3, <1>6, <1>7, <1>8 DEF n

(* Equal stretches of two expressions change the depth in the same way.    *)
HaveSameArities(c, d, p, q, n) ==
    /\ c \in Seq(Token) /\ d \in Seq(Token) /\ p \in Nat /\ q \in Nat /\ n \in Nat
    /\ p + n <= Len(c) /\ q + n <= Len(d) /\ \A j \in 1 .. n : c[p + j].arity = d[q + j].arity

HaveSameDepths(c, d, p, q, n) ==
    \A j \in 0 .. n : Depth(c, p + j) - Depth(c, p) = Depth(d, q + j) - Depth(d, q)

(* Where the arities are the same, the stack grows by the same.            *)
LEMMA DepthsOfStretch ==
  ASSUME NEW c, NEW d, NEW p, NEW q, NEW n, HaveSameArities(c, d, p, q, n)
  PROVE  HaveSameDepths(c, d, p, q, n)
<1>0. /\ c \in Seq(Token) /\ d \in Seq(Token) /\ p \in Nat /\ q \in Nat /\ n \in Nat
      /\ p + n <= Len(c) /\ q + n <= Len(d) /\ \A j \in 1 .. n : c[p + j].arity = d[q + j].arity
  BY DEF HaveSameArities
<1> DEFINE T == {j \in 0 .. n : Depth(c, p + j) - Depth(c, p) = Depth(d, q + j) - Depth(d, q)}
<1>1. /\ \A j \in 0 .. Len(c) : Depth(c, j) \in Int
      /\ \A j \in 0 .. Len(d) : Depth(d, j) \in Int
      /\ \A j \in 0 .. Len(c) - 1 : Depth(c, j + 1) = Depth(c, j) - c[j + 1].arity + 1
      /\ \A j \in 0 .. Len(d) - 1 : Depth(d, j + 1) = Depth(d, j) - d[j + 1].arity + 1
  BY <1>0, DepthSteps
<1>2. Len(c) \in Nat /\ Len(d) \in Nat
  BY <1>0
<1>3. 0 \in T
  <2>1. p \in 0 .. Len(c) /\ q \in 0 .. Len(d) /\ p + 0 = p /\ q + 0 = q
    BY <1>0, <1>2
  <2> QED BY <1>0, <1>1, <2>1
<1>4. ASSUME NEW j \in 0 .. n - 1, j \in T PROVE j + 1 \in T
  <2>1. /\ p + j \in 0 .. Len(c) - 1 /\ q + j \in 0 .. Len(d) - 1
        /\ p \in 0 .. Len(c) /\ q \in 0 .. Len(d) /\ j + 1 \in 1 .. n
        /\ p + j \in 0 .. Len(c) /\ q + j \in 0 .. Len(d)
        /\ (p + j) + 1 = p + (j + 1) /\ (q + j) + 1 = q + (j + 1)
    BY <1>0, <1>2
  <2>2. /\ Depth(c, p + (j + 1)) = Depth(c, p + j) - c[p + (j + 1)].arity + 1
        /\ Depth(d, q + (j + 1)) = Depth(d, q + j) - d[q + (j + 1)].arity + 1
        /\ c[p + (j + 1)].arity = d[q + (j + 1)].arity
    BY <1>0, <1>1, <2>1
  <2>3. c[p + (j + 1)] \in Token /\ c[p + (j + 1)].arity \in Nat
    <3>1. p + (j + 1) \in 1 .. Len(c)
      BY <1>0, <1>2
    <3>2. c[p + (j + 1)] \in Token
      BY <1>0, <3>1
    <3> QED BY <3>2 DEF Token
  <2>4. /\ Depth(c, p + j) \in Int /\ Depth(c, p) \in Int
        /\ Depth(d, q + j) \in Int /\ Depth(d, q) \in Int
        /\ Depth(c, p + j) - Depth(c, p) = Depth(d, q + j) - Depth(d, q)
    BY <1>1, <1>4, <2>1
  <2>5. Depth(c, p + (j + 1)) - Depth(c, p) = Depth(d, q + (j + 1)) - Depth(d, q)
    <3>1. PICK x, y, z, u, v :
             /\ x = c[p + (j + 1)].arity /\ y = Depth(c, p + j) /\ z = Depth(c, p)
             /\ u = Depth(d, q + j) /\ v = Depth(d, q)
      OBVIOUS
    <3>2. x \in Nat /\ y \in Int /\ z \in Int /\ u \in Int /\ v \in Int /\ y - z = u - v
      BY <2>3, <2>4, <3>1
    <3>3. (y - x + 1) - z = (u - x + 1) - v
      BY ONLY <3>2
    <3> QED BY <2>2, <3>1, <3>3
  <2> QED BY <1>0, <2>5
<1> HIDE DEF T
<1>5. \A j \in 0 .. n : j \in T
  BY <1>0, <1>3, <1>4, InductionUpTo
<1> QED BY <1>5 DEF T, HaveSameDepths

(* The machines before and after each token.                               *)
Steps(f, code) == \A k \in 0 .. Len(code) - 1 : f[k + 1] = EvaluateToken(f[k], code[k + 1])

Runs(f, m, code) == f[0] = m /\ Steps(f, code)

(* Evaluated solves its equation.                                          *)
LEMMA EvaluatedRuns ==
  ASSUME NEW m, NEW code \in Seq(Token)
  PROVE  \E f : Runs(f, m, code) /\ Evaluated(m, code) = f[Len(code)]
<1> DEFINE n == Len(code)
           Solves(f, k) == f = [i \in 0 .. k |-> IF i = 0 THEN m ELSE EvaluateToken(f[i - 1], code[i])]
           T == {k \in 0 .. n : \E f : Solves(f, k)}
<1>1. n \in Nat
  OBVIOUS
<1>2. 0 \in T
  <2> DEFINE f == [i \in 0 .. 0 |-> m]
  <2>1. Solves(f, 0)
    OBVIOUS
  <2> HIDE DEF f, Solves
  <2> QED BY <1>1, <2>1
<1>3. ASSUME NEW k \in 0 .. n - 1, k \in T
      PROVE  k + 1 \in T
  <2>1. PICK f : Solves(f, k)
    BY <1>3
  <2> DEFINE last == EvaluateToken(f[k], code[k + 1])
             g == [i \in 0 .. k + 1 |-> IF i = k + 1 THEN last ELSE f[i]]
  <2>2. ASSUME NEW i \in 0 .. k + 1
        PROVE  g[i] = IF i = 0 THEN m ELSE EvaluateToken(g[i - 1], code[i])
    <3>1. CASE i = k + 1
      <4>1. i # 0 /\ i - 1 = k /\ k \in 0 .. k + 1 /\ k # k + 1
        BY <3>1
      <4>2. g[i] = last /\ g[i - 1] = f[k]
        BY <3>1, <4>1
      <4> QED BY <3>1, <4>1, <4>2
    <3>2. CASE i # k + 1
      <4>1. i \in 0 .. k /\ g[i] = f[i]
        BY <3>2
      <4>2. f[i] = IF i = 0 THEN m ELSE EvaluateToken(f[i - 1], code[i])
        BY <2>1, <4>1
      <4>3. i # 0 => g[i - 1] = f[i - 1]
        BY <4>1
      <4> HIDE DEF g
      <4> QED BY <4>1, <4>2, <4>3
    <3> QED BY <3>1, <3>2
  <2>3. g = [i \in 0 .. k + 1 |-> IF i = 0 THEN m ELSE EvaluateToken(g[i - 1], code[i])]
    BY <2>2
  <2> HIDE DEF g
  <2>4. Solves(g, k + 1) /\ k + 1 \in 0 .. n
    BY <1>1, <2>3
  <2> QED BY <2>4
<1> HIDE DEF T
<1>4. n \in T
  <2> HIDE DEF n
  <2>1. \A k \in 0 .. n : k \in T
    BY <1>1, <1>2, <1>3, InductionUpTo
  <2> QED BY <1>1, <2>1
<1>5. \E f : Solves(f, n)
  BY <1>4 DEF T
<1> DEFINE f == CHOOSE f : Solves(f, n)
<1>6. Solves(f, n)
  <2> HIDE DEF Solves
  <2> QED BY <1>5
<1>7. Evaluated(m, code) = f[n]
  BY DEF Evaluated
<1> HIDE DEF f
<1>8. f[0] = m
  BY <1>1, <1>6
<1>9. ASSUME NEW k \in 0 .. n - 1
      PROVE  f[k + 1] = EvaluateToken(f[k], code[k + 1])
  <2>1. k + 1 \in 0 .. n /\ k + 1 # 0 /\ (k + 1) - 1 = k
    BY <1>1
  <2> QED BY <1>6, <2>1
<1> QED BY <1>7, <1>8, <1>9 DEF Runs, Steps

(* A stretch of code evaluated by two machines.  It finds what it needs    *)
(* above a depth of h.                                                     *)
IsStretch(c, d, p, q, n, h) ==
    /\ p \in Nat /\ q \in Nat /\ n \in Nat /\ h \in Int
    /\ p + n <= Len(c) /\ q + n <= Len(d)
    /\ \A j \in 1 .. n :
          /\ c[p + j] = d[q + j]
          /\ c[p + j].op = "read" => c[p + j].name \in Locals /\ c[p + j].arity = 0
          /\ Depth(c, p + j) > h
    /\ Depth(c, p) >= h

TokensOf(c, p, n) == {c[p + j] : j \in 1 .. n}

(* What it needs to do the same on both: f and g run the codes.            *)
StretchBegins(c, d, p, q, n, h, f, g, a, b) ==
    /\ c \in Seq(Token) /\ d \in Seq(Token) /\ a \in Nat /\ b \in Nat
    /\ IsStretch(c, d, p, q, n, h)
    /\ Steps(f, c) /\ Steps(g, d)
    /\ Alike(f[p], g[q], a, b, Depth(c, p) - h)
    /\ \A j \in 1 .. n :
          c[p + j].op = "read" => f[p].values[c[p + j].name] = g[q].values[c[p + j].name]
    /\ f[p].log = g[q].log \/ \A j \in 1 .. n : ~ Effectful(c[p + j])

(* The same tokens do the same, by induction along the stretch.            *)
LEMMA StretchAlike ==
  ASSUME original.upvalues = {},
         NEW c, NEW d, NEW p, NEW q, NEW n, NEW h, NEW f, NEW g, NEW a, NEW b,
         StretchBegins(c, d, p, q, n, h, f, g, a, b)
  PROVE  AlikeAfter(f[p], g[q], f[p + n], g[q + n], a, b, Depth(c, p + n) - h, TokensOf(c, p, n))
<1>0. /\ c \in Seq(Token) /\ d \in Seq(Token) /\ a \in Nat /\ b \in Nat
      /\ IsStretch(c, d, p, q, n, h)
      /\ Steps(f, c) /\ Steps(g, d)
      /\ Alike(f[p], g[q], a, b, Depth(c, p) - h)
      /\ \A j \in 1 .. n :
            c[p + j].op = "read" => f[p].values[c[p + j].name] = g[q].values[c[p + j].name]
      /\ f[p].log = g[q].log \/ \A j \in 1 .. n : ~ Effectful(c[p + j])
  BY DEF StretchBegins
<1> DEFINE tokens == TokensOf(c, p, n)
           Holds(k) == AlikeAfter(f[p], g[q], f[p + k], g[q + k], a, b, Depth(c, p + k) - h, tokens)
           T == {k \in 0 .. n : Holds(k)}
<1>1. /\ p \in Nat /\ q \in Nat /\ n \in Nat /\ h \in Int /\ Len(c) \in Nat /\ Len(d) \in Nat
      /\ p + n <= Len(c) /\ q + n <= Len(d) /\ p + 0 = p /\ q + 0 = q
  BY <1>0 DEF IsStretch
<1>2. 0 \in T
  <2>1. Holds(0)
    BY <1>0, <1>1 DEF AlikeAfter
  <2> QED BY <1>1, <2>1
<1>3. ASSUME NEW k \in 0 .. n - 1, k \in T PROVE k + 1 \in T
  <2> DEFINE t == c[p + (k + 1)]
             e == f[p + k]
             o == g[q + k]
  <2>1. /\ p + k \in 0 .. Len(c) - 1 /\ q + k \in 0 .. Len(d) - 1 /\ k + 1 \in 1 .. n
        /\ p + k \in 0 .. Len(c) /\ p + (k + 1) \in 0 .. Len(c) /\ p + (k + 1) \in 1 .. Len(c)
        /\ (p + k) + 1 = p + (k + 1) /\ (q + k) + 1 = q + (k + 1) /\ k + 1 \in 0 .. n
    BY <1>1
  <2>2. f[p + (k + 1)] = EvaluateToken(e, t) /\ g[q + (k + 1)] = EvaluateToken(o, t)
    <3>1. t = d[q + (k + 1)]
      BY <1>0, <2>1 DEF IsStretch
    <3>2. f[(p + k) + 1] = EvaluateToken(f[p + k], c[(p + k) + 1])
      BY <1>0, <2>1 DEF Steps
    <3>3. g[(q + k) + 1] = EvaluateToken(g[q + k], d[(q + k) + 1])
      BY <1>0, <2>1 DEF Steps
    <3> QED BY <2>1, <3>1, <3>2, <3>3
  <2>3. Holds(k)
    BY <1>3
  <2> HIDE DEF Holds, T
  <2>4. t \in Token /\ t.arity \in Nat
    <3>1. t \in Token
      BY <1>0, <2>1
    <3> QED BY <3>1 DEF Token
  <2>5. /\ Depth(c, p + (k + 1)) = Depth(c, p + k) - t.arity + 1
        /\ Depth(c, p + k) \in Int /\ Depth(c, p + (k + 1)) > h
        /\ Depth(c, p + (k + 1)) \in Int
    <3>1. Depth(c, p + (k + 1)) > h
      BY <1>0, <2>1 DEF IsStretch
    <3>2. Depth(c, (p + k) + 1) = Depth(c, p + k) - c[(p + k) + 1].arity + 1
      BY <1>0, <2>1, DepthSteps
    <3>3. Depth(c, p + k) \in Int /\ Depth(c, p + (k + 1)) \in Int
      BY <1>0, <2>1, DepthSteps
    <3> QED BY <2>1, <3>1, <3>2, <3>3
  <2> DEFINE x == Depth(c, p + k) - h
  <2>6. PICK y, z, w : y = t.arity /\ z = Depth(c, p + k) /\ w = Depth(c, p + (k + 1))
    OBVIOUS
  <2>7. y \in Nat /\ z \in Int /\ w \in Int /\ w = z - y + 1 /\ w > h
    BY <2>4, <2>5, <2>6
  <2>8. /\ x = z - h /\ z - h \in Nat /\ y <= z - h /\ (z - h) - y + 1 = w - h
    <3>1. h \in Int
      BY <1>1
    <3>2. z - h \in Nat /\ y <= z - h /\ (z - h) - y + 1 = w - h
      BY ONLY <2>7, <3>1
    <3> QED BY <2>6, <3>2
  <2>9. t.op = "read" => t.name \in Locals /\ t.arity = 0
    BY <1>0, <2>1 DEF IsStretch
  <2>10. IsSupplied(t, x)
    <3>1. t.arity <= x
      BY <2>6, <2>8
    <3> QED BY <2>4, <2>9, <3>1 DEF IsSupplied
  <2>11. /\ Alike(e, o, a, b, x) /\ e.values = f[p].values /\ o.values = g[q].values
         /\ \A i \in 1 .. a : e.stack[i] = f[p].stack[i]
         /\ \A i \in 1 .. b : o.stack[i] = g[q].stack[i]
         /\ f[p].log = g[q].log => e.log = o.log
         /\ (\A i \in tokens : ~ Effectful(i)) => e.log = f[p].log /\ o.log = g[q].log
    BY <2>3 DEF Holds, AlikeAfter
  <2>12. t.op = "read" => e.values[t.name] = o.values[t.name]
    <3>1. t.op = "read" => f[p].values[t.name] = g[q].values[t.name]
      BY <1>0, <2>1
    <3> HIDE DEF t, e, o
    <3> QED BY <2>11, <3>1
  <2>13. e.log = o.log \/ ~ Effectful(t)
    <3>1. f[p].log = g[q].log \/ ~ Effectful(t)
      BY <1>0, <2>1
    <3> QED BY <2>11, <3>1
  <2> HIDE DEF t, e, o
  <2>14. x \in Nat
    BY <2>8
  <2> HIDE DEF x
  <2> DEFINE e1 == EvaluateToken(e, t)
             e2 == EvaluateToken(o, t)
  <2>15. AlikeAfter(e, o, e1, e2, a, b, x - t.arity + 1, {t})
    <3>1. Alike(e, o, a, b, x)
      BY <2>11
    <3> QED BY <1>0, <2>10, <2>12, <2>13, <2>14, <3>1, TokenAlike
  <2>16. x - t.arity + 1 = Depth(c, p + (k + 1)) - h
    BY <2>6, <2>8
  <2>17. t \in tokens
    BY <2>1 DEF t, TokensOf
  <2> HIDE DEF e1, e2, tokens
  <2>18. AlikeAfter(f[p], g[q], e1, e2, a, b, Depth(c, p + (k + 1)) - h, tokens)
    BY <2>11, <2>15, <2>16, <2>17 DEF AlikeAfter
  <2>19. Holds(k + 1)
    BY <2>2, <2>18 DEF Holds, e1, e2
  <2> QED BY <2>1, <2>19 DEF T
<1> HIDE DEF T, Holds
<1>4. \A k \in 0 .. n : k \in T
  BY <1>1, <1>2, <1>3, InductionUpTo
<1>5. Holds(n)
  BY <1>1, <1>4 DEF T
<1> QED BY <1>5 DEF Holds

-----------------------------------------------------------------------------
(* The shape of code a value was inlined into.                             *)

(* An expression that ends in two parts.                                   *)
LEMMA Joined ==
  ASSUME NEW a \in Seq(Token), NEW b \in Seq(Token)
  PROVE  /\ a \o b \in Seq(Token) /\ Len(a \o b) = Len(a) + Len(b)
         /\ Len(a) \in Nat /\ Len(b) \in Nat
         /\ \A j \in 1 .. Len(a) : (a \o b)[j] = a[j]
         /\ \A j \in 1 .. Len(b) : (a \o b)[Len(a) + j] = b[j]
OBVIOUS

(* A part of an expression.                                                *)
LEMMA Stretch ==
  ASSUME NEW c \in Seq(Token), NEW m \in Nat, NEW n \in Nat, m >= 1, m <= n + 1, n <= Len(c)
  PROVE  /\ SubSeq(c, m, n) \in Seq(Token) /\ Len(SubSeq(c, m, n)) = n - m + 1
         /\ \A j \in 1 .. n - m + 1 : SubSeq(c, m, n)[j] = c[m - 1 + j]
<1>1. \A j \in 1 .. n - m + 1 : m + j - 1 = m - 1 + j
  OBVIOUS
<1>2. \A j \in m .. n : c[j] \in Token
  OBVIOUS
<1> QED BY <1>1, <1>2, SubSeqProperties

(* The value takes the place of the read at i.                             *)
HasPlainShape(code, value, c, i) ==
    /\ c \in Seq(Token) /\ Len(c) = Len(code) - 1 + Len(value)
    /\ \A j \in 1 .. i - 1 : c[j] = code[j]
    /\ \A j \in 1 .. Len(value) : c[i - 1 + j] = value[j]
    /\ \A j \in 1 .. Len(code) - i : c[i - 1 + Len(value) + j] = code[i + j]

(* The value goes before the operand that begins at s.                     *)
HasTurnedShape(code, value, c, i, s) ==
    /\ s \in 1 .. i - 1 /\ s = Max(OperandStarts(code, i - 1)) /\ i < Len(code)
    /\ code[i + 1].op \in {"compare", "converse"}
    /\ c \in Seq(Token) /\ Len(c) = Len(code) - 1 + Len(value)
    /\ \A j \in 1 .. s - 1 : c[j] = code[j]
    /\ \A j \in 1 .. Len(value) : c[s - 1 + j] = value[j]
    /\ \A j \in 1 .. i - s : c[s - 1 + Len(value) + j] = code[s - 1 + j]
    /\ c[i + Len(value)] = Flipped(code[i + 1])
    /\ \A j \in 1 .. Len(code) - i - 1 : c[i + Len(value) + j] = code[i + 1 + j]

(* Where no operands change sides, the value replaces the read.            *)
LEMMA ShapeWithoutSwap ==
  ASSUME NEW code \in Seq(Token), NEW value \in Seq(Token), NEW local \in ReadsIn(code),
         ~ Swaps(code, Position(code, local))
  PROVE  /\ Place(code, local) = Position(code, local)
         /\ HasPlainShape(code, value, Inlined(code, local, value), Position(code, local))
<1> DEFINE i == Position(code, local)
           n == Len(value)
           front == SubSeq(code, 1, i - 1)
           back == SubSeq(code, i + 1, Len(code))
           joined == front \o value
           c == joined \o back
<1>1. i \in 1 .. Len(code) /\ Len(code) \in Nat /\ n \in Nat
  BY PositionFound
<1>2. Inlined(code, local, value) = c /\ Place(code, local) = i
  BY DEF Inlined, Place
<1> HIDE DEF i
<1>3. /\ front \in Seq(Token) /\ Len(front) = i - 1
      /\ \A j \in 1 .. i - 1 : front[j] = code[j]
  <2>1. i - 1 \in Nat /\ 1 \in Nat /\ 1 >= 1 /\ 1 <= (i - 1) + 1 /\ i - 1 <= Len(code)
        /\ (i - 1) - 1 + 1 = i - 1 /\ \A j \in 1 .. i - 1 : 1 - 1 + j = j
    BY <1>1
  <2> QED BY <2>1, Stretch
<1>4. /\ back \in Seq(Token) /\ Len(back) = Len(code) - i
      /\ \A j \in 1 .. Len(code) - i : back[j] = code[i + j]
  <2>1. i + 1 \in Nat /\ i + 1 >= 1 /\ i + 1 <= Len(code) + 1 /\ Len(code) <= Len(code)
        /\ Len(code) - (i + 1) + 1 = Len(code) - i /\ \A j \in 1 .. Len(code) - i : (i + 1) - 1 + j = i + j
    BY <1>1
  <2>2. /\ back \in Seq(Token) /\ Len(back) = Len(code) - (i + 1) + 1
        /\ \A j \in 1 .. Len(code) - (i + 1) + 1 : back[j] = code[(i + 1) - 1 + j]
    <3>1. Len(code) \in Nat
      BY <1>1
    <3> QED BY <2>1, <3>1, Stretch
  <2> HIDE DEF back
  <2> QED BY <2>1, <2>2
<1> HIDE DEF front, back
<1>5. /\ joined \in Seq(Token) /\ Len(joined) = i - 1 + n
      /\ \A j \in 1 .. i - 1 : joined[j] = code[j]
      /\ \A j \in 1 .. n : joined[i - 1 + j] = value[j]
  <2>1. /\ joined \in Seq(Token) /\ Len(joined) = Len(front) + Len(value)
        /\ \A j \in 1 .. Len(front) : joined[j] = front[j]
        /\ \A j \in 1 .. Len(value) : joined[Len(front) + j] = value[j]
    BY <1>3, Joined
  <2> HIDE DEF joined
  <2> QED BY <1>3, <2>1
<1> HIDE DEF joined
<1>6. /\ c \in Seq(Token) /\ Len(c) = Len(joined) + Len(back)
      /\ \A j \in 1 .. Len(joined) : c[j] = joined[j]
      /\ \A j \in 1 .. Len(back) : c[Len(joined) + j] = back[j]
  BY <1>4, <1>5, Joined
<1> HIDE DEF c
<1>7. Len(c) = Len(code) - 1 + n
  BY <1>1, <1>4, <1>5, <1>6
<1>8. \A j \in 1 .. i - 1 : j \in 1 .. Len(joined) /\ c[j] = code[j]
  BY <1>1, <1>5, <1>6
<1>9. \A j \in 1 .. n : i - 1 + j \in 1 .. Len(joined) /\ c[i - 1 + j] = value[j]
  BY <1>1, <1>5, <1>6
<1>10. \A j \in 1 .. Len(code) - i : c[i - 1 + n + j] = code[i + j]
  BY <1>1, <1>4, <1>5, <1>6
<1>11. HasPlainShape(code, value, c, i)
  BY <1>6, <1>7, <1>8, <1>9, <1>10 DEF HasPlainShape
<1> QED BY <1>2, <1>11 DEF i

(* The value goes before the left operand, and the comparison turns round. *)
LEMMA ShapeWithSwap ==
  ASSUME NEW code \in Seq(Token), NEW value \in Seq(Token), NEW local \in ReadsIn(code),
         Swaps(code, Position(code, local))
  PROVE  HasTurnedShape(code, value, Inlined(code, local, value), Position(code, local),
                        Place(code, local))
<1> DEFINE i == Position(code, local)
           s == Place(code, local)
           n == Len(value)
           front == SubSeq(code, 1, s - 1)
           operand == SubSeq(code, s, i - 1)
           turned == <<Flipped(code[i + 1])>>
           back == SubSeq(code, i + 2, Len(code))
           a == front \o value
           b == a \o operand
           d == b \o turned
           c == d \o back
<1>1. i \in 1 .. Len(code) /\ Len(code) \in Nat /\ n \in Nat /\ i - 1 \in Nat
  BY PositionFound
<1>2. /\ s = Max(OperandStarts(code, i - 1)) /\ i < Len(code)
      /\ code[i + 1].op \in {"compare", "converse"} /\ OperandStarts(code, i - 1) # {}
      /\ Inlined(code, local, value) = c
  BY DEF Swaps, Inlined, Place
<1>3. s \in 1 .. i - 1
  <2> HIDE DEF i
  <2> QED BY <1>1, <1>2, OperandFound
<1> HIDE DEF i, s
<1>4. /\ front \in Seq(Token) /\ Len(front) = s - 1
      /\ \A j \in 1 .. s - 1 : front[j] = code[j]
  <2>1. s - 1 \in Nat /\ 1 \in Nat /\ 1 >= 1 /\ 1 <= (s - 1) + 1 /\ s - 1 <= Len(code)
        /\ (s - 1) - 1 + 1 = s - 1 /\ \A j \in 1 .. s - 1 : 1 - 1 + j = j
    BY <1>1, <1>3
  <2> QED BY <2>1, Stretch
<1>5. /\ operand \in Seq(Token) /\ Len(operand) = i - s
      /\ \A j \in 1 .. i - s : operand[j] = code[s - 1 + j]
  <2>1. s \in Nat /\ i - 1 \in Nat /\ s >= 1 /\ s <= (i - 1) + 1 /\ i - 1 <= Len(code)
        /\ (i - 1) - s + 1 = i - s
    BY <1>1, <1>3
  <2> QED BY <2>1, Stretch
<1>6. /\ back \in Seq(Token) /\ Len(back) = Len(code) - i - 1
      /\ \A j \in 1 .. Len(code) - i - 1 : back[j] = code[i + 1 + j]
  <2>1. i + 2 \in Nat /\ i + 2 >= 1 /\ i + 2 <= Len(code) + 1 /\ Len(code) <= Len(code)
        /\ Len(code) - (i + 2) + 1 = Len(code) - i - 1
        /\ \A j \in 1 .. Len(code) - i - 1 : (i + 2) - 1 + j = i + 1 + j
    BY <1>1, <1>2
  <2>2. /\ back \in Seq(Token) /\ Len(back) = Len(code) - (i + 2) + 1
        /\ \A j \in 1 .. Len(code) - (i + 2) + 1 : back[j] = code[(i + 2) - 1 + j]
    <3> DEFINE k == i + 2
    <3> HIDE DEF k
    <3>1. k \in Nat /\ k >= 1 /\ k <= Len(code) + 1 /\ Len(code) <= Len(code)
      BY <2>1 DEF k
    <3>2. /\ SubSeq(code, k, Len(code)) \in Seq(Token)
          /\ Len(SubSeq(code, k, Len(code))) = Len(code) - k + 1
          /\ \A j \in 1 .. Len(code) - k + 1 : SubSeq(code, k, Len(code))[j] = code[k - 1 + j]
      BY <1>1, <3>1, Stretch
    <3> QED BY <3>2 DEF k
  <2> HIDE DEF back
  <2> QED BY <1>1, <2>1, <2>2
<1>7. turned \in Seq(Token) /\ Len(turned) = 1 /\ turned[1] = Flipped(code[i + 1])
  <2>1. i + 1 \in 1 .. Len(code)
    BY <1>1, <1>2
  <2>2. code[i + 1] \in Token
    BY <2>1
  <2>3. Flipped(code[i + 1]) \in Token
    BY <2>2 DEF Flipped, Token
  <2> QED BY <2>3
<1> HIDE DEF front, operand, back, turned
<1>8. /\ a \in Seq(Token) /\ Len(a) = s - 1 + n
      /\ \A j \in 1 .. s - 1 : a[j] = code[j]
      /\ \A j \in 1 .. n : a[s - 1 + j] = value[j]
  <2>1. /\ a \in Seq(Token) /\ Len(a) = Len(front) + Len(value)
        /\ \A j \in 1 .. Len(front) : a[j] = front[j]
        /\ \A j \in 1 .. Len(value) : a[Len(front) + j] = value[j]
    BY <1>4, Joined
  <2> HIDE DEF a
  <2> QED BY <1>4, <2>1
<1> HIDE DEF a
<1>9. /\ b \in Seq(Token) /\ Len(b) = i - 1 + n
      /\ \A j \in 1 .. Len(a) : b[j] = a[j]
      /\ \A j \in 1 .. i - s : b[s - 1 + n + j] = code[s - 1 + j]
  <2>1. /\ b \in Seq(Token) /\ Len(b) = Len(a) + Len(operand)
        /\ \A j \in 1 .. Len(a) : b[j] = a[j]
        /\ \A j \in 1 .. Len(operand) : b[Len(a) + j] = operand[j]
    BY <1>5, <1>8, Joined
  <2> HIDE DEF b
  <2>2. Len(b) = i - 1 + n
    BY <1>1, <1>3, <1>5, <1>8, <2>1
  <2> QED BY <1>5, <1>8, <2>1, <2>2
<1> HIDE DEF b
<1>10. /\ d \in Seq(Token) /\ Len(d) = i + n
       /\ \A j \in 1 .. Len(b) : d[j] = b[j]
       /\ d[i + n] = Flipped(code[i + 1])
  <2>1. /\ d \in Seq(Token) /\ Len(d) = Len(b) + Len(turned)
        /\ \A j \in 1 .. Len(b) : d[j] = b[j]
        /\ \A j \in 1 .. Len(turned) : d[Len(b) + j] = turned[j]
    BY <1>7, <1>9, Joined
  <2> HIDE DEF d
  <2>2. d[Len(b) + 1] = turned[1] /\ Len(b) + 1 = i + n
    BY <1>1, <1>3, <1>7, <1>9, <2>1
  <2> QED BY <1>7, <1>9, <2>1, <2>2
<1> HIDE DEF d
<1>11. /\ c \in Seq(Token) /\ Len(c) = Len(code) - 1 + n
       /\ \A j \in 1 .. Len(d) : c[j] = d[j]
       /\ \A j \in 1 .. Len(code) - i - 1 : c[i + n + j] = code[i + 1 + j]
  <2>1. /\ c \in Seq(Token) /\ Len(c) = Len(d) + Len(back)
        /\ \A j \in 1 .. Len(d) : c[j] = d[j]
        /\ \A j \in 1 .. Len(back) : c[Len(d) + j] = back[j]
    BY <1>6, <1>10, Joined
  <2> HIDE DEF c
  <2>2. Len(c) = Len(code) - 1 + n
    BY <1>1, <1>2, <1>6, <1>10, <2>1
  <2> QED BY <1>6, <1>10, <2>1, <2>2
<1> HIDE DEF c
<1>12. \A j \in 1 .. i - 1 + n : j \in 1 .. Len(b) /\ j \in 1 .. Len(d) /\ c[j] = b[j]
  BY <1>1, <1>9, <1>10, <1>11
<1>13. \A j \in 1 .. s - 1 : c[j] = code[j]
  <2> SUFFICES ASSUME NEW j \in 1 .. s - 1 PROVE c[j] = code[j]
    OBVIOUS
  <2>1. j \in 1 .. Len(a) /\ j \in 1 .. i - 1 + n
    BY <1>1, <1>3, <1>8
  <2> QED BY <1>8, <1>9, <1>12, <2>1
<1>14. \A j \in 1 .. n : c[s - 1 + j] = value[j]
  <2> SUFFICES ASSUME NEW j \in 1 .. n PROVE c[s - 1 + j] = value[j]
    OBVIOUS
  <2>1. s - 1 + j \in 1 .. Len(a) /\ s - 1 + j \in 1 .. i - 1 + n
    BY <1>1, <1>3, <1>8
  <2> QED BY <1>8, <1>9, <1>12, <2>1
<1>15. \A j \in 1 .. i - s : c[s - 1 + n + j] = code[s - 1 + j]
  <2> SUFFICES ASSUME NEW j \in 1 .. i - s PROVE c[s - 1 + n + j] = code[s - 1 + j]
    OBVIOUS
  <2>1. s - 1 + n + j \in 1 .. i - 1 + n
    BY <1>1, <1>3
  <2> QED BY <1>9, <1>12, <2>1
<1>16. c[i + n] = Flipped(code[i + 1])
  BY <1>1, <1>10, <1>11
<1>17. HasTurnedShape(code, value, c, i, s)
  BY <1>2, <1>3, <1>11, <1>13, <1>14, <1>15, <1>16 DEF HasTurnedShape
<1> QED BY <1>2, <1>17 DEF i, s

-----------------------------------------------------------------------------
(* Inlining into an expression.                                            *)

(* The depths and the tokens of an expression.                             *)
LEMMA ExpressionFacts ==
  ASSUME NEW code \in Seq(Token), IsExpression(code)
  PROVE  /\ Depth(code, 0) = 0 /\ Depth(code, Len(code)) = 1
         /\ Len(code) \in Nat /\ Len(code) >= 1
         /\ \A j \in 0 .. Len(code) : Depth(code, j) \in Nat
         /\ \A j \in 1 .. Len(code) : code[j] \in Token /\ code[j].arity \in Nat /\ Depth(code, j) > 0
         /\ \A j \in 1 .. Len(code) :
               code[j].op = "read" => code[j].name \in Locals /\ code[j].arity = 0
         /\ \A j \in 0 .. Len(code) - 1 :
               Depth(code, j + 1) = Depth(code, j) - code[j + 1].arity + 1
<1>1. /\ Depth(code, 0) = 0 /\ \A j \in 0 .. Len(code) : Depth(code, j) \in Int
      /\ \A j \in 0 .. Len(code) - 1 : Depth(code, j + 1) = Depth(code, j) - code[j + 1].arity + 1
  BY DepthSteps
<1>2. Len(code) \in Nat /\ DOMAIN code = 1 .. Len(code)
  OBVIOUS
<1>3. Depth(code, Len(code)) = 1 /\ \A j \in 1 .. Len(code) : Depth(code, j) > 0
  BY <1>2 DEF IsExpression
<1>4. \A j \in 1 .. Len(code) : code[j] \in Token /\ code[j].arity \in Nat
  <2> SUFFICES ASSUME NEW j \in 1 .. Len(code) PROVE code[j] \in Token /\ code[j].arity \in Nat
    OBVIOUS
  <2>1. code[j] \in Token
    OBVIOUS
  <2> QED BY <2>1 DEF Token
<1>5. \A j \in 1 .. Len(code) :
         code[j].op = "read" => code[j].name \in Locals /\ code[j].arity = 0
  BY <1>2 DEF IsExpression
<1>6. \A j \in 0 .. Len(code) : Depth(code, j) \in Nat
  <2> SUFFICES ASSUME NEW j \in 0 .. Len(code) PROVE Depth(code, j) \in Nat
    OBVIOUS
  <2>1. Depth(code, j) \in Int
    BY <1>1
  <2>2. j = 0 \/ j \in 1 .. Len(code)
    BY <1>2
  <2> QED BY <1>1, <1>3, <2>1, <2>2
<1>7. Len(code) # 0
  BY <1>1, <1>3
<1> QED BY <1>1, <1>2, <1>3, <1>4, <1>5, <1>6, <1>7

(* An operand takes nothing from below it and leaves one value.            *)
LEMMA OperandShape ==
  ASSUME NEW code \in Seq(Token), IsExpression(code), NEW j \in 1 .. Len(code),
         OperandStarts(code, j) # {}, NEW s, s = Max(OperandStarts(code, j))
  PROVE  /\ s \in 1 .. j
         /\ Depth(code, j) = Depth(code, s - 1) + 1
         /\ \A t \in s .. j : Depth(code, t) > Depth(code, s - 1)
<1>1. /\ j \in Nat /\ s \in 1 .. j /\ s \in OperandStarts(code, j)
      /\ \A k \in OperandStarts(code, j) : s >= k
  BY OperandFound
<1>2. \A k \in 1 .. j : k \in OperandStarts(code, j) <=> Depth(code, j) - Depth(code, k - 1) = 1
  BY DEF OperandStarts
<1>3. Len(code) \in Nat
  OBVIOUS
<1>4. \A k \in 0 .. j : Depth(code, k) \in Int
  <2>1. \A k \in 0 .. j : k \in 0 .. Len(code)
    BY <1>3
  <2> QED BY <2>1, DepthSteps
<1>5. s - 1 \in 0 .. j /\ j \in 0 .. j
  BY <1>1
<1>6. Depth(code, j) = Depth(code, s - 1) + 1
  <2>1. Depth(code, j) - Depth(code, s - 1) = 1
    BY <1>1, <1>2
  <2>2. Depth(code, j) \in Int /\ Depth(code, s - 1) \in Int
    BY <1>4, <1>5
  <2> QED BY ONLY <2>1, <2>2
<1> DEFINE bad == {x \in s .. j : ~ (Depth(code, x) > Depth(code, s - 1))}
           left == {j - x : x \in bad}
<1>7. ASSUME bad # {} PROVE FALSE
  <2>1. left # {} /\ left \subseteq Nat
    <3>1. \A x \in bad : j - x \in Nat
      BY <1>1
    <3> HIDE DEF bad
    <3> QED BY <1>7, <3>1
  <2>2. PICK l \in left : \A k \in left : l <= k
    <3> HIDE DEF left
    <3> QED BY <2>1, LeastNatural
  <2>3. PICK x \in bad : l = j - x
    BY <2>2
  <2>4. x \in s .. j /\ ~ (Depth(code, x) > Depth(code, s - 1))
    BY <2>3
  <2>5. x # j
    <3>1. Depth(code, j) > Depth(code, s - 1)
      <4>1. Depth(code, j) \in Int /\ Depth(code, s - 1) \in Int
        BY <1>4, <1>5
      <4> QED BY ONLY <1>6, <4>1
    <3> QED BY <2>4, <3>1
  <2>6. x + 1 \in s .. j /\ x \in 0 .. j /\ x + 1 \in 0 .. j /\ x \in 0 .. Len(code) - 1
        /\ x + 1 \in 1 .. j /\ (x + 1) - 1 = x /\ ~ (j - x <= j - (x + 1)) /\ ~ (s >= x + 1)
        /\ x + 1 \in 1 .. Len(code)
    BY <1>1, <1>3, <2>4, <2>5
  <2>7. Depth(code, x + 1) > Depth(code, s - 1)
    <3>1. j - (x + 1) \notin left
      BY <2>2, <2>3, <2>6
    <3>2. x + 1 \notin bad
      BY <3>1
    <3> QED BY <2>6, <3>2
  <2>8. Depth(code, x + 1) = Depth(code, x) - code[x + 1].arity + 1
    BY <2>6, DepthSteps
  <2>9. PICK a, b, c, d : /\ a = code[x + 1].arity /\ b = Depth(code, x)
                          /\ c = Depth(code, x + 1) /\ d = Depth(code, s - 1)
    OBVIOUS
  <2>10. a \in Nat /\ b \in Int /\ c \in Int /\ d \in Int
    <3>1. code[x + 1] \in Token
      BY <2>6
    <3>2. code[x + 1].arity \in Nat
      BY <3>1 DEF Token
    <3> QED BY <1>4, <1>5, <2>6, <2>9, <3>2
  <2>11. c > d /\ c = b - a + 1 /\ ~ (b > d)
    BY <2>4, <2>7, <2>8, <2>9
  <2>12. b = d
    BY ONLY <2>10, <2>11
  <2>13. Depth(code, j) - Depth(code, x) = 1
    <3>1. Depth(code, j) = b + 1
      BY <1>6, <2>9, <2>12
    <3>2. (b + 1) - b = 1
      BY ONLY <2>10
    <3> QED BY <2>9, <3>1, <3>2
  <2>14. x + 1 \in OperandStarts(code, j)
    BY <1>2, <2>6, <2>13
  <2> QED BY <1>1, <2>6, <2>14
<1> QED BY <1>1, <1>6, <1>7

(* A local that an expression reads at most once.                          *)
ReadsOnce(code, local) ==
    \A j, k \in DOMAIN code :
        (code[j].op = "read" /\ code[j].name = local /\ code[k].op = "read" /\ code[k].name = local)
            => j = k

(* A read pushes the value of the local.                                   *)
IsRead(t) == t \in Token /\ t.op = "read" /\ t.arity = 0 /\ t.name \in Locals

HasRead(m, e, t) ==
    /\ IsMachine(e) /\ e.values = m.values /\ e.log = m.log
    /\ Len(m.stack) \in Nat /\ Len(e.stack) = Len(m.stack) + 1
    /\ \A i \in 1 .. Len(m.stack) : e.stack[i] = m.stack[i]
    /\ e.stack[Len(m.stack) + 1] = m.values[t.name]

(* A read pushes the value of its local and does nothing else.             *)
LEMMA ReadPushes ==
  ASSUME original.upvalues = {}, NEW m, IsMachine(m), NEW t, IsRead(t)
  PROVE  HasRead(m, EvaluateToken(m, t), t)
<1>0. t \in Token /\ t.op = "read" /\ t.arity = 0 /\ t.name \in Locals
  BY DEF IsRead
<1>1. Len(m.stack) \in Nat /\ t.arity <= Len(m.stack) /\ Len(m.stack) - t.arity = Len(m.stack)
  BY <1>0, StackFacts DEF IsMachine
<1>2. IsSupplied(t, Len(m.stack)) /\ ~ Effectful(t)
  BY <1>0, <1>1 DEF IsSupplied, Effectful
<1> DEFINE e == EvaluateToken(m, t)
<1>3. /\ IsMachine(e) /\ e.values = m.values
      /\ Len(e.stack) = Len(m.stack) - t.arity + 1
      /\ \A i \in 1 .. Len(m.stack) - t.arity : e.stack[i] = m.stack[i]
      /\ e.stack[Len(m.stack) - t.arity + 1] = TokenResult(m, t)
      /\ e.log = IF Effectful(t)
                 THEN Append(m.log, Result(t.name, Operands(m, t), Len(m.log)))
                 ELSE m.log
  BY <1>2, TokenStep
<1> HIDE DEF e
<1>4. TokenResult(m, t) = m.values[t.name]
  BY <1>0 DEF TokenResult
<1>5. HasRead(m, e, t)
  BY <1>1, <1>2, <1>3, <1>4 DEF HasRead
<1> QED BY <1>5 DEF e

(* The two values on top of a stack.                                       *)
LEMMA StackPair ==
  ASSUME NEW s, IsStack(s), NEW k \in Nat, Len(s) = k + 2
  PROVE  SubSeq(s, Len(s) - 2 + 1, Len(s)) = <<s[k + 1], s[k + 2]>>
<1> DEFINE S == {s[i] : i \in 1 .. Len(s)}
           u == SubSeq(s, k + 1, k + 2)
           v == <<s[k + 1], s[k + 2]>>
<1>1. s \in Seq(S)
  BY StackFacts
<1>2. s[k + 1] \in S /\ s[k + 2] \in S
  <2>1. k + 1 \in 1 .. Len(s) /\ k + 2 \in 1 .. Len(s)
    OBVIOUS
  <2> QED BY <2>1
<1> HIDE DEF S
<1>3. u \in Seq(S) /\ Len(u) = 2 /\ u[1] = s[k + 1] /\ u[2] = s[k + 2]
  <2>1. \A i \in k + 1 .. k + 2 : s[i] \in S
    BY <1>2
  <2>2. /\ u \in Seq(S) /\ Len(u) = IF k + 1 <= k + 2 THEN k + 2 - (k + 1) + 1 ELSE 0
        /\ \A i \in 1 .. k + 2 - (k + 1) + 1 : u[i] = s[k + 1 + i - 1]
    BY <2>1, SubSeqProperties
  <2> HIDE DEF u
  <2>3. 1 \in 1 .. k + 2 - (k + 1) + 1 /\ 2 \in 1 .. k + 2 - (k + 1) + 1
        /\ k + 1 + 1 - 1 = k + 1 /\ k + 1 + 2 - 1 = k + 2
        /\ k + 1 <= k + 2 /\ k + 2 - (k + 1) + 1 = 2
    OBVIOUS
  <2>4. u[1] = s[k + 1 + 1 - 1] /\ u[2] = s[k + 1 + 2 - 1]
    BY <2>2, <2>3
  <2> QED BY <2>2, <2>3, <2>4
<1>4. v \in Seq(S) /\ Len(v) = 2 /\ v[1] = s[k + 1] /\ v[2] = s[k + 2]
  BY <1>2
<1> HIDE DEF u, v
<1>5. \A i \in 1 .. 2 : u[i] = v[i]
  <2>1. \A i \in 1 .. 2 : i = 1 \/ i = 2
    OBVIOUS
  <2> QED BY <1>3, <1>4, <2>1
<1>6. u = v
  BY <1>3, <1>4, <1>5, SeqEqual
<1>7. Len(s) - 2 + 1 = k + 1
  OBVIOUS
<1> QED BY <1>6, <1>7 DEF u, v

(* A comparison finds its operands in one order or in the other.           *)
AreCrossed(m1, m2, k) ==
    /\ IsMachine(m1) /\ IsMachine(m2) /\ k \in Nat
    /\ Len(m1.stack) = k + 2 /\ Len(m2.stack) = k + 2
    /\ \A i \in 1 .. k : m1.stack[i] = m2.stack[i]
    /\ m1.stack[k + 1] = m2.stack[k + 2] /\ m1.stack[k + 2] = m2.stack[k + 1]
    /\ m1.log = m2.log

HaveCompared(m1, m2, e1, e2, k) ==
    /\ Alike(e1, e2, 0, 0, k + 1) /\ e1.log = e2.log
    /\ e1.values = m1.values /\ e2.values = m2.values

(* A comparison whose operands have changed sides, turned, gives the same. *)
LEMMA ComparisonTurns ==
  ASSUME original.upvalues = {}, NEW m1, NEW m2, NEW k, AreCrossed(m1, m2, k),
         NEW t, t \in Token, t.op \in {"compare", "converse"}, t.arity = 2
  PROVE  HaveCompared(m1, m2, EvaluateToken(m1, t), EvaluateToken(m2, Flipped(t)), k)
<1>0. /\ IsMachine(m1) /\ IsMachine(m2) /\ k \in Nat
      /\ Len(m1.stack) = k + 2 /\ Len(m2.stack) = k + 2
      /\ \A i \in 1 .. k : m1.stack[i] = m2.stack[i]
      /\ m1.stack[k + 1] = m2.stack[k + 2] /\ m1.stack[k + 2] = m2.stack[k + 1]
      /\ m1.log = m2.log
  BY DEF AreCrossed
<1> DEFINE r == Flipped(t)
           e1 == EvaluateToken(m1, t)
           e2 == EvaluateToken(m2, r)
           x == m1.stack[k + 1]
           y == m1.stack[k + 2]
<1>1. /\ r \in Token /\ r.arity = 2 /\ r.name = t.name /\ r.op \in {"compare", "converse"}
      /\ r.op = "converse" <=> t.op = "compare"
  BY DEF Flipped, Token
<1>2. Effectful(t) /\ Effectful(r) /\ t.op # "read" /\ r.op # "read" /\ t.op # "pure" /\ r.op # "pure"
  BY <1>1 DEF Effectful
<1>3. IsSupplied(t, Len(m1.stack)) /\ IsSupplied(r, Len(m2.stack))
  <2>1. 2 <= Len(m1.stack) /\ 2 <= Len(m2.stack)
    BY <1>0
  <2> HIDE DEF r
  <2> QED BY <1>1, <1>2, <2>1 DEF IsSupplied
<1>4. /\ SubSeq(m1.stack, Len(m1.stack) - 2 + 1, Len(m1.stack)) = <<x, y>>
      /\ SubSeq(m2.stack, Len(m2.stack) - 2 + 1, Len(m2.stack)) = <<y, x>>
  BY <1>0, StackPair DEF IsMachine
<1>5. Reverse(<<x, y>>) = <<y, x>> /\ Reverse(<<y, x>>) = <<x, y>>
  <2> HIDE DEF x, y
  <2>1. \A p, q : Reverse(<<p, q>>) = <<q, p>>
    <3> SUFFICES ASSUME NEW p, NEW q PROVE Reverse(<<p, q>>) = <<q, p>>
      OBVIOUS
    <3>1. Len(<<p, q>>) = 2 /\ <<p, q>>[1] = p /\ <<p, q>>[2] = q
      OBVIOUS
    <3>2. Reverse(<<p, q>>) = [i \in 1 .. 2 |-> <<p, q>>[(2 - i) + 1]]
      BY <3>1 DEF Reverse
    <3>3. [i \in 1 .. 2 |-> <<p, q>>[(2 - i) + 1]] = <<q, p>>
      OBVIOUS
    <3> QED BY <3>2, <3>3
  <2> QED BY <2>1
<1>6. Operands(m1, t) = Operands(m2, r)
  <2>1. Operands(m1, t) = IF t.op = "converse" THEN <<y, x>> ELSE <<x, y>>
    BY <1>4, <1>5 DEF Operands
  <2>2. Operands(m2, r) = IF r.op = "converse" THEN <<x, y>> ELSE <<y, x>>
    <3> HIDE DEF r
    <3> QED BY <1>1, <1>4, <1>5 DEF Operands
  <2> HIDE DEF r, x, y
  <2> QED BY <1>1, <2>1, <2>2
<1>7. TokenResult(m1, t) = TokenResult(m2, r)
  <2> HIDE DEF r
  <2> QED BY <1>0, <1>1, <1>2, <1>6 DEF TokenResult
<1>8. /\ IsMachine(e1) /\ e1.values = m1.values
      /\ Len(e1.stack) = Len(m1.stack) - t.arity + 1
      /\ \A i \in 1 .. Len(m1.stack) - t.arity : e1.stack[i] = m1.stack[i]
      /\ e1.stack[Len(m1.stack) - t.arity + 1] = TokenResult(m1, t)
      /\ e1.log = IF Effectful(t)
                  THEN Append(m1.log, Result(t.name, Operands(m1, t), Len(m1.log)))
                  ELSE m1.log
  BY <1>0, <1>3, TokenStep
<1> HIDE DEF r, x, y
<1>9. /\ IsMachine(e2) /\ e2.values = m2.values
      /\ Len(e2.stack) = Len(m2.stack) - r.arity + 1
      /\ \A i \in 1 .. Len(m2.stack) - r.arity : e2.stack[i] = m2.stack[i]
      /\ e2.stack[Len(m2.stack) - r.arity + 1] = TokenResult(m2, r)
      /\ e2.log = IF Effectful(r)
                  THEN Append(m2.log, Result(r.name, Operands(m2, r), Len(m2.log)))
                  ELSE m2.log
  BY <1>0, <1>3, TokenStep
<1> HIDE DEF e1, e2
<1>10. Len(m1.stack) - t.arity = k /\ Len(m2.stack) - r.arity = k
  BY <1>0, <1>1
<1>11. e1.log = e2.log
  BY <1>0, <1>1, <1>2, <1>6, <1>8, <1>9
<1>12. \A i \in 1 .. k + 1 : e1.stack[0 + i] = e2.stack[0 + i]
  <2> SUFFICES ASSUME NEW i \in 1 .. k + 1 PROVE e1.stack[0 + i] = e2.stack[0 + i]
    OBVIOUS
  <2>1. 0 + i = i /\ (i \in 1 .. k \/ i = k + 1)
    BY <1>0
  <2> QED BY <1>0, <1>7, <1>8, <1>9, <1>10, <2>1
<1>13. Len(e1.stack) = 0 + (k + 1) /\ Len(e2.stack) = 0 + (k + 1)
  BY <1>0, <1>8, <1>9, <1>10
<1>14. Alike(e1, e2, 0, 0, k + 1)
  BY <1>8, <1>9, <1>12, <1>13 DEF Alike
<1>15. HaveCompared(m1, m2, e1, e2, k)
  BY <1>8, <1>9, <1>11, <1>14 DEF HaveCompared
<1> QED BY <1>15 DEF e1, e2, r

(* A value that was assigned on machine o is read on m1, where it is the   *)
(* value of the local, and evaluated on m2 instead.  Its operands are on   *)
(* m2 what they were on o; it has no effects, or m2 has the log of o.      *)
IsMove(code, value, local, o, m1, m2) ==
    /\ code \in Seq(Token) /\ value \in Seq(Token) /\ IsExpression(code) /\ IsExpression(value)
    /\ local \in ReadsIn(code) /\ ReadsOnce(code, local) /\ Inlines(code, local, value)
    /\ IsMachine(o) /\ o.stack = <<>>
    /\ IsMachine(m1) /\ m1.stack = <<>>
    /\ IsMachine(m2) /\ m2.stack = <<>>
    /\ \A x \in Locals \ {local} : m1.values[x] = m2.values[x]
    /\ m1.values[local] = Last(Evaluated(o, value).stack)
    /\ \A x \in ReadsIn(value) : o.values[x] = m2.values[x]
    /\ \/ ~ HasEffects(value) /\ m1.log = m2.log
       \/ m1.log = Evaluated(o, value).log /\ m2.log = o.log

(* Before the place of the value, and behind the value.                    *)
HasBegun(before, after, m1, m2, local, depth) ==
    /\ IsMachine(before) /\ IsMachine(after)
    /\ before.values = m1.values /\ after.values = m2.values
    /\ before.log = after.log
    /\ Len(before.stack) = depth /\ Len(after.stack) = depth + 1
    /\ \A j \in 1 .. depth : before.stack[j] = after.stack[j]
    /\ after.stack[depth + 1] = m1.values[local]

MeetsValue(code, value, d, s) ==
    /\ d \in Seq(Token) /\ Len(d) = Len(code) - 1 + Len(value)
    /\ \A j \in 1 .. s - 1 : d[j] = code[j]
    /\ \A j \in 1 .. Len(value) : d[s - 1 + j] = value[j]

(* The value leaves on the stack what the read of the local would, and the *)
(* logs are the same behind it.                                            *)
LEMMA MoveBegins ==
  ASSUME original.upvalues = {}, NEW code, NEW value, NEW local, NEW o, NEW m1, NEW m2,
         IsMove(code, value, local, o, m1, m2),
         NEW d, NEW s, s \in 1 .. Position(code, local), s = Place(code, local),
         MeetsValue(code, value, d, s),
         NEW f, NEW g, Runs(f, m1, code), Runs(g, m2, d)
  PROVE  HasBegun(f[s - 1], g[s - 1 + Len(value)], m1, m2, local, Depth(code, s - 1))
<1> DEFINE i == Position(code, local)
           n == Len(value)
           b == Depth(code, s - 1)
<1>1. /\ code \in Seq(Token) /\ value \in Seq(Token) /\ IsExpression(code) /\ IsExpression(value)
      /\ local \in ReadsIn(code) /\ ReadsOnce(code, local) /\ Inlines(code, local, value)
      /\ IsMachine(o) /\ o.stack = <<>>
      /\ IsMachine(m1) /\ m1.stack = <<>>
      /\ IsMachine(m2) /\ m2.stack = <<>>
      /\ m1.values[local] = Last(Evaluated(o, value).stack)
      /\ \A x \in ReadsIn(value) : o.values[x] = m2.values[x]
      /\ d \in Seq(Token) /\ Len(d) = Len(code) - 1 + Len(value)
      /\ \A j \in 1 .. s - 1 : d[j] = code[j]
      /\ \A j \in 1 .. Len(value) : d[s - 1 + j] = value[j]
  BY DEF IsMove, MeetsValue
<1>2. i \in 1 .. Len(code) /\ code[i].op = "read" /\ code[i].name = local
  BY <1>1, PositionFound
<1> HIDE DEF i
<1>3. /\ n \in Nat /\ Len(code) \in Nat /\ s - 1 \in Nat /\ s - 1 \in 0 .. Len(code) /\ n >= 1
      /\ s \in 1 .. i /\ s - 1 + n \in Nat
  <2>1. n >= 1
    BY <1>1, ExpressionFacts
  <2> QED BY <1>1, <1>2, <2>1 DEF i
<1>4. b \in Nat /\ Depth(code, 0) = 0 /\ Depth(value, 0) = 0 /\ Depth(value, n) = 1
  BY <1>1, <1>3, ExpressionFacts
<1>5. PICK w : Runs(w, o, value) /\ Evaluated(o, value) = w[n]
  BY <1>1, EvaluatedRuns
<1>6. f[0] = m1 /\ g[0] = m2 /\ w[0] = o
  BY <1>5 DEF Runs
<1> HIDE DEF n
<1>7. ASSUME HasEffects(value)
      PROVE  /\ \A j \in 1 .. s - 1 : ~ Effectful(code[j])
             /\ m1.log = w[n].log /\ m2.log = o.log
  <2>1. ~ HasEffects(SubSeq(code, 1, s - 1))
    BY <1>1, <1>7 DEF Inlines, Observable
  <2> DEFINE front == SubSeq(code, 1, s - 1)
  <2>2. /\ front \in Seq(Token) /\ Len(front) = s - 1
        /\ \A j \in 1 .. s - 1 : front[j] = code[j]
    <3>1. s - 1 \in Nat /\ 1 \in Nat /\ 1 >= 1 /\ 1 <= (s - 1) + 1 /\ s - 1 <= Len(code)
          /\ (s - 1) - 1 + 1 = s - 1 /\ \A j \in 1 .. s - 1 : 1 - 1 + j = j
      BY <1>3
    <3> QED BY <1>1, <3>1, Stretch
  <2> HIDE DEF front
  <2>3. \A j \in 1 .. s - 1 : j \in DOMAIN front
    BY <2>2
  <2>4. \A j \in 1 .. s - 1 : ~ Effectful(code[j])
    BY <2>1, <2>2, <2>3 DEF HasEffects, front
  <2>5. m1.log = Evaluated(o, value).log /\ m2.log = o.log
    BY <1>7 DEF IsMove
  <2> QED BY <1>5, <2>4, <2>5
<1>8. ASSUME ~ HasEffects(value)
      PROVE  /\ \A j \in 1 .. n : ~ Effectful(value[j])
             /\ m1.log = m2.log
  <2>1. \A j \in 1 .. n : j \in DOMAIN value
    BY <1>1 DEF n
  <2>2. \A j \in 1 .. n : ~ Effectful(value[j])
    BY <1>8, <2>1 DEF HasEffects
  <2>3. \A j \in 1 .. n : value[0 + j] = value[j]
    BY <1>3
  <2>4. m1.log = m2.log
    <3>1. CASE m1.log = m2.log
      BY <3>1
    <3>2. CASE m1.log = Evaluated(o, value).log /\ m2.log = o.log
      <4>1. IsStretch(value, value, 0, 0, n, 0)
        <5>1. \A j \in 1 .. n : /\ value[0 + j].op = "read" =>
                                      value[0 + j].name \in Locals /\ value[0 + j].arity = 0
                                /\ Depth(value, 0 + j) > 0
          <6>1. \A j \in 1 .. n : 0 + j = j
            BY <1>3
          <6> QED BY <1>1, <6>1, ExpressionFacts DEF n
        <5> QED BY <1>3, <1>4, <5>1 DEF IsStretch, n
      <4>2. Alike(w[0], w[0], 0, 0, Depth(value, 0) - 0)
        BY <1>1, <1>4, <1>6, StackEmpty DEF Alike
      <4>3. \A j \in 1 .. n : ~ Effectful(value[0 + j])
        BY <2>2, <2>3
      <4>4. AlikeAfter(w[0], w[0], w[0 + n], w[0 + n], 0, 0, Depth(value, 0 + n) - 0,
                       TokensOf(value, 0, n))
        <5>1. StretchBegins(value, value, 0, 0, n, 0, w, w, 0, 0)
          BY <1>1, <1>5, <4>1, <4>2 DEF StretchBegins, Runs
        <5> QED BY <5>1, StretchAlike
      <4>5. w[0 + n].log = w[0].log /\ 0 + n = n
        <5>1. \A t \in TokensOf(value, 0, n) : ~ Effectful(t)
          BY <4>3 DEF TokensOf
        <5> QED BY <1>3, <4>4, <5>1 DEF AlikeAfter
      <4> QED BY <1>5, <1>6, <3>2, <4>5
    <3> QED BY <3>1, <3>2 DEF IsMove
  <2> QED BY <2>2, <2>4
<1>9. AlikeAfter(f[0], g[0], f[s - 1], g[s - 1], 0, 0, b, {code[j] : j \in 1 .. s - 1})
  <2>0. /\ \A j \in 1 .. s - 1 : 0 + j = j /\ j \in 1 .. Len(code) /\ j # i
        /\ 0 + (s - 1) = s - 1 /\ i \in DOMAIN code /\ DOMAIN code = 1 .. Len(code)
    <3>1. PICK l : l = Len(code)
      OBVIOUS
    <3>2. l \in Nat /\ i \in 1 .. l /\ s \in 1 .. i /\ DOMAIN code = 1 .. l
      BY <1>1, <1>2, <1>3, <3>1
    <3>3. (\A j \in 1 .. s - 1 : 0 + j = j /\ j \in 1 .. l /\ j # i) /\ 0 + (s - 1) = s - 1
      BY ONLY <3>2
    <3> QED BY <3>1, <3>2, <3>3
  <2>1. IsStretch(code, d, 0, 0, s - 1, 0)
    <3>1. 0 + (s - 1) <= Len(code) /\ 0 + (s - 1) <= Len(d)
      BY <1>1, <1>3 DEF n
    <3>2. \A j \in 1 .. s - 1 : /\ code[0 + j] = d[0 + j]
                                /\ code[0 + j].op = "read" =>
                                      code[0 + j].name \in Locals /\ code[0 + j].arity = 0
                                /\ Depth(code, 0 + j) > 0
      BY <1>1, <2>0, ExpressionFacts
    <3> QED BY <1>3, <1>4, <3>1, <3>2 DEF IsStretch
  <2>2. Alike(f[0], g[0], 0, 0, Depth(code, 0) - 0)
    <3>1. Depth(code, 0) - 0 = 0
      BY <1>4
    <3>2. Alike(m1, m2, 0, 0, 0)
      <4>1. Len(m1.stack) = 0 + 0 /\ Len(m2.stack) = 0 + 0
        BY <1>1, StackEmpty
      <4>2. \A x \in 1 .. 0 : FALSE
        OBVIOUS
      <4> QED BY <1>1, <4>1, <4>2 DEF Alike
    <3> QED BY <1>6, <3>1, <3>2
  <2>3. ASSUME NEW j \in 1 .. s - 1, code[0 + j].op = "read"
        PROVE  f[0].values[code[0 + j].name] = g[0].values[code[0 + j].name]
    <3>1. j \in DOMAIN code /\ code[j].op = "read"
      BY <2>0, <2>3
    <3>2. code[j].name \in Locals
      BY <1>1, <2>0, <3>1, ExpressionFacts
    <3>3. code[j].name # local
      BY <1>1, <1>2, <2>0, <3>1 DEF ReadsOnce
    <3>4. m1.values[code[j].name] = m2.values[code[j].name]
      BY <3>2, <3>3 DEF IsMove
    <3> QED BY <1>6, <2>0, <3>4
  <2>4. f[0].log = g[0].log \/ \A j \in 1 .. s - 1 : ~ Effectful(code[0 + j])
    BY <1>6, <1>7, <1>8, <2>0
  <2>5. AlikeAfter(f[0], g[0], f[0 + (s - 1)], g[0 + (s - 1)], 0, 0, Depth(code, 0 + (s - 1)) - 0,
                   TokensOf(code, 0, s - 1))
    <3>1. StretchBegins(code, d, 0, 0, s - 1, 0, f, g, 0, 0)
      BY <1>1, <2>1, <2>2, <2>3, <2>4 DEF StretchBegins, Runs
    <3> QED BY <3>1, StretchAlike
  <2>6. TokensOf(code, 0, s - 1) = {code[j] : j \in 1 .. s - 1}
    BY <2>0 DEF TokensOf
  <2>7. Depth(code, 0 + (s - 1)) - 0 = b
    BY <1>4, <2>0
  <2> QED BY <2>0, <2>5, <2>6, <2>7
<1>10. /\ IsMachine(f[s - 1]) /\ IsMachine(g[s - 1])
       /\ Len(f[s - 1].stack) = b /\ Len(g[s - 1].stack) = b
       /\ \A j \in 1 .. b : f[s - 1].stack[j] = g[s - 1].stack[j]
       /\ f[s - 1].values = m1.values /\ g[s - 1].values = m2.values
       /\ m1.log = m2.log => f[s - 1].log = g[s - 1].log
       /\ (\A j \in 1 .. s - 1 : ~ Effectful(code[j])) =>
             f[s - 1].log = m1.log /\ g[s - 1].log = m2.log
  <2>1. \A j \in 1 .. b : 0 + j = j
    BY <1>4
  <2>2. 0 + b = b
    BY <1>4
  <2>3. Alike(f[s - 1], g[s - 1], 0, 0, b)
    BY <1>9 DEF AlikeAfter
  <2>4. /\ IsMachine(f[s - 1]) /\ IsMachine(g[s - 1])
        /\ Len(f[s - 1].stack) = b /\ Len(g[s - 1].stack) = b
        /\ \A j \in 1 .. b : f[s - 1].stack[j] = g[s - 1].stack[j]
    BY <2>1, <2>2, <2>3 DEF Alike
  <2> HIDE DEF b
  <2> QED BY <1>6, <1>9, <2>4 DEF AlikeAfter
<1>11. AlikeAfter(w[0], g[s - 1], w[n], g[s - 1 + n], 0, b, 1, {value[j] : j \in 1 .. n})
  <2>0. /\ \A j \in 1 .. n : 0 + j = j /\ j \in 1 .. Len(value)
        /\ 0 + n = n /\ DOMAIN value = 1 .. Len(value)
    BY <1>1, <1>3 DEF n
  <2>1. IsStretch(value, d, 0, s - 1, n, 0)
    <3>1. 0 + n <= Len(value) /\ s - 1 + n <= Len(d)
      BY <1>1, <1>2, <1>3 DEF n
    <3>2. \A j \in 1 .. n : /\ value[0 + j] = d[s - 1 + j]
                            /\ value[0 + j].op = "read" =>
                                  value[0 + j].name \in Locals /\ value[0 + j].arity = 0
                            /\ Depth(value, 0 + j) > 0
      BY <1>1, <2>0, ExpressionFacts DEF n
    <3> QED BY <1>3, <1>4, <3>1, <3>2 DEF IsStretch
  <2>2. Alike(w[0], g[s - 1], 0, b, Depth(value, 0) - 0)
    <3>1. Depth(value, 0) - 0 = 0 /\ b + 0 = b
      BY <1>4
    <3>2. Alike(o, g[s - 1], 0, b, 0)
      <4>1. Len(o.stack) = 0 + 0
        BY <1>1, StackEmpty
      <4>2. \A x \in 1 .. 0 : FALSE
        OBVIOUS
      <4>3. IsMachine(g[s - 1]) /\ Len(g[s - 1].stack) = b + 0
        BY <1>10, <3>1
      <4> QED BY <1>1, <4>1, <4>2, <4>3 DEF Alike
    <3> QED BY <1>6, <3>1, <3>2
  <2>3. ASSUME NEW j \in 1 .. n, value[0 + j].op = "read"
        PROVE  w[0].values[value[0 + j].name] = g[s - 1].values[value[0 + j].name]
    <3>1. value[j].name \in ReadsIn(value)
      BY <2>0, <2>3 DEF ReadsIn
    <3>2. o.values[value[j].name] = m2.values[value[j].name]
      BY <1>1, <3>1
    <3> QED BY <1>6, <1>10, <2>0, <3>2
  <2>4. w[0].log = g[s - 1].log \/ \A j \in 1 .. n : ~ Effectful(value[0 + j])
    <3>1. CASE HasEffects(value)
      BY <1>6, <1>7, <1>10, <3>1
    <3>2. CASE ~ HasEffects(value)
      BY <1>8, <2>0, <3>2
    <3> QED BY <3>1, <3>2
  <2>5. AlikeAfter(w[0], g[s - 1], w[0 + n], g[s - 1 + n], 0, b, Depth(value, 0 + n) - 0,
                   TokensOf(value, 0, n))
    <3>1. StretchBegins(value, d, 0, s - 1, n, 0, w, g, 0, b)
      BY <1>1, <1>3, <1>4, <1>5, <2>1, <2>2, <2>3, <2>4 DEF StretchBegins, Runs
    <3> QED BY <3>1, StretchAlike
  <2>6. TokensOf(value, 0, n) = {value[j] : j \in 1 .. n}
    BY <2>0 DEF TokensOf
  <2>7. Depth(value, 0 + n) - 0 = 1
    BY <1>4, <2>0
  <2> QED BY <2>0, <2>5, <2>6, <2>7
<1>12. /\ IsMachine(g[s - 1 + n]) /\ Len(w[n].stack) = 1 /\ Len(g[s - 1 + n].stack) = b + 1
       /\ w[n].stack[1] = g[s - 1 + n].stack[b + 1]
       /\ g[s - 1 + n].values = g[s - 1].values
       /\ \A j \in 1 .. b : g[s - 1 + n].stack[j] = g[s - 1].stack[j]
       /\ w[0].log = g[s - 1].log => w[n].log = g[s - 1 + n].log
       /\ (\A j \in 1 .. n : ~ Effectful(value[j])) => g[s - 1 + n].log = g[s - 1].log
  <2>1. Alike(w[n], g[s - 1 + n], 0, b, 1)
    BY <1>11 DEF AlikeAfter
  <2>2. 0 + 1 = 1 /\ 1 \in 1 .. 1
    OBVIOUS
  <2>3. /\ IsMachine(g[s - 1 + n]) /\ Len(w[n].stack) = 1 /\ Len(g[s - 1 + n].stack) = b + 1
        /\ w[n].stack[1] = g[s - 1 + n].stack[b + 1]
    BY <2>1, <2>2 DEF Alike
  <2> HIDE DEF b
  <2> QED BY <1>11, <2>3 DEF AlikeAfter
<1>13. g[s - 1 + n].stack[b + 1] = m1.values[local]
  BY <1>1, <1>5, <1>12 DEF Last
<1>14. f[s - 1].log = g[s - 1 + n].log
  <2>1. CASE HasEffects(value)
    <3>1. f[s - 1].log = m1.log /\ g[s - 1].log = m2.log /\ m1.log = w[n].log /\ m2.log = w[0].log
      BY <1>6, <1>7, <1>10, <2>1
    <3> QED BY <1>12, <3>1
  <2>2. CASE ~ HasEffects(value)
    BY <1>8, <1>10, <1>12, <2>2
  <2> QED BY <2>1, <2>2
<1> HIDE DEF b
<1>15. HasBegun(f[s - 1], g[s - 1 + n], m1, m2, local, b)
  BY <1>10, <1>12, <1>13, <1>14 DEF HasBegun
<1> QED BY <1>15 DEF b, n

(* Two machines hold the same value, and the same log.                     *)
SameResult(e1, e2, m1, m2) ==
    /\ Alike(e1, e2, 0, 0, 1) /\ e1.log = e2.log
    /\ e1.values = m1.values /\ e2.values = m2.values

(* Behind the read, or the comparison, the rest does the same.             *)
IsBehind(code, d, local, p, q, f, g, m1, m2) ==
    /\ d \in Seq(Token) /\ p \in Position(code, local) .. Len(code) /\ q \in Nat
    /\ q + (Len(code) - p) = Len(d)
    /\ \A j \in 1 .. Len(code) - p : d[q + j] = code[p + j]
    /\ Steps(f, code) /\ Steps(g, d)
    /\ Alike(f[p], g[q], 0, 0, Depth(code, p))
    /\ f[p].values = m1.values /\ g[q].values = m2.values /\ f[p].log = g[q].log

(* What stands behind the read does the same on both machines.             *)
LEMMA MoveEnds ==
  ASSUME original.upvalues = {}, NEW code, NEW value, NEW local, NEW o, NEW m1, NEW m2,
         IsMove(code, value, local, o, m1, m2),
         NEW d, NEW p, NEW q, NEW f, NEW g, IsBehind(code, d, local, p, q, f, g, m1, m2)
  PROVE  SameResult(f[Len(code)], g[Len(d)], m1, m2)
<1> DEFINE i == Position(code, local)
           n == Len(code) - p
<1>1. /\ code \in Seq(Token) /\ IsExpression(code)
      /\ local \in ReadsIn(code) /\ ReadsOnce(code, local)
      /\ \A x \in Locals \ {local} : m1.values[x] = m2.values[x]
  BY DEF IsMove
<1>0. /\ d \in Seq(Token) /\ p \in Position(code, local) .. Len(code) /\ q \in Nat
      /\ q + (Len(code) - p) = Len(d)
      /\ \A j \in 1 .. Len(code) - p : d[q + j] = code[p + j]
      /\ Steps(f, code) /\ Steps(g, d)
      /\ Alike(f[p], g[q], 0, 0, Depth(code, p))
      /\ f[p].values = m1.values /\ g[q].values = m2.values /\ f[p].log = g[q].log
  BY DEF IsBehind
<1>2. i \in 1 .. Len(code) /\ code[i].op = "read" /\ code[i].name = local
  BY <1>1, PositionFound
<1> HIDE DEF i
<1>3. /\ p \in Nat /\ p \in i .. Len(code) /\ Len(code) \in Nat /\ n \in Nat
      /\ p + n = Len(code) /\ q + n = Len(d) /\ DOMAIN code = 1 .. Len(code)
      /\ p \in 0 .. Len(code)
  BY <1>0, <1>1, <1>2 DEF i
<1>4. \A j \in 1 .. n : p + j \in 1 .. Len(code) /\ p + j # i
  BY <1>2, <1>3
<1>5. Depth(code, p) \in Nat /\ Depth(code, p) - 0 = Depth(code, p) /\ Depth(code, Len(code)) = 1
      /\ \A j \in 1 .. Len(code) :
            /\ Depth(code, j) > 0
            /\ code[j].op = "read" => code[j].name \in Locals /\ code[j].arity = 0
  <2>1. Depth(code, p) \in Nat
    BY <1>1, <1>3, ExpressionFacts
  <2> QED BY <1>1, <2>1, ExpressionFacts
<1>6. IsStretch(code, d, p, q, n, 0)
  <2>1. p + n <= Len(code) /\ q + n <= Len(d) /\ Depth(code, p) >= 0
    BY <1>3, <1>5
  <2>2. \A j \in 1 .. n : code[p + j] = d[q + j]
    BY <1>0
  <2>3. ASSUME NEW j \in 1 .. n
        PROVE  /\ Depth(code, p + j) > 0
               /\ code[p + j].op = "read" => code[p + j].name \in Locals /\ code[p + j].arity = 0
    <3>1. p + j \in 1 .. Len(code)
      BY <1>4
    <3> QED BY <1>5, <3>1
  <2>4. p \in Nat /\ q \in Nat /\ n \in Nat /\ 0 \in Int
    BY <1>0, <1>3
  <2> HIDE DEF n
  <2> QED BY <2>1, <2>2, <2>3, <2>4 DEF IsStretch
<1>7. ASSUME NEW j \in 1 .. n, code[p + j].op = "read"
      PROVE  f[p].values[code[p + j].name] = g[q].values[code[p + j].name]
  <2>1. code[p + j].name # local
    BY <1>1, <1>2, <1>3, <1>4, <1>7 DEF ReadsOnce
  <2>2. code[p + j].name \in Locals
    BY <1>4, <1>5, <1>7
  <2> QED BY <1>0, <1>1, <2>1, <2>2
<1>8. StretchBegins(code, d, p, q, n, 0, f, g, 0, 0)
  BY <1>0, <1>1, <1>3, <1>5, <1>6, <1>7 DEF StretchBegins
<1>9. AlikeAfter(f[p], g[q], f[p + n], g[q + n], 0, 0, Depth(code, p + n) - 0, TokensOf(code, p, n))
  BY <1>8, StretchAlike
<1>10. Depth(code, p + n) - 0 = 1
  BY <1>3, <1>5
<1> QED BY <1>0, <1>3, <1>9, <1>10 DEF AlikeAfter, SameResult

(* The expression finds the value where it found the local.                *)
LEMMA PlainMeans ==
  ASSUME original.upvalues = {}, NEW code, NEW value, NEW local, NEW o, NEW m1, NEW m2,
         IsMove(code, value, local, o, m1, m2),
         NEW i, i = Position(code, local), i = Place(code, local),
         NEW d, HasPlainShape(code, value, d, i),
         NEW f, NEW g, Runs(f, m1, code), Runs(g, m2, d)
  PROVE  SameResult(f[Len(code)], g[Len(d)], m1, m2)
<1>1. /\ code \in Seq(Token) /\ value \in Seq(Token) /\ IsExpression(code) /\ IsExpression(value)
      /\ local \in ReadsIn(code)
  BY DEF IsMove
<1>2. PICK l, n, q : l = Len(code) /\ n = Len(value) /\ q = i - 1 + n
  OBVIOUS
<1>3. /\ i \in 1 .. l /\ code[i].op = "read" /\ code[i].name = local
      /\ i \in Nat /\ l \in Nat /\ n \in Nat
  <2>1. /\ Position(code, local) \in 1 .. Len(code)
        /\ code[Position(code, local)].op = "read" /\ code[Position(code, local)].name = local
    BY <1>1, PositionFound
  <2> QED BY <1>1, <1>2, <2>1
<1>4. /\ d \in Seq(Token) /\ Len(d) = l - 1 + n
      /\ \A j \in 1 .. i - 1 : d[j] = code[j]
      /\ \A j \in 1 .. n : d[i - 1 + j] = value[j]
      /\ \A j \in 1 .. l - i : d[q + j] = code[i + j]
  BY <1>2 DEF HasPlainShape
<1>5. /\ i - 1 \in 0 .. l - 1 /\ i - 1 \in 0 .. l /\ (i - 1) + 1 = i /\ i \in i .. l
      /\ q \in Nat /\ q + (l - i) = l - 1 + n /\ i \in 1 .. i
  <2>1. i \in 1 .. l /\ i \in Nat /\ l \in Nat /\ n \in Nat /\ q = i - 1 + n
    BY <1>2, <1>3
  <2> QED BY ONLY <2>1
<1>6. PICK b : b = Depth(code, i - 1)
  OBVIOUS
<1>7. /\ b \in Nat /\ Depth(code, i) = b + 1
      /\ code[i] \in Token /\ code[i].arity = 0 /\ code[i].name \in Locals
  <2>1. code[i] \in Token /\ code[i].arity = 0 /\ code[i].name \in Locals /\ b \in Nat
    BY <1>1, <1>2, <1>3, <1>5, <1>6, ExpressionFacts
  <2>2. Depth(code, (i - 1) + 1) = Depth(code, i - 1) - code[(i - 1) + 1].arity + 1
    BY <1>1, <1>2, <1>5, ExpressionFacts
  <2>3. b - 0 + 1 = b + 1
    BY ONLY <2>1
  <2> QED BY <1>5, <1>6, <2>1, <2>2, <2>3
<1>8. PICK x, y : x = f[i - 1] /\ y = g[q]
  OBVIOUS
<1>9. HasBegun(x, y, m1, m2, local, b)
  <2>1. MeetsValue(code, value, d, i)
    BY <1>2, <1>4 DEF MeetsValue
  <2>2. i \in 1 .. Position(code, local)
    BY <1>5
  <2>3. HasBegun(f[i - 1], g[i - 1 + Len(value)], m1, m2, local, Depth(code, i - 1))
    BY <2>1, <2>2, MoveBegins
  <2> QED BY <1>2, <1>6, <1>8, <2>3
<1>10. /\ IsMachine(x) /\ IsMachine(y)
       /\ x.values = m1.values /\ y.values = m2.values
       /\ x.log = y.log
       /\ Len(x.stack) = b /\ Len(y.stack) = b + 1
       /\ \A j \in 1 .. b : x.stack[j] = y.stack[j]
       /\ y.stack[b + 1] = m1.values[local]
  BY <1>9 DEF HasBegun
<1>11. PICK z : z = EvaluateToken(x, code[i])
  OBVIOUS
<1>12. /\ IsMachine(z) /\ z.values = m1.values /\ z.log = x.log
       /\ Len(z.stack) = b + 1
       /\ \A j \in 1 .. b : z.stack[j] = x.stack[j]
       /\ z.stack[b + 1] = m1.values[local]
  <2>1. IsRead(code[i])
    BY <1>3, <1>7 DEF IsRead
  <2>2. HasRead(x, z, code[i])
    BY <1>10, <1>11, <2>1, ReadPushes
  <2> QED BY <1>3, <1>10, <2>2 DEF HasRead
<1>13. Alike(z, y, 0, 0, b + 1)
  <2>1. Len(z.stack) = 0 + (b + 1) /\ Len(y.stack) = 0 + (b + 1)
    BY <1>7, <1>10, <1>12
  <2>2. \A j \in 1 .. b + 1 : z.stack[0 + j] = y.stack[0 + j]
    <3> SUFFICES ASSUME NEW j \in 1 .. b + 1 PROVE z.stack[0 + j] = y.stack[0 + j]
      OBVIOUS
    <3>1. 0 + j = j /\ (j \in 1 .. b \/ j = b + 1)
      BY <1>7
    <3> QED BY <1>10, <1>12, <3>1
  <2> QED BY <1>10, <1>12, <2>1, <2>2 DEF Alike
<1>14. f[i] = z
  <2>1. f[(i - 1) + 1] = EvaluateToken(f[i - 1], code[(i - 1) + 1])
    BY <1>2, <1>5 DEF Runs, Steps
  <2> QED BY <1>5, <1>8, <1>11, <2>1
<1>15. /\ Alike(f[i], g[q], 0, 0, Depth(code, i))
       /\ f[i].values = m1.values /\ g[q].values = m2.values /\ f[i].log = g[q].log
  BY <1>7, <1>8, <1>10, <1>12, <1>13, <1>14
<1>16. /\ i \in Position(code, local) .. Len(code) /\ q + (Len(code) - i) = Len(d)
       /\ \A j \in 1 .. Len(code) - i : d[q + j] = code[i + j]
  BY <1>2, <1>4, <1>5
<1>17. IsBehind(code, d, local, i, q, f, g, m1, m2)
  BY <1>4, <1>5, <1>15, <1>16 DEF IsBehind, Runs
<1> QED BY <1>17, MoveEnds

(* The comparison finds the value where it found the other operand.        *)
LEMMA TurnedMeans ==
  ASSUME original.upvalues = {}, NEW code, NEW value, NEW local, NEW o, NEW m1, NEW m2,
         IsMove(code, value, local, o, m1, m2),
         NEW i, i = Position(code, local), NEW s, s = Place(code, local), Swaps(code, i),
         NEW d, HasTurnedShape(code, value, d, i, s),
         NEW f, NEW g, Runs(f, m1, code), Runs(g, m2, d)
  PROVE  SameResult(f[Len(code)], g[Len(d)], m1, m2)
<1>1. /\ code \in Seq(Token) /\ value \in Seq(Token) /\ IsExpression(code) /\ IsExpression(value)
      /\ local \in ReadsIn(code)
  BY DEF IsMove
<1>2. PICK l, n, p, q, k : l = Len(code) /\ n = Len(value) /\ p = s - 1 /\ q = s - 1 + n /\ k = i - s
  OBVIOUS
<1>3. /\ i \in 1 .. l /\ code[i].op = "read" /\ code[i].name = local
      /\ i \in Nat /\ l \in Nat /\ n \in Nat
  <2>1. /\ Position(code, local) \in 1 .. Len(code)
        /\ code[Position(code, local)].op = "read" /\ code[Position(code, local)].name = local
    BY <1>1, PositionFound
  <2> QED BY <1>1, <1>2, <2>1
<1>4. /\ s \in 1 .. i - 1 /\ s = Max(OperandStarts(code, i - 1)) /\ i < l
      /\ code[i + 1].op \in {"compare", "converse"}
      /\ d \in Seq(Token) /\ Len(d) = l - 1 + n
      /\ \A j \in 1 .. s - 1 : d[j] = code[j]
      /\ \A j \in 1 .. n : d[s - 1 + j] = value[j]
      /\ \A j \in 1 .. k : d[q + j] = code[p + j]
      /\ d[i + n] = Flipped(code[i + 1])
      /\ \A j \in 1 .. l - i - 1 : d[i + n + j] = code[i + 1 + j]
  BY <1>2 DEF HasTurnedShape
<1>5. /\ s \in Nat /\ p \in Nat /\ q \in Nat /\ k \in Nat /\ p + k = i - 1 /\ q + k = i - 1 + n
      /\ i - 1 + n \in Nat /\ i + n \in Nat /\ i + 1 \in Nat /\ p \in 0 .. l
      /\ i - 1 \in 1 .. l /\ i - 1 \in 0 .. l - 1 /\ (i - 1) + 1 = i /\ i \in 0 .. l - 1
      /\ i - 1 + n \in 0 .. (l - 1 + n) - 1 /\ (i - 1 + n) + 1 = i + n /\ s \in 1 .. i
      /\ i + 1 \in i .. l /\ (i + n) + (l - (i + 1)) = l - 1 + n /\ l - (i + 1) = l - i - 1
      /\ p + k <= l /\ q + k <= l - 1 + n /\ i + 1 \in 1 .. l
      /\ \A j \in 1 .. k : p + j \in 1 .. l /\ p + j \in s .. i - 1 /\ p + j # i
  <2>1. /\ s \in 1 .. i - 1 /\ i \in 1 .. l /\ i \in Nat /\ l \in Nat /\ n \in Nat /\ i < l
        /\ p = s - 1 /\ q = s - 1 + n /\ k = i - s
    BY <1>2, <1>3, <1>4
  <2> QED BY ONLY <2>1
<1>6. PICK b : b = Depth(code, p)
  OBVIOUS
<1>7. /\ b \in Nat /\ b + 1 \in Nat /\ b - b = 0 /\ (b + 1) - b = 1 /\ b + 0 = b
      /\ (b + 1) + 0 = b + 1 /\ (b + 1) + 1 = b + 2 /\ b + 1 \in 1 .. b + 1
      /\ (b + 2) - 2 + 1 = b + 1 /\ (b + 1) - 0 + 1 = b + 2
      /\ \A j \in 1 .. b : j \in 1 .. b + 1
  <2>1. b \in Nat
    BY <1>1, <1>2, <1>5, <1>6, ExpressionFacts
  <2> QED BY ONLY <2>1
<1>8. /\ Depth(code, i - 1) = b + 1
      /\ \A j \in s .. i - 1 : Depth(code, j) > b
  <2>1. OperandStarts(code, i - 1) # {}
    BY DEF Swaps
  <2>2. PICK j : j = i - 1 /\ j \in 1 .. Len(code)
    BY <1>2, <1>5
  <2>3. /\ Depth(code, j) = Depth(code, s - 1) + 1
        /\ \A t \in s .. j : Depth(code, t) > Depth(code, s - 1)
    BY <1>1, <1>4, <2>1, <2>2, OperandShape
  <2> QED BY <1>2, <1>6, <2>2, <2>3
<1>9. PICK x, y, u, v : x = f[p] /\ y = g[q] /\ u = f[i - 1] /\ v = g[i - 1 + n]
  OBVIOUS
<1>10. HasBegun(x, y, m1, m2, local, b)
  <2>1. MeetsValue(code, value, d, s)
    BY <1>2, <1>4 DEF MeetsValue
  <2>2. s \in 1 .. Position(code, local)
    BY <1>5
  <2>3. HasBegun(f[s - 1], g[s - 1 + Len(value)], m1, m2, local, Depth(code, s - 1))
    BY <2>1, <2>2, MoveBegins
  <2> QED BY <1>2, <1>6, <1>9, <2>3
<1>11. /\ IsMachine(x) /\ IsMachine(y)
       /\ x.values = m1.values /\ y.values = m2.values
       /\ x.log = y.log
       /\ Len(x.stack) = b /\ Len(y.stack) = b + 1
       /\ \A j \in 1 .. b : x.stack[j] = y.stack[j]
       /\ y.stack[b + 1] = m1.values[local]
  BY <1>10 DEF HasBegun
<1>12. AlikeAfter(x, y, u, v, b, b + 1, 1, TokensOf(code, p, k))
  <2>1. IsStretch(code, d, p, q, k, b)
    <3>1. ASSUME NEW j \in 1 .. k
          PROVE  /\ code[p + j] = d[q + j]
                 /\ code[p + j].op = "read" => code[p + j].name \in Locals /\ code[p + j].arity = 0
                 /\ Depth(code, p + j) > b
      <4>1. p + j \in 1 .. Len(code) /\ p + j \in s .. i - 1
        BY <1>2, <1>5
      <4>2. code[p + j].op = "read" => code[p + j].name \in Locals /\ code[p + j].arity = 0
        BY <1>1, <4>1, ExpressionFacts
      <4> QED BY <1>4, <1>8, <4>1, <4>2
    <3>2. b >= b /\ b \in Int
      BY <1>7
    <3>3. p + k <= Len(code) /\ q + k <= Len(d)
      BY <1>2, <1>4, <1>5
    <3>4. p \in Nat /\ q \in Nat /\ k \in Nat
      BY <1>5
    <3> QED BY <1>6, <3>1, <3>2, <3>3, <3>4 DEF IsStretch
  <2>2. Alike(x, y, b, b + 1, 0)
    <3>1. \A j \in 1 .. 0 : FALSE
      OBVIOUS
    <3> QED BY <1>7, <1>11, <3>1 DEF Alike
  <2>3. ASSUME NEW j \in 1 .. k, code[p + j].op = "read"
        PROVE  x.values[code[p + j].name] = y.values[code[p + j].name]
    <3>1. p + j \in DOMAIN code /\ i \in DOMAIN code /\ p + j # i /\ p + j \in 1 .. Len(code)
      <4>1. DOMAIN code = 1 .. l
        BY <1>1, <1>2
      <4>2. p + j \in 1 .. l /\ p + j # i
        BY <1>5
      <4> QED BY <1>2, <1>3, <4>1, <4>2
    <3>2. code[p + j].name \in Locals
      BY <1>1, <2>3, <3>1, ExpressionFacts
    <3>3. ReadsOnce(code, local)
      BY DEF IsMove
    <3>4. code[p + j].name # local
      BY <1>3, <2>3, <3>1, <3>3 DEF ReadsOnce
    <3>5. m1.values[code[p + j].name] = m2.values[code[p + j].name]
      BY <3>2, <3>4 DEF IsMove
    <3> QED BY <1>11, <3>5
  <2>4. Alike(f[p], g[q], b, b + 1, Depth(code, p) - b)
    BY <1>6, <1>7, <1>9, <2>2
  <2>5. Steps(f, code) /\ Steps(g, d)
    BY DEF Runs
  <2>6. StretchBegins(code, d, p, q, k, b, f, g, b, b + 1)
    BY <1>1, <1>4, <1>7, <1>9, <1>11, <2>1, <2>3, <2>4, <2>5 DEF StretchBegins
  <2>7. AlikeAfter(f[p], g[q], f[p + k], g[q + k], b, b + 1, Depth(code, p + k) - b, TokensOf(code, p, k))
    BY <2>6, StretchAlike
  <2>8. Depth(code, p + k) - b = 1
    BY <1>5, <1>7, <1>8
  <2> QED BY <1>5, <1>9, <2>7, <2>8
<1>13. /\ IsMachine(u) /\ IsMachine(v) /\ u.values = m1.values /\ v.values = m2.values
       /\ u.log = v.log /\ Len(u.stack) = b + 1 /\ Len(v.stack) = b + 2
       /\ u.stack[b + 1] = v.stack[b + 2] /\ v.stack[b + 1] = m1.values[local]
       /\ \A j \in 1 .. b : u.stack[j] = v.stack[j]
  <2>1. /\ Alike(u, v, b, b + 1, 1) /\ u.values = x.values /\ v.values = y.values
        /\ \A j \in 1 .. b : u.stack[j] = x.stack[j]
        /\ \A j \in 1 .. b + 1 : v.stack[j] = y.stack[j]
        /\ x.log = y.log => u.log = v.log
    BY <1>12 DEF AlikeAfter
  <2>2. 1 \in 1 .. 1
    OBVIOUS
  <2>3. /\ IsMachine(u) /\ IsMachine(v) /\ Len(u.stack) = b + 1 /\ Len(v.stack) = b + 2
        /\ u.stack[b + 1] = v.stack[b + 2]
    BY <1>7, <2>1, <2>2 DEF Alike
  <2>4. \A j \in 1 .. b : u.stack[j] = v.stack[j]
    BY <1>7, <1>11, <2>1
  <2>5. v.stack[b + 1] = m1.values[local]
    BY <1>7, <1>11, <2>1
  <2> QED BY <1>11, <2>1, <2>3, <2>4, <2>5
<1>14. PICK z : z = EvaluateToken(u, code[i])
  OBVIOUS
<1>15. code[i] \in Token /\ code[i].arity = 0 /\ code[i].name \in Locals
  BY <1>1, <1>2, <1>3, ExpressionFacts
<1>16. /\ IsMachine(z) /\ z.values = m1.values /\ z.log = u.log
       /\ Len(z.stack) = b + 2
       /\ \A j \in 1 .. b + 1 : z.stack[j] = u.stack[j]
       /\ z.stack[b + 2] = m1.values[local]
  <2>1. IsRead(code[i])
    BY <1>3, <1>15 DEF IsRead
  <2>2. HasRead(u, z, code[i])
    BY <1>13, <1>14, <2>1, ReadPushes
  <2> QED BY <1>3, <1>7, <1>13, <2>2 DEF HasRead
<1>17. PICK t : t = code[i + 1]
  OBVIOUS
<1>18. t \in Token /\ t.op \in {"compare", "converse"} /\ t.arity = 2
  <2>1. i + 1 \in DOMAIN code /\ i + 1 \in 1 .. Len(code)
    <3>1. DOMAIN code = 1 .. Len(code)
      BY <1>1
    <3>2. i + 1 \in 1 .. l /\ l = Len(code)
      BY <1>2, <1>5
    <3> QED BY <3>1, <3>2
  <2>2. t.arity = 2
    BY <1>1, <1>4, <1>17, <2>1 DEF IsExpression
  <2> QED BY <1>1, <1>4, <1>17, <2>1, <2>2, ExpressionFacts
<1>19. PICK e, r : e = EvaluateToken(z, t) /\ r = EvaluateToken(v, Flipped(t))
  OBVIOUS
<1>20. /\ Alike(e, r, 0, 0, b + 1) /\ e.log = r.log
       /\ e.values = m1.values /\ r.values = m2.values
  <2>1. /\ \A j \in 1 .. b : z.stack[j] = v.stack[j]
        /\ z.stack[b + 1] = v.stack[b + 2] /\ z.stack[b + 2] = v.stack[b + 1]
    BY <1>7, <1>13, <1>16
  <2>2. z.log = v.log /\ Len(z.stack) = b + 2 /\ Len(v.stack) = b + 2 /\ IsMachine(z) /\ IsMachine(v)
    BY <1>13, <1>16
  <2>3. AreCrossed(z, v, b)
    BY <1>7, <2>1, <2>2 DEF AreCrossed
  <2>4. HaveCompared(z, v, e, r, b)
    BY <1>18, <1>19, <2>3, ComparisonTurns
  <2> QED BY <1>13, <1>16, <2>4 DEF HaveCompared
<1>21. f[i + 1] = e /\ g[i + n] = r
  <2>1. f[(i - 1) + 1] = EvaluateToken(f[i - 1], code[(i - 1) + 1])
    BY <1>2, <1>5 DEF Runs, Steps
  <2>2. f[i + 1] = EvaluateToken(f[i], code[i + 1])
    BY <1>2, <1>5 DEF Runs, Steps
  <2>3. g[(i - 1 + n) + 1] = EvaluateToken(g[i - 1 + n], d[(i - 1 + n) + 1])
    BY <1>4, <1>5 DEF Runs, Steps
  <2> QED BY <1>4, <1>5, <1>9, <1>14, <1>17, <1>19, <2>1, <2>2, <2>3
<1>22. Depth(code, i + 1) = b + 1
  <2>1. Depth(code, (i - 1) + 1) = Depth(code, i - 1) - code[(i - 1) + 1].arity + 1
    BY <1>1, <1>2, <1>5, ExpressionFacts
  <2>2. Depth(code, i + 1) = Depth(code, i) - code[i + 1].arity + 1
    BY <1>1, <1>2, <1>5, ExpressionFacts
  <2>3. Depth(code, i) = b + 2
    BY <1>5, <1>7, <1>8, <1>15, <2>1
  <2> QED BY <1>7, <1>17, <1>18, <2>2, <2>3
<1>23. PICK c, a : c = i + 1 /\ a = i + n
  OBVIOUS
<1>24. /\ Alike(f[c], g[a], 0, 0, Depth(code, c))
       /\ f[c].values = m1.values /\ g[a].values = m2.values /\ f[c].log = g[a].log
  BY <1>20, <1>21, <1>22, <1>23
<1>25. /\ c \in Position(code, local) .. Len(code) /\ a \in Nat /\ a + (Len(code) - c) = Len(d)
       /\ \A j \in 1 .. Len(code) - c : d[a + j] = code[c + j]
  BY <1>2, <1>4, <1>5, <1>23
<1>26. IsBehind(code, d, local, c, a, f, g, m1, m2)
  BY <1>4, <1>24, <1>25 DEF IsBehind, Runs
<1> QED BY <1>26, MoveEnds

(* An expression into which the value of a local was inlined leaves the    *)
(* value that it left before, and does the same to the log.                *)
LEMMA InlinedMeans ==
  ASSUME original.upvalues = {}, NEW code, NEW value, NEW local, NEW o, NEW m1, NEW m2,
         IsMove(code, value, local, o, m1, m2)
  PROVE  SameResult(Evaluated(m1, code), Evaluated(m2, Inlined(code, local, value)), m1, m2)
<1>1. code \in Seq(Token) /\ value \in Seq(Token) /\ local \in ReadsIn(code)
  BY DEF IsMove
<1>2. PICK i, s, d : /\ i = Position(code, local) /\ s = Place(code, local)
                     /\ d = Inlined(code, local, value)
  OBVIOUS
<1>3. PICK f : Runs(f, m1, code) /\ Evaluated(m1, code) = f[Len(code)]
  BY <1>1, EvaluatedRuns
<1>4. CASE ~ Swaps(code, i)
  <2>1. i = s /\ HasPlainShape(code, value, d, i)
    BY <1>1, <1>2, <1>4, ShapeWithoutSwap
  <2>2. d \in Seq(Token)
    BY <2>1 DEF HasPlainShape
  <2>3. PICK g : Runs(g, m2, d) /\ Evaluated(m2, d) = g[Len(d)]
    BY <2>2, EvaluatedRuns
  <2>4. i = Place(code, local)
    BY <1>2, <2>1
  <2>5. SameResult(f[Len(code)], g[Len(d)], m1, m2)
    BY <1>2, <1>3, <2>1, <2>3, <2>4, PlainMeans
  <2> QED BY <1>2, <1>3, <2>3, <2>5
<1>5. CASE Swaps(code, i)
  <2>1. HasTurnedShape(code, value, d, i, s)
    BY <1>1, <1>2, <1>5, ShapeWithSwap
  <2>2. d \in Seq(Token)
    BY <2>1 DEF HasTurnedShape
  <2>3. PICK g : Runs(g, m2, d) /\ Evaluated(m2, d) = g[Len(d)]
    BY <2>2, EvaluatedRuns
  <2>4. SameResult(f[Len(code)], g[Len(d)], m1, m2)
    BY <1>2, <1>3, <1>5, <2>1, <2>3, TurnedMeans
  <2> QED BY <1>2, <1>3, <2>3, <2>4
<1> QED BY <1>4, <1>5

-----------------------------------------------------------------------------
(* The depths below the value, of the value above them, and of the rest.   *)
LEMMA PlainDepths ==
  ASSUME NEW code \in Seq(Token), NEW value \in Seq(Token), IsExpression(code), IsExpression(value),
         NEW i, i \in 1 .. Len(code), IsRead(code[i]),
         NEW d, HasPlainShape(code, value, d, i)
  PROVE  IsExpression(d)
<1>1. PICK l, n, q : l = Len(code) /\ n = Len(value) /\ q = i - 1 + n
  OBVIOUS
<1>2. /\ d \in Seq(Token) /\ Len(d) = l - 1 + n
      /\ \A j \in 1 .. i - 1 : d[j] = code[j]
      /\ \A j \in 1 .. n : d[i - 1 + j] = value[j]
      /\ \A j \in 1 .. l - i : d[q + j] = code[i + j]
  BY <1>1 DEF HasPlainShape
<1>3. /\ i \in Nat /\ l \in Nat /\ n \in Nat /\ i \in 1 .. l
  BY <1>1
<1>4. /\ i - 1 \in Nat /\ q \in Nat /\ l - i \in Nat /\ 0 + (i - 1) = i - 1 /\ 0 + n = n
      /\ i + (l - i) = l /\ q + (l - i) = l - 1 + n /\ i - 1 <= l /\ i - 1 <= l - 1 + n
      /\ q <= l - 1 + n /\ i - 1 \in 0 .. l - 1 /\ (i - 1) + 1 = i /\ i - 1 \in 0 .. l
      /\ n <= n /\ l <= l /\ l - 1 + n <= l - 1 + n /\ i - 1 \in 0 .. i - 1 /\ n \in 0 .. n
      /\ l - i \in 0 .. l - i
      /\ \A j \in 0 .. l : 0 + j = j
      /\ \A j \in 0 .. n : 0 + j = j
      /\ \A j \in 1 .. i - 1 : j \in 1 .. l /\ j \in 0 .. i - 1
      /\ \A j \in 1 .. n : j \in 0 .. n
      /\ \A j \in 1 .. l - i : i + j \in 1 .. l /\ j \in 0 .. l - i
      /\ \A j \in 1 .. l - 1 + n : \/ j \in 1 .. i - 1
                                   \/ j - (i - 1) \in 1 .. n /\ j = (i - 1) + (j - (i - 1))
                                   \/ j - q \in 1 .. l - i /\ j = q + (j - q)
      /\ i - 1 + n = q
  <2>1. i \in Nat /\ l \in Nat /\ n \in Nat /\ i \in 1 .. l /\ q = i - 1 + n
    BY <1>1, <1>3
  <2> QED BY ONLY <2>1
<1>5. PICK b : b = Depth(code, i - 1)
  OBVIOUS
<1>6. /\ Depth(code, 0) = 0 /\ Depth(value, 0) = 0 /\ Depth(d, 0) = 0
      /\ b \in Nat /\ Depth(code, i) = b + 1 /\ Depth(value, n) = 1 /\ Depth(code, l) = 1
      /\ \A j \in 0 .. l : Depth(code, j) \in Int
      /\ \A j \in 0 .. n : Depth(value, j) \in Int
      /\ \A j \in 0 .. l - 1 + n : Depth(d, j) \in Int
      /\ \A j \in 1 .. l : Depth(code, j) > 0
      /\ \A j \in 1 .. n : Depth(value, j) > 0
  <2>1. b \in Nat /\ Depth(code, 0) = 0 /\ Depth(value, 0) = 0 /\ Depth(value, n) = 1
        /\ Depth(code, l) = 1
    BY <1>1, <1>4, <1>5, ExpressionFacts
  <2>2. Depth(code, (i - 1) + 1) = Depth(code, i - 1) - code[(i - 1) + 1].arity + 1
    BY <1>1, <1>4, ExpressionFacts
  <2>3. code[i].arity = 0 /\ b - 0 + 1 = b + 1
    BY <2>1 DEF IsRead
  <2>4. Depth(code, i) = b + 1
    BY <1>4, <1>5, <2>2, <2>3
  <2>5. Depth(d, 0) = 0 /\ \A j \in 0 .. l - 1 + n : Depth(d, j) \in Int
    BY <1>2, DepthSteps
  <2>6. /\ \A j \in 0 .. l : Depth(code, j) \in Int
        /\ \A j \in 0 .. n : Depth(value, j) \in Int
    BY <1>1, DepthSteps
  <2>7. /\ \A j \in 1 .. l : Depth(code, j) > 0
        /\ \A j \in 1 .. n : Depth(value, j) > 0
    BY <1>1, ExpressionFacts
  <2> QED BY <2>1, <2>4, <2>5, <2>6, <2>7
<1>7. \A j \in 0 .. i - 1 : Depth(code, 0 + j) - Depth(code, 0) = Depth(d, 0 + j) - Depth(d, 0)
  <2>1. ASSUME NEW j \in 1 .. i - 1 PROVE code[0 + j].arity = d[0 + j].arity
    <3>1. 0 + j = j
      OBVIOUS
    <3> QED BY <1>2, <3>1
  <2>2. 0 \in Nat /\ 0 + (i - 1) <= Len(code) /\ 0 + (i - 1) <= Len(d)
    BY <1>1, <1>2, <1>4
  <2> QED
    <3>1. HaveSameArities(code, d, 0, 0, i - 1)
      BY <1>2, <1>4, <2>1, <2>2 DEF HaveSameArities
    <3>2. HaveSameDepths(code, d, 0, 0, i - 1)
      BY <3>1, DepthsOfStretch
    <3> QED BY <3>2 DEF HaveSameDepths
<1>8. \A j \in 0 .. i - 1 : Depth(d, j) = Depth(code, j)
  <2> SUFFICES ASSUME NEW j \in 0 .. i - 1 PROVE Depth(d, j) = Depth(code, j)
    OBVIOUS
  <2>1. j \in 0 .. l /\ j \in 0 .. l - 1 + n /\ 0 + j = j
    BY <1>3
  <2>2. Depth(code, j) - 0 = Depth(d, j) - 0
    BY <1>6, <1>7, <2>1
  <2>3. Depth(code, j) \in Int /\ Depth(d, j) \in Int
    BY <1>6, <2>1
  <2> QED BY ONLY <2>2, <2>3
<1>9. \A j \in 0 .. n : Depth(value, 0 + j) - Depth(value, 0) = Depth(d, (i - 1) + j) - Depth(d, i - 1)
  <2>1. \A j \in 1 .. n : value[0 + j].arity = d[(i - 1) + j].arity
    BY <1>2, <1>4
  <2>2. 0 \in Nat /\ 0 + n <= Len(value) /\ (i - 1) + n <= Len(d)
    BY <1>1, <1>2, <1>4
  <2>3. HaveSameArities(value, d, 0, i - 1, n)
    BY <1>2, <1>3, <1>4, <2>1, <2>2 DEF HaveSameArities
  <2>4. HaveSameDepths(value, d, 0, i - 1, n)
    BY <2>3, DepthsOfStretch
  <2> QED BY <2>4 DEF HaveSameDepths
<1>10. \A j \in 0 .. n : Depth(d, (i - 1) + j) = b + Depth(value, j)
  <2> SUFFICES ASSUME NEW j \in 0 .. n PROVE Depth(d, (i - 1) + j) = b + Depth(value, j)
    OBVIOUS
  <2>1. (i - 1) + j \in 0 .. l - 1 + n
    BY <1>3
  <2>2. Depth(value, j) - 0 = Depth(d, (i - 1) + j) - b
    BY <1>4, <1>5, <1>6, <1>8, <1>9
  <2>3. Depth(value, j) \in Int /\ Depth(d, (i - 1) + j) \in Int /\ b \in Nat
    BY <1>6, <2>1
  <2> QED BY ONLY <2>2, <2>3
<1>11. Depth(d, q) = b + 1
  BY <1>4, <1>6, <1>10
<1>12. \A j \in 0 .. l - i : Depth(code, i + j) - Depth(code, i) = Depth(d, q + j) - Depth(d, q)
  <2>1. \A j \in 1 .. l - i : code[i + j].arity = d[q + j].arity
    BY <1>2
  <2>2. i + (l - i) <= Len(code) /\ q + (l - i) <= Len(d)
    BY <1>1, <1>2, <1>4
  <2>3. HaveSameArities(code, d, i, q, l - i)
    BY <1>2, <1>3, <1>4, <2>1, <2>2 DEF HaveSameArities
  <2>4. HaveSameDepths(code, d, i, q, l - i)
    BY <2>3, DepthsOfStretch
  <2> QED BY <2>4 DEF HaveSameDepths
<1>13. \A j \in 0 .. l - i : Depth(d, q + j) = Depth(code, i + j)
  <2> SUFFICES ASSUME NEW j \in 0 .. l - i PROVE Depth(d, q + j) = Depth(code, i + j)
    OBVIOUS
  <2>1. q + j \in 0 .. l - 1 + n /\ i + j \in 0 .. l
    BY <1>1, <1>3
  <2>2. Depth(code, i + j) - (b + 1) = Depth(d, q + j) - (b + 1)
    BY <1>6, <1>11, <1>12
  <2>3. Depth(code, i + j) \in Int /\ Depth(d, q + j) \in Int /\ b \in Nat
    BY <1>6, <2>1
  <2> QED BY ONLY <2>2, <2>3
<1>14. Depth(d, Len(d)) = 1
  BY <1>2, <1>4, <1>6, <1>13
<1>15. ASSUME NEW j \in 1 .. l - 1 + n
       PROVE  /\ Depth(d, j) > 0
              /\ d[j].op = "read" => d[j].name \in Locals /\ d[j].arity = 0
              /\ d[j].op \in {"compare", "converse"} => d[j].arity = 2
  <2>1. CASE j \in 1 .. i - 1
    <3>1. d[j] = code[j] /\ Depth(d, j) = Depth(code, j) /\ j \in 1 .. l /\ j \in DOMAIN code
      BY <1>1, <1>2, <1>4, <1>8, <2>1
    <3> QED BY <1>6, <3>1 DEF IsExpression
  <2>2. CASE j - (i - 1) \in 1 .. n /\ j = (i - 1) + (j - (i - 1))
    <3>1. PICK k : k = j - (i - 1)
      OBVIOUS
    <3>2. k \in 1 .. n /\ k \in DOMAIN value /\ d[j] = value[k] /\ Depth(d, j) = b + Depth(value, k)
      BY <1>1, <1>2, <1>4, <1>10, <2>2, <3>1
    <3>3. Depth(value, k) > 0 /\ Depth(value, k) \in Int /\ b \in Nat
      BY <1>4, <1>6, <3>2
    <3>4. Depth(d, j) > 0
      BY ONLY <3>2, <3>3
    <3> QED BY <3>2, <3>4 DEF IsExpression
  <2>3. CASE j - q \in 1 .. l - i /\ j = q + (j - q)
    <3>1. PICK k : k = j - q
      OBVIOUS
    <3>2. k \in 1 .. l - i /\ d[j] = code[i + k] /\ Depth(d, j) = Depth(code, i + k)
          /\ i + k \in 1 .. l
      BY <1>2, <1>4, <1>13, <2>3, <3>1
    <3>3. i + k \in DOMAIN code
      BY <1>1, <3>2
    <3> QED BY <1>6, <3>2, <3>3 DEF IsExpression
  <2> QED BY <1>4, <2>1, <2>2, <2>3
<1>16. DOMAIN d = 1 .. l - 1 + n
  BY <1>2
<1> QED BY <1>14, <1>15, <1>16 DEF IsExpression

(* Depths that rise alike from depths that differ by x.                    *)
AreAbove(c, d, p, q, n, x) == \A j \in 0 .. n : Depth(d, q + j) = Depth(c, p + j) + x

(* A stretch that begins x above another stays x above it.                 *)
LEMMA DepthsAbove ==
  ASSUME NEW c, NEW d, NEW p, NEW q, NEW n, HaveSameArities(c, d, p, q, n),
         NEW x \in Nat, Depth(d, q) = Depth(c, p) + x
  PROVE  AreAbove(c, d, p, q, n, x)
<1>1. HaveSameDepths(c, d, p, q, n)
  BY DepthsOfStretch
<1>2. /\ c \in Seq(Token) /\ d \in Seq(Token) /\ p \in Nat /\ q \in Nat /\ n \in Nat
      /\ p + n <= Len(c) /\ q + n <= Len(d)
  BY DEF HaveSameArities
<1>3. ASSUME NEW j \in 0 .. n PROVE Depth(d, q + j) = Depth(c, p + j) + x
  <2>1. /\ p + j \in 0 .. Len(c) /\ p \in 0 .. Len(c) /\ q + j \in 0 .. Len(d) /\ q \in 0 .. Len(d)
    BY <1>2
  <2>2. /\ Depth(c, p + j) \in Int /\ Depth(c, p) \in Int
        /\ Depth(d, q + j) \in Int /\ Depth(d, q) \in Int
    BY <1>2, <2>1, DepthSteps
  <2>3. Depth(c, p + j) - Depth(c, p) = Depth(d, q + j) - Depth(d, q)
    BY <1>1 DEF HaveSameDepths
  <2>4. PICK r, u, v, w : /\ r = Depth(c, p + j) /\ u = Depth(c, p)
                          /\ v = Depth(d, q + j) /\ w = Depth(d, q)
    OBVIOUS
  <2>5. r \in Int /\ u \in Int /\ v \in Int /\ w \in Int /\ r - u = v - w /\ w = u + x
    BY <2>2, <2>3, <2>4
  <2>6. x \in Nat
    OBVIOUS
  <2>7. v = r + x
    BY ONLY <2>5, <2>6
  <2> QED BY <2>4, <2>7
<1> QED BY <1>3 DEF AreAbove

(* What is inlined with operands that change sides is an expression.       *)
LEMMA TurnedDepths ==
  ASSUME NEW code \in Seq(Token), NEW value \in Seq(Token), IsExpression(code), IsExpression(value),
         NEW i, i \in 1 .. Len(code), IsRead(code[i]), OperandStarts(code, i - 1) # {},
         NEW s, NEW d, HasTurnedShape(code, value, d, i, s)
  PROVE  IsExpression(d)
<1>1. PICK l, n, p, q, k : l = Len(code) /\ n = Len(value) /\ p = s - 1 /\ q = s - 1 + n /\ k = i - s
  OBVIOUS
<1>2. /\ s \in 1 .. i - 1 /\ s = Max(OperandStarts(code, i - 1)) /\ i < l
      /\ code[i + 1].op \in {"compare", "converse"}
      /\ d \in Seq(Token) /\ Len(d) = l - 1 + n
      /\ \A j \in 1 .. p : d[j] = code[j]
      /\ \A j \in 1 .. n : d[p + j] = value[j]
      /\ \A j \in 1 .. k : d[q + j] = code[p + j]
      /\ d[i + n] = Flipped(code[i + 1])
      /\ \A j \in 1 .. l - i - 1 : d[i + n + j] = code[i + 1 + j]
  BY <1>1 DEF HasTurnedShape
<1>3. PICK m : m = i - 1 + n
  OBVIOUS
<1>4. /\ i \in 1 .. l /\ i \in Nat /\ l \in Nat /\ n \in Nat /\ s \in 1 .. i - 1 /\ i < l
      /\ p = s - 1 /\ q = s - 1 + n /\ k = i - s /\ m = i - 1 + n
  BY <1>1, <1>2, <1>3
<1>5. /\ p \in Nat /\ q \in Nat /\ k \in Nat /\ m \in Nat /\ l - i \in Nat
      /\ 0 + p = p /\ 0 + n = n /\ p <= l /\ p <= l - 1 + n /\ p + n = q /\ q <= l - 1 + n
      /\ p + k = i - 1 /\ q + k = m /\ p + k <= l /\ q + k <= l - 1 + n /\ n <= n
      /\ i + (l - i) = l /\ m + (l - i) = l - 1 + n /\ l <= l /\ l - 1 + n <= l - 1 + n
      /\ i - 1 \in 0 .. l - 1 /\ (i - 1) + 1 = i /\ p \in 0 .. l /\ i - 1 \in 1 .. l
      /\ p \in 0 .. p /\ n \in 0 .. n /\ k \in 0 .. k /\ l - i \in 0 .. l - i /\ 0 \in 0 .. k
      /\ i + n = m + 1 /\ i + 1 \in 1 .. l /\ q + 0 = q /\ p + 0 = p
      /\ \A j \in 0 .. l : 0 + j = j
      /\ \A j \in 0 .. n : 0 + j = j
  BY ONLY <1>4
<1>6. /\ \A j \in 1 .. p : j \in 1 .. l /\ j \in 0 .. p /\ j \in 0 .. l
      /\ \A j \in 1 .. n : j \in 0 .. n
      /\ \A j \in 1 .. k : p + j \in 1 .. l /\ j \in 0 .. k
      /\ \A j \in 2 .. l - i : /\ j - 1 \in 1 .. l - i - 1 /\ i + 1 + (j - 1) = i + j
                              /\ i + n + (j - 1) = m + j
      /\ \A j \in 1 .. l - i : i + j \in 1 .. l /\ j \in 0 .. l - i /\ (j = 1 \/ j \in 2 .. l - i)
      /\ \A j \in 1 .. l - 1 + n : \/ j \in 1 .. p
                                   \/ j - p \in 1 .. n /\ j = p + (j - p)
                                   \/ j - q \in 1 .. k /\ j = q + (j - q)
                                   \/ j - m \in 1 .. l - i /\ j = m + (j - m)
  BY ONLY <1>4
<1>7. ASSUME NEW j \in 1 .. l - i
      PROVE  /\ d[m + j].arity = code[i + j].arity
             /\ d[m + j].op = "read" => d[m + j] = code[i + j]
             /\ d[m + j].op \in {"compare", "converse"} => code[i + j].op \in {"compare", "converse"}
  <2>1. CASE j = 1
    <3>1. d[m + j] = Flipped(code[i + 1])
      BY <1>2, <1>5, <2>1
    <3>2. code[i + 1] \in Token
      <4>1. PICK x : x = i + 1 /\ x \in 1 .. Len(code)
        BY <1>1, <1>5
      <4> QED BY <4>1
    <3>3. /\ Flipped(code[i + 1]).arity = code[i + 1].arity
          /\ Flipped(code[i + 1]).op \in {"compare", "converse"}
      BY <3>2 DEF Flipped, Token
    <3> QED BY <1>2, <2>1, <3>1, <3>3
  <2>2. CASE j \in 2 .. l - i
    <3>1. j - 1 \in 1 .. l - i - 1 /\ i + 1 + (j - 1) = i + j /\ i + n + (j - 1) = m + j
      BY <1>6, <2>2
    <3>2. d[i + n + (j - 1)] = code[i + 1 + (j - 1)]
      BY <1>2, <3>1
    <3> QED BY <3>1, <3>2
  <2> QED BY <1>6, <2>1, <2>2
<1>8. PICK b : b = Depth(code, p)
  OBVIOUS
<1>9. /\ Depth(code, 0) = 0 /\ Depth(value, 0) = 0 /\ Depth(d, 0) = 0
      /\ b \in Nat /\ Depth(value, n) = 1 /\ Depth(code, l) = 1
      /\ \A j \in 1 .. l : Depth(code, j) > 0 /\ Depth(code, j) \in Int
      /\ \A j \in 1 .. n : Depth(value, j) > 0 /\ Depth(value, j) \in Int
  <2>1. b \in Nat /\ Depth(code, 0) = 0 /\ Depth(value, 0) = 0 /\ Depth(value, n) = 1
        /\ Depth(code, l) = 1
    BY <1>1, <1>5, <1>8, ExpressionFacts
  <2>2. Depth(d, 0) = 0
    BY <1>2, DepthSteps
  <2>3. /\ \A j \in 1 .. l : j \in 0 .. l /\ Depth(code, j) > 0
        /\ \A j \in 1 .. n : j \in 0 .. n /\ Depth(value, j) > 0
    BY <1>1, ExpressionFacts
  <2>4. /\ \A j \in 0 .. l : Depth(code, j) \in Int
        /\ \A j \in 0 .. n : Depth(value, j) \in Int
    BY <1>1, DepthSteps
  <2> QED BY <2>1, <2>2, <2>3, <2>4
<1>10. Depth(code, i - 1) = b + 1 /\ Depth(code, i) = b + 2
  <2>1. PICK j : j = i - 1 /\ j \in 1 .. Len(code)
    BY <1>1, <1>5
  <2>2. Depth(code, j) = Depth(code, s - 1) + 1
    BY <1>2, <2>1, OperandShape
  <2>3. Depth(code, i - 1) = b + 1
    BY <1>1, <1>8, <2>1, <2>2
  <2>4. Depth(code, (i - 1) + 1) = Depth(code, i - 1) - code[(i - 1) + 1].arity + 1
    BY <1>1, <1>5, ExpressionFacts
  <2>5. code[i].arity = 0 /\ (b + 1) - 0 + 1 = b + 2
    BY <1>9 DEF IsRead
  <2> QED BY <1>5, <2>3, <2>4, <2>5
<1>11. AreAbove(code, d, 0, 0, p, 0)
  <2>1. ASSUME NEW j \in 1 .. p PROVE code[0 + j].arity = d[0 + j].arity
    <3>1. 0 + j = j
      BY <1>5, <1>6
    <3> QED BY <1>2, <3>1
  <2>2. HaveSameArities(code, d, 0, 0, p)
    BY <1>1, <1>2, <1>5, <2>1 DEF HaveSameArities
  <2>3. Depth(d, 0) = Depth(code, 0) + 0
    BY <1>9
  <2> QED BY <2>2, <2>3, DepthsAbove
<1>12. \A j \in 0 .. p : Depth(d, j) = Depth(code, j)
  <2> SUFFICES ASSUME NEW j \in 0 .. p PROVE Depth(d, j) = Depth(code, j)
    OBVIOUS
  <2>1. 0 + j = j /\ j \in 0 .. Len(code)
    BY <1>1, <1>5
  <2>2. Depth(code, j) \in Int
    BY <2>1, DepthSteps
  <2> QED BY <1>11, <2>1, <2>2 DEF AreAbove
<1>13. AreAbove(value, d, 0, p, n, b)
  <2>1. ASSUME NEW j \in 1 .. n PROVE value[0 + j].arity = d[p + j].arity
    <3>1. 0 + j = j
      BY <1>5, <1>6
    <3> QED BY <1>2, <3>1
  <2>2. HaveSameArities(value, d, 0, p, n)
    BY <1>1, <1>2, <1>4, <1>5, <2>1 DEF HaveSameArities
  <2>3. Depth(d, p) = Depth(value, 0) + b
    BY <1>5, <1>8, <1>9, <1>12
  <2> QED BY <1>9, <2>2, <2>3, DepthsAbove
<1>14. Depth(d, q) = b + 1
  <2>1. Depth(d, p + n) = Depth(value, 0 + n) + b
    BY <1>5, <1>13 DEF AreAbove
  <2> QED BY <1>5, <1>9, <2>1
<1>15. AreAbove(code, d, p, q, k, 1)
  <2>1. HaveSameArities(code, d, p, q, k)
    BY <1>1, <1>2, <1>5 DEF HaveSameArities
  <2> QED BY <1>8, <1>14, <2>1, DepthsAbove
<1>16. AreAbove(code, d, i, m, l - i, 0)
  <2>1. Depth(d, q + k) = Depth(code, p + k) + 1
    BY <1>5, <1>15 DEF AreAbove
  <2>2. Depth(d, m) = Depth(code, i) + 0
    <3>1. Depth(d, m) = (b + 1) + 1
      BY <1>5, <1>10, <2>1
    <3>2. (b + 1) + 1 = (b + 2) + 0
      BY <1>9
    <3> QED BY <1>10, <3>1, <3>2
  <2>3. \A j \in 1 .. l - i : code[i + j].arity = d[m + j].arity
    BY <1>7
  <2>4. HaveSameArities(code, d, i, m, l - i)
    BY <1>1, <1>2, <1>4, <1>5, <2>3 DEF HaveSameArities
  <2> QED BY <2>2, <2>4, DepthsAbove
<1>17. Depth(d, Len(d)) = 1
  <2>1. Depth(d, m + (l - i)) = Depth(code, i + (l - i)) + 0
    BY <1>5, <1>16 DEF AreAbove
  <2> QED BY <1>2, <1>5, <1>9, <2>1
<1>18. DOMAIN code = 1 .. l /\ DOMAIN value = 1 .. n /\ DOMAIN d = 1 .. l - 1 + n
  BY <1>1, <1>2
<1>19. /\ \A j \in 1 .. l :
             /\ code[j].op = "read" => code[j].name \in Locals /\ code[j].arity = 0
             /\ code[j].op \in {"compare", "converse"} => code[j].arity = 2
       /\ \A j \in 1 .. n :
             /\ value[j].op = "read" => value[j].name \in Locals /\ value[j].arity = 0
             /\ value[j].op \in {"compare", "converse"} => value[j].arity = 2
  BY <1>18 DEF IsExpression
<1>20. ASSUME NEW j \in 1 .. l - 1 + n
       PROVE  /\ Depth(d, j) > 0
              /\ d[j].op = "read" => d[j].name \in Locals /\ d[j].arity = 0
              /\ d[j].op \in {"compare", "converse"} => d[j].arity = 2
  <2>1. CASE j \in 1 .. p
    <3>1. d[j] = code[j] /\ Depth(d, j) = Depth(code, j) /\ j \in 1 .. l
      BY <1>2, <1>6, <1>12, <2>1
    <3> QED BY <1>9, <1>19, <3>1
  <2>2. CASE j - p \in 1 .. n /\ j = p + (j - p)
    <3>1. PICK x : x = j - p
      OBVIOUS
    <3>2. x \in 1 .. n /\ d[j] = value[x] /\ Depth(d, j) = Depth(value, 0 + x) + b /\ 0 + x = x
      BY <1>2, <1>5, <1>6, <1>13, <2>2, <3>1 DEF AreAbove
    <3>3. Depth(value, x) > 0 /\ Depth(value, x) \in Int
      BY <1>9, <3>2
    <3>4. Depth(value, x) + b > 0
      BY <1>9, <3>3
    <3> QED BY <1>19, <3>2, <3>4
  <2>3. CASE j - q \in 1 .. k /\ j = q + (j - q)
    <3>1. PICK x : x = j - q
      OBVIOUS
    <3>2. x \in 1 .. k /\ d[j] = code[p + x] /\ Depth(d, j) = Depth(code, p + x) + 1
          /\ p + x \in 1 .. l
      BY <1>2, <1>6, <1>15, <2>3, <3>1 DEF AreAbove
    <3>3. Depth(code, p + x) > 0 /\ Depth(code, p + x) \in Int
      BY <1>9, <3>2
    <3>4. Depth(code, p + x) + 1 > 0
      BY <3>3
    <3> QED BY <1>19, <3>2, <3>4
  <2>4. CASE j - m \in 1 .. l - i /\ j = m + (j - m)
    <3>1. PICK x : x = j - m
      OBVIOUS
    <3>2. x \in 1 .. l - i /\ d[j] = d[m + x] /\ Depth(d, j) = Depth(code, i + x) + 0
          /\ i + x \in 1 .. l
      BY <1>6, <1>16, <2>4, <3>1 DEF AreAbove
    <3>3. Depth(code, i + x) > 0 /\ Depth(code, i + x) \in Int
      BY <1>9, <3>2
    <3>4. Depth(code, i + x) + 0 > 0
      BY <3>3
    <3> QED BY <1>7, <1>19, <3>2, <3>4
  <2> QED BY <1>6, <2>1, <2>2, <2>3, <2>4
<1> QED BY <1>17, <1>18, <1>20 DEF IsExpression

(* Every token of the result is one of the code or of the value, but for a *)
(* comparison that was turned.                                             *)
LEMMA InlinedReads ==
  ASSUME NEW code \in Seq(Token), NEW value \in Seq(Token), NEW local \in ReadsIn(code)
  PROVE  /\ Inlined(code, local, value) \in Seq(Token)
         /\ ReadsIn(Inlined(code, local, value)) \subseteq ReadsIn(code) \cup ReadsIn(value)
<1> DEFINE i == Position(code, local)
           s == Place(code, local)
           d == Inlined(code, local, value)
           l == Len(code)
           n == Len(value)
<1>1. /\ d \in Seq(Token)
      /\ \A j \in 1 .. Len(d) : \/ \E x \in 1 .. l : d[j] = code[x]
                                \/ \E x \in 1 .. n : d[j] = value[x]
                                \/ d[j].op # "read"
  <2>1. i \in 1 .. l /\ l \in Nat /\ n \in Nat
    BY PositionFound
  <2>2. CASE ~ Swaps(code, i)
    <3>1. HasPlainShape(code, value, d, i)
      BY <2>2, ShapeWithoutSwap
    <3> HIDE DEF d, i
    <3>2. /\ d \in Seq(Token) /\ Len(d) = l - 1 + n
          /\ \A j \in 1 .. i - 1 : d[j] = code[j]
          /\ \A j \in 1 .. n : d[i - 1 + j] = value[j]
          /\ \A j \in 1 .. l - i : d[i - 1 + n + j] = code[i + j]
      BY <3>1 DEF HasPlainShape
    <3> HIDE DEF l, n
    <3>3. ASSUME NEW j \in 1 .. Len(d)
          PROVE  \/ \E x \in 1 .. l : d[j] = code[x]
                 \/ \E x \in 1 .. n : d[j] = value[x]
      <4>1. CASE j \in 1 .. i - 1
        BY <2>1, <3>2, <4>1
      <4>2. CASE j - (i - 1) \in 1 .. n
        <5>1. j = i - 1 + (j - (i - 1))
          BY <2>1
        <5> QED BY <3>2, <4>2, <5>1
      <4>3. CASE j \in i + n .. l - 1 + n
        <5>1. PICK x : x = j - (i - 1 + n)
          OBVIOUS
        <5>2. x \in 1 .. l - i /\ j = i - 1 + n + x /\ i + x \in 1 .. l
          BY <2>1, <4>3, <5>1
        <5> QED BY <3>2, <5>2
      <4> QED BY <2>1, <3>2, <4>1, <4>2, <4>3
    <3> QED BY <3>2, <3>3
  <2>3. CASE Swaps(code, i)
    <3>1. HasTurnedShape(code, value, d, i, s)
      BY <2>3, ShapeWithSwap
    <3> HIDE DEF d, i, s
    <3>2. /\ s \in 1 .. i - 1 /\ i < l /\ code[i + 1].op \in {"compare", "converse"}
          /\ d \in Seq(Token) /\ Len(d) = l - 1 + n
          /\ \A j \in 1 .. s - 1 : d[j] = code[j]
          /\ \A j \in 1 .. n : d[s - 1 + j] = value[j]
          /\ \A j \in 1 .. i - s : d[s - 1 + n + j] = code[s - 1 + j]
          /\ d[i + n] = Flipped(code[i + 1])
          /\ \A j \in 1 .. l - i - 1 : d[i + n + j] = code[i + 1 + j]
      BY <3>1 DEF HasTurnedShape
    <3>3. Flipped(code[i + 1]).op # "read"
      <4>1. i + 1 \in 1 .. l
        BY <2>1, <3>2
      <4>2. code[i + 1] \in Token
        BY <4>1
      <4> QED BY <4>2 DEF Flipped, Token
    <3> HIDE DEF l, n
    <3>4. ASSUME NEW j \in 1 .. Len(d)
          PROVE  \/ \E x \in 1 .. l : d[j] = code[x]
                 \/ \E x \in 1 .. n : d[j] = value[x]
                 \/ d[j].op # "read"
      <4>0. i \in 1 .. l /\ l \in Nat /\ n \in Nat /\ s \in 1 .. i - 1 /\ i < l /\ j \in 1 .. l - 1 + n
        BY <2>1, <3>2
      <4>1. CASE j \in 1 .. s - 1
        <5>1. j \in 1 .. l
          BY ONLY <4>0, <4>1
        <5> QED BY <3>2, <4>1, <5>1
      <4>2. CASE j - (s - 1) \in 1 .. n
        <5>1. j = s - 1 + (j - (s - 1))
          BY ONLY <4>0
        <5> QED BY <3>2, <4>2, <5>1
      <4>3. CASE j \in s + n .. i - 1 + n
        <5>1. PICK x : x = j - (s - 1 + n)
          OBVIOUS
        <5>2. x \in 1 .. i - s /\ j = s - 1 + n + x /\ s - 1 + x \in 1 .. l
          BY ONLY <4>0, <4>3, <5>1
        <5> QED BY <3>2, <5>2
      <4>4. CASE j = i + n
        BY <3>2, <3>3, <4>4
      <4>5. CASE j \in i + n + 1 .. l - 1 + n
        <5>1. PICK x : x = j - (i + n)
          OBVIOUS
        <5>2. x \in 1 .. l - i - 1 /\ j = i + n + x /\ i + 1 + x \in 1 .. l
          BY ONLY <4>0, <4>5, <5>1
        <5> QED BY <3>2, <5>2
      <4>6. \/ j \in 1 .. s - 1 \/ j - (s - 1) \in 1 .. n \/ j \in s + n .. i - 1 + n
            \/ j = i + n \/ j \in i + n + 1 .. l - 1 + n
        BY ONLY <4>0
      <4> QED BY <4>1, <4>2, <4>3, <4>4, <4>5, <4>6
    <3> QED BY <3>2, <3>4
  <2> QED BY <2>2, <2>3
<1> HIDE DEF d
<1>2. ASSUME NEW r \in ReadsIn(d) PROVE r \in ReadsIn(code) \cup ReadsIn(value)
  <2>1. PICK j \in DOMAIN d : d[j].op = "read" /\ r = d[j].name
    BY DEF ReadsIn
  <2>2. j \in 1 .. Len(d)
    BY <1>1
  <2>3. CASE \E x \in 1 .. l : d[j] = code[x]
    <3>1. PICK x \in 1 .. l : d[j] = code[x]
      BY <2>3
    <3>2. x \in DOMAIN code
      OBVIOUS
    <3> QED BY <2>1, <3>1, <3>2 DEF ReadsIn
  <2>4. CASE \E x \in 1 .. n : d[j] = value[x]
    <3>1. PICK x \in 1 .. n : d[j] = value[x]
      BY <2>4
    <3>2. x \in DOMAIN value
      OBVIOUS
    <3> QED BY <2>1, <3>1, <3>2 DEF ReadsIn
  <2> QED BY <1>1, <2>1, <2>2, <2>3, <2>4
<1> QED BY <1>1, <1>2 DEF d

(* What an expression becomes when a value is inlined is an expression.    *)
LEMMA InlinedIsExpression ==
  ASSUME NEW code \in Seq(Token), NEW value \in Seq(Token), IsExpression(code), IsExpression(value),
         NEW local \in ReadsIn(code)
  PROVE  IsExpression(Inlined(code, local, value))
<1>1. PICK i, s, d : /\ i = Position(code, local) /\ s = Place(code, local)
                     /\ d = Inlined(code, local, value)
  OBVIOUS
<1>2. i \in 1 .. Len(code) /\ code[i].op = "read"
  BY <1>1, PositionFound
<1>3. IsRead(code[i])
  BY <1>2, ExpressionFacts DEF IsRead
<1>4. CASE ~ Swaps(code, i)
  <2>1. HasPlainShape(code, value, d, i)
    BY <1>1, <1>4, ShapeWithoutSwap
  <2> QED BY <1>1, <1>2, <1>3, <2>1, PlainDepths
<1>5. CASE Swaps(code, i)
  <2>1. HasTurnedShape(code, value, d, i, s)
    BY <1>1, <1>5, ShapeWithSwap
  <2>2. OperandStarts(code, i - 1) # {}
    BY <1>5 DEF Swaps
  <2> QED BY <1>1, <1>2, <1>3, <2>1, <2>2, TurnedDepths
<1> QED BY <1>4, <1>5

-----------------------------------------------------------------------------
(* Statements.                                                             *)

(* The machine after the expression of a statement.                        *)
After(m, code) == Evaluated(Cleared(m), code)

IsProper(statement) ==
    /\ statement \in Statement
    /\ statement = Empty \/ IsExpression(statement.code)

(* A machine whose stack is cleared.                                       *)
LEMMA ClearedMachine ==
  ASSUME NEW m, IsMachine(m)
  PROVE  /\ IsMachine(Cleared(m)) /\ Cleared(m).stack = <<>>
         /\ Cleared(m).values = m.values /\ Cleared(m).log = m.log
<1> DEFINE c == Cleared(m)
<1>1. c = [values |-> m.values, stack |-> <<>>, log |-> m.log]
  BY MachineParts DEF Cleared
<1> HIDE DEF c
<1>2. c.values = m.values /\ c.stack = <<>> /\ c.log = m.log
  BY <1>1
<1>3. IsMachine(c)
  BY <1>1, <1>2, StackEmpty DEF IsMachine
<1> QED BY <1>2, <1>3 DEF c

(* One expression on two machines.                                         *)
Begin(code, m1, m2) ==
    /\ code \in Seq(Token) /\ IsExpression(code) /\ IsMachine(m1) /\ IsMachine(m2)
    /\ \A x \in ReadsIn(code) : m1.values[x] = m2.values[x]
    /\ m1.log = m2.log \/ ~ HasEffects(code)

End(code, m1, m2, e1, e2) ==
    /\ Alike(e1, e2, 0, 0, 1) /\ e1.values = m1.values /\ e2.values = m2.values
    /\ m1.log = m2.log => e1.log = e2.log
    /\ ~ HasEffects(code) => e1.log = m1.log /\ e2.log = m2.log

(* An expression has the same value on two machines that agree on what it  *)
(* reads, if they agree on the log or it has no effects.                   *)
LEMMA AfterAlike ==
  ASSUME original.upvalues = {}, NEW code, NEW m1, NEW m2, Begin(code, m1, m2)
  PROVE  End(code, m1, m2, After(m1, code), After(m2, code))
<1>1. /\ code \in Seq(Token) /\ IsExpression(code) /\ IsMachine(m1) /\ IsMachine(m2)
      /\ \A x \in ReadsIn(code) : m1.values[x] = m2.values[x]
      /\ m1.log = m2.log \/ ~ HasEffects(code)
  BY DEF Begin
<1>2. PICK c1, c2 : c1 = Cleared(m1) /\ c2 = Cleared(m2)
  OBVIOUS
<1>3. /\ IsMachine(c1) /\ c1.stack = <<>> /\ c1.values = m1.values /\ c1.log = m1.log
      /\ IsMachine(c2) /\ c2.stack = <<>> /\ c2.values = m2.values /\ c2.log = m2.log
  BY <1>1, <1>2, ClearedMachine
<1>4. PICK f : Runs(f, c1, code) /\ Evaluated(c1, code) = f[Len(code)]
  BY <1>1, EvaluatedRuns
<1>5. PICK g : Runs(g, c2, code) /\ Evaluated(c2, code) = g[Len(code)]
  BY <1>1, EvaluatedRuns
<1>6. PICK n : n = Len(code) /\ n \in Nat /\ 0 + n = n /\ DOMAIN code = 1 .. n
               /\ \A j \in 1 .. n : 0 + j = j
  BY <1>1
<1>7. f[0] = c1 /\ g[0] = c2 /\ Steps(f, code) /\ Steps(g, code)
  BY <1>4, <1>5 DEF Runs
<1>8. Depth(code, 0) - 0 = 0 /\ Depth(code, 0) >= 0 /\ Depth(code, 0 + n) - 0 = 1
  BY <1>1, <1>6, ExpressionFacts
<1>9. IsStretch(code, code, 0, 0, n, 0)
  <2>1. ASSUME NEW j \in 1 .. n
        PROVE  /\ code[0 + j].op = "read" => code[0 + j].name \in Locals /\ code[0 + j].arity = 0
               /\ Depth(code, 0 + j) > 0
    <3>1. 0 + j = j /\ j \in 1 .. Len(code)
      BY <1>6
    <3> QED BY <1>1, <3>1, ExpressionFacts
  <2> QED BY <1>6, <1>8, <2>1 DEF IsStretch
<1>10. Alike(c1, c2, 0, 0, 0)
  <2>1. Len(c1.stack) = 0 + 0 /\ Len(c2.stack) = 0 + 0
    BY <1>3, StackEmpty
  <2>2. \A x \in 1 .. 0 : FALSE
    OBVIOUS
  <2> QED BY <1>3, <2>1, <2>2 DEF Alike
<1>11. ASSUME NEW j \in 1 .. n, code[0 + j].op = "read"
       PROVE  c1.values[code[0 + j].name] = c2.values[code[0 + j].name]
  <2>1. 0 + j \in DOMAIN code
    BY <1>6
  <2>2. code[0 + j].name \in ReadsIn(code)
    BY <1>11, <2>1 DEF ReadsIn
  <2> QED BY <1>1, <1>3, <2>2
<1>12. ASSUME ~ HasEffects(code)
       PROVE  \A j \in 1 .. n : ~ Effectful(code[0 + j])
  BY <1>6, <1>12 DEF HasEffects
<1>13. StretchBegins(code, code, 0, 0, n, 0, f, g, 0, 0)
  BY <1>1, <1>3, <1>7, <1>8, <1>9, <1>10, <1>11, <1>12 DEF StretchBegins
<1>14. AlikeAfter(f[0], g[0], f[0 + n], g[0 + n], 0, 0, Depth(code, 0 + n) - 0, TokensOf(code, 0, n))
  BY <1>13, StretchAlike
<1>15. AlikeAfter(c1, c2, f[n], g[n], 0, 0, 1, TokensOf(code, 0, n))
  BY <1>6, <1>7, <1>8, <1>14
<1>16. ~ HasEffects(code) => \A t \in TokensOf(code, 0, n) : ~ Effectful(t)
  BY <1>12 DEF TokensOf
<1>17. End(code, m1, m2, f[n], g[n])
  BY <1>3, <1>15, <1>16 DEF AlikeAfter, End
<1>18. After(m1, code) = f[n] /\ After(m2, code) = g[n]
  BY <1>2, <1>4, <1>5, <1>6 DEF After
<1> QED BY <1>17, <1>18

(* What a statement does.                                                  *)
HasExecuted(m, statement, e, r) ==
    /\ IsMachine(e) /\ e.values = m.values
    /\ IsMachine(r) /\ r.log = e.log
    /\ ~ HasEffects(statement.code) => r.log = m.log
    /\ \A x \in Locals :
          r.values[x] = IF x \in Written(statement)
                        THEN Assigned(e, statement.dst, CHOOSE i \in DOMAIN statement.dst : statement.dst[i] = x)
                        ELSE m.values[x]

(* A statement changes the locals it assigns, and the log as its           *)
(* expression does.                                                        *)
LEMMA ExecuteDoes ==
  ASSUME original.upvalues = {}, NEW m, IsMachine(m), NEW statement, IsProper(statement)
  PROVE  HasExecuted(m, statement, After(m, statement.code), Execute(m, statement))
<1> DEFINE e == After(m, statement.code)
           dst == statement.dst
           r == Execute(m, statement)
           V(old) == [l \in Locals |->
                IF \E i \in DOMAIN dst : dst[i] = l
                THEN Assigned(e, dst, CHOOSE i \in DOMAIN dst : dst[i] = l)
                ELSE old[l]]
<1>1. /\ statement.code \in Seq(Token) /\ statement.dst \in Seq(Locals)
  BY StatementsHaveParts DEF IsProper
<1>2. IsMachine(e) /\ e.values = m.values /\ (~ HasEffects(statement.code) => e.log = m.log)
  <2>1. CASE statement = Empty
    <3>1. statement.code = <<>>
      BY <2>1 DEF Empty
    <3>2. PICK f : Runs(f, Cleared(m), <<>>) /\ Evaluated(Cleared(m), <<>>) = f[Len(<<>>)]
      <4>1. <<>> \in Seq(Token)
        OBVIOUS
      <4> QED BY <4>1, EvaluatedRuns
    <3>3. e = Cleared(m)
      BY <3>1, <3>2, StackEmpty DEF Runs, After
    <3> QED BY <3>3, ClearedMachine
  <2>2. CASE IsExpression(statement.code)
    <3>1. Begin(statement.code, m, m)
      BY <1>1, <2>2 DEF Begin
    <3>2. End(statement.code, m, m, e, e)
      BY <3>1, AfterAlike
    <3> QED BY <3>2 DEF End, Alike
  <2> QED BY <2>1, <2>2 DEF IsProper
<1>3. r = [e EXCEPT !.values = V(@), !.log = @]
  BY DEF Execute, After, WritesUpvalue
<1> HIDE DEF e, r
<1>4. r = [values |-> V(e.values), stack |-> e.stack, log |-> e.log]
  <2>1. PICK v, k, o : v = e.values /\ k = e.stack /\ o = e.log
    OBVIOUS
  <2>2. e = [values |-> v, stack |-> k, log |-> o]
    BY <1>2, <2>1 DEF IsMachine
  <2> DEFINE A == {v}
             B == {k}
             C == {o}
             w == V(v)
             q == [e EXCEPT !.values = w]
             D == {w}
  <2>3. e \in [values : A, stack : B, log : C]
    BY <2>2
  <2> HIDE DEF w
  <2>4. q = [values |-> w, stack |-> e.stack, log |-> e.log]
    <3> HIDE DEF A, B, C
    <3> QED BY <2>3
  <2>5. r = [q EXCEPT !.log = o]
    <3>1. V(e.values) = w
      BY <2>1 DEF w
    <3>2. [e EXCEPT !.values = V(@), !.log = @] = [[e EXCEPT !.values = w] EXCEPT !.log = @]
      BY <3>1
    <3>3. q.log = o
      BY <2>1, <2>4
    <3> QED BY <1>3, <3>2, <3>3
  <2>6. q \in [values : D, stack : B, log : C]
    <3>1. q = [values |-> w, stack |-> k, log |-> o]
      BY <2>1, <2>4
    <3> HIDE DEF q
    <3> QED BY <3>1
  <2>7. [q EXCEPT !.log = o] = [values |-> q.values, stack |-> q.stack, log |-> o]
    <3> HIDE DEF D, B, C, q
    <3> QED BY <2>6
  <2>8. q.values = w /\ q.stack = e.stack
    <3> HIDE DEF q
    <3> QED BY <2>4
  <2> HIDE DEF q
  <2> QED BY <2>1, <2>5, <2>7, <2>8 DEF w
<1>5. r.values = V(e.values) /\ r.stack = e.stack /\ r.log = e.log
  <2> DEFINE w == V(e.values)
  <2> HIDE DEF w
  <2>1. r = [values |-> w, stack |-> e.stack, log |-> e.log]
    BY <1>4 DEF w
  <2> QED BY <2>1 DEF w
<1>6. IsMachine(r)
  <2> DEFINE w == V(e.values)
  <2> HIDE DEF w
  <2>1. r = [values |-> w, stack |-> e.stack, log |-> e.log] /\ r.values = w
    BY <1>4, <1>5 DEF w
  <2> QED BY <1>2, <1>5, <2>1 DEF IsMachine
<1>7. \A x : x \in Written(statement) <=> \E i \in DOMAIN dst : dst[i] = x
  BY <1>1 DEF Written, ToSet
<1>8. ASSUME NEW x \in Locals
      PROVE  r.values[x] = IF x \in Written(statement)
                           THEN Assigned(e, statement.dst, CHOOSE i \in DOMAIN statement.dst : statement.dst[i] = x)
                           ELSE m.values[x]
  BY <1>2, <1>5, <1>7
<1>9. HasExecuted(m, statement, e, r)
  <2> HIDE DEF V
  <2> QED BY <1>2, <1>5, <1>6, <1>8 DEF HasExecuted
<1> QED BY <1>9 DEF e, r

(* Two machines on which the locals have the same values, except some.     *)
Agree(m1, m2, X) ==
    /\ IsMachine(m1) /\ IsMachine(m2)
    /\ \A x \in Locals \ X : m1.values[x] = m2.values[x]

(* Two statements that assign the same values to the same locals, or that  *)
(* assign only the exceptions.                                             *)
AssignAlike(m1, m2, s1, s2, X) ==
    \/ s1.dst = s2.dst /\ Alike(After(m1, s1.code), After(m2, s2.code), 0, 0, 1)
    \/ Written(s1) \subseteq X /\ Written(s2) \subseteq X

(* Statements that assign the same keep machines in agreement.             *)
LEMMA OutcomesAgree ==
  ASSUME original.upvalues = {}, NEW m1, NEW m2, NEW X, Agree(m1, m2, X),
         NEW s1, NEW s2, IsProper(s1), IsProper(s2), AssignAlike(m1, m2, s1, s2, X)
  PROVE  Agree(Execute(m1, s1), Execute(m2, s2), X)
<1>1. PICK e1, e2, r1, r2 : /\ e1 = After(m1, s1.code) /\ e2 = After(m2, s2.code)
                            /\ r1 = Execute(m1, s1) /\ r2 = Execute(m2, s2)
  OBVIOUS
<1>2. IsMachine(m1) /\ IsMachine(m2) /\ \A x \in Locals \ X : m1.values[x] = m2.values[x]
  BY DEF Agree
<1>3. HasExecuted(m1, s1, e1, r1) /\ HasExecuted(m2, s2, e2, r2)
  BY <1>1, <1>2, ExecuteDoes
<1>4. /\ IsMachine(r1) /\ IsMachine(r2)
      /\ \A x \in Locals :
            r1.values[x] = IF x \in Written(s1)
                           THEN Assigned(e1, s1.dst, CHOOSE i \in DOMAIN s1.dst : s1.dst[i] = x)
                           ELSE m1.values[x]
      /\ \A x \in Locals :
            r2.values[x] = IF x \in Written(s2)
                           THEN Assigned(e2, s2.dst, CHOOSE i \in DOMAIN s2.dst : s2.dst[i] = x)
                           ELSE m2.values[x]
  BY <1>3 DEF HasExecuted
<1>5. ASSUME NEW x \in Locals \ X PROVE r1.values[x] = r2.values[x]
  <2>1. CASE s1.dst = s2.dst /\ Alike(e1, e2, 0, 0, 1)
    <3>1. Written(s1) = Written(s2)
      BY <2>1 DEF Written
    <3>2. Last(e1.stack) = Last(e2.stack)
      <4>1. 0 + 1 = 1 /\ 1 \in 1 .. 1
        OBVIOUS
      <4> QED BY <2>1, <4>1 DEF Alike, Last
    <3>3. \A i : Assigned(e1, s1.dst, i) = Assigned(e2, s2.dst, i)
      BY <2>1, <3>2 DEF Assigned
    <3>4. (CHOOSE i \in DOMAIN s1.dst : s1.dst[i] = x) = CHOOSE i \in DOMAIN s2.dst : s2.dst[i] = x
      BY <2>1
    <3> QED BY <1>2, <1>4, <3>1, <3>3, <3>4
  <2>2. CASE Written(s1) \subseteq X /\ Written(s2) \subseteq X
    BY <1>2, <1>4, <2>2
  <2> QED BY <1>1, <2>1, <2>2 DEF AssignAlike
<1> QED BY <1>1, <1>4, <1>5 DEF Agree

-----------------------------------------------------------------------------
(* Blocks.                                                                 *)

(* The machines before and after each statement.                           *)
StepsBlock(f, statements) ==
    \A k \in 0 .. Len(statements) - 1 : f[k + 1] = Execute(f[k], statements[k + 1])

RunsBlock(f, m, statements) == f[0] = m /\ StepsBlock(f, statements)

(* Executed solves its equation.                                           *)
LEMMA ExecutedRuns ==
  ASSUME NEW m, NEW statements, NEW S, statements \in Seq(S)
  PROVE  \E f : RunsBlock(f, m, statements) /\ Executed(m, statements) = f[Len(statements)]
<1> DEFINE n == Len(statements)
           Solves(f, k) == f = [i \in 0 .. k |-> IF i = 0 THEN m ELSE Execute(f[i - 1], statements[i])]
           T == {k \in 0 .. n : \E f : Solves(f, k)}
<1>1. n \in Nat
  OBVIOUS
<1>2. 0 \in T
  <2> DEFINE f == [i \in 0 .. 0 |-> m]
  <2>1. Solves(f, 0)
    OBVIOUS
  <2> HIDE DEF f, Solves
  <2> QED BY <1>1, <2>1
<1>3. ASSUME NEW k \in 0 .. n - 1, k \in T
      PROVE  k + 1 \in T
  <2>1. PICK f : Solves(f, k)
    BY <1>3
  <2> DEFINE last == Execute(f[k], statements[k + 1])
             g == [i \in 0 .. k + 1 |-> IF i = k + 1 THEN last ELSE f[i]]
  <2>2. ASSUME NEW i \in 0 .. k + 1
        PROVE  g[i] = IF i = 0 THEN m ELSE Execute(g[i - 1], statements[i])
    <3>1. CASE i = k + 1
      <4>1. i # 0 /\ i - 1 = k /\ k \in 0 .. k + 1 /\ k # k + 1
        BY <3>1
      <4>2. g[i] = last /\ g[i - 1] = f[k]
        BY <3>1, <4>1
      <4> QED BY <3>1, <4>1, <4>2
    <3>2. CASE i # k + 1
      <4>1. i \in 0 .. k /\ g[i] = f[i]
        BY <3>2
      <4>2. f[i] = IF i = 0 THEN m ELSE Execute(f[i - 1], statements[i])
        BY <2>1, <4>1
      <4>3. i # 0 => g[i - 1] = f[i - 1]
        BY <4>1
      <4> HIDE DEF g
      <4> QED BY <4>1, <4>2, <4>3
    <3> QED BY <3>1, <3>2
  <2>3. g = [i \in 0 .. k + 1 |-> IF i = 0 THEN m ELSE Execute(g[i - 1], statements[i])]
    BY <2>2
  <2> HIDE DEF g
  <2>4. Solves(g, k + 1) /\ k + 1 \in 0 .. n
    BY <1>1, <2>3
  <2> QED BY <2>4
<1> HIDE DEF T
<1>4. n \in T
  <2> HIDE DEF n
  <2>1. \A k \in 0 .. n : k \in T
    BY <1>1, <1>2, <1>3, InductionUpTo
  <2> QED BY <1>1, <2>1
<1>5. \E f : Solves(f, n)
  BY <1>4 DEF T
<1> DEFINE f == CHOOSE f : Solves(f, n)
<1>6. Solves(f, n)
  <2> HIDE DEF Solves
  <2> QED BY <1>5
<1>7. Executed(m, statements) = f[n]
  BY DEF Executed
<1> HIDE DEF f
<1>8. f[0] = m
  BY <1>1, <1>6
<1>9. ASSUME NEW k \in 0 .. n - 1
      PROVE  f[k + 1] = Execute(f[k], statements[k + 1])
  <2>1. k + 1 \in 0 .. n /\ k + 1 # 0 /\ (k + 1) - 1 = k
    BY <1>1
  <2> QED BY <1>6, <2>1
<1> QED BY <1>7, <1>8, <1>9 DEF RunsBlock, StepsBlock

AreProper(statements) ==
    statements \in Seq(Statement) /\ \A i \in DOMAIN statements : IsProper(statements[i])

AreSides(sides) ==
    sides \in Seq(Argument) /\ \A i \in DOMAIN sides : IsExpression(sides[i].code)

(* The machines of a block, from its beginning.                            *)
BlockRuns(f, statements) == AreProper(statements) /\ RunsBlock(f, Fresh, statements)

(* The meaning of a block that ends with the machine m.                    *)
MeaningAt(m, sides) ==
    [log |-> m.log, args |-> [i \in DOMAIN sides |-> After(m, sides[i].code).stack]]

(* Two stacks of one value each that are alike are equal.                  *)
LEMMA AlikeStacks ==
  ASSUME NEW e1, NEW e2, Alike(e1, e2, 0, 0, 1)
  PROVE  e1.stack = e2.stack
<1>1. PICK s, t : s = e1.stack /\ t = e2.stack
  OBVIOUS
<1>2. IsStack(s) /\ IsStack(t) /\ Len(s) = 1 /\ Len(t) = 1 /\ \A i \in 1 .. 1 : s[i] = t[i]
  <2>1. 0 + 1 = 1 /\ \A i \in 1 .. 1 : 0 + i = i
    OBVIOUS
  <2> QED BY <1>1, <2>1 DEF Alike, IsMachine
<1>3. s = [i \in 1 .. 1 |-> s[i]] /\ t = [i \in 1 .. 1 |-> t[i]]
  BY <1>2, StackFacts
<1> QED BY <1>1, <1>2, <1>3

(* The machine a block begins on.                                          *)
LEMMA FreshMachine == IsMachine(Fresh)
<1>1. Fresh.stack = <<>> /\ Fresh = [values |-> Fresh.values, stack |-> Fresh.stack, log |-> Fresh.log]
  BY DEF Fresh
<1> QED BY <1>1, StackEmpty DEF IsMachine

(* Every machine of a block does what its statement does.                  *)
BlockSteps(f, statements) ==
    /\ \A k \in 0 .. Len(statements) : IsMachine(f[k])
    /\ \A k \in 1 .. Len(statements) :
          HasExecuted(f[k - 1], statements[k], After(f[k - 1], statements[k].code), f[k])

(* Every statement of a block does what it does alone.                     *)
LEMMA BlockIsStepped ==
  ASSUME original.upvalues = {}, NEW f, NEW statements, BlockRuns(f, statements)
  PROVE  BlockSteps(f, statements)
<1>1. PICK n : n = Len(statements) /\ n \in Nat /\ DOMAIN statements = 1 .. n
  BY DEF BlockRuns, AreProper
<1>2. /\ f[0] = Fresh
      /\ \A k \in 0 .. n - 1 : f[k + 1] = Execute(f[k], statements[k + 1])
      /\ \A k \in 1 .. n : IsProper(statements[k])
  BY <1>1 DEF BlockRuns, RunsBlock, StepsBlock, AreProper
<1>3. ASSUME NEW k \in 0 .. n - 1, IsMachine(f[k])
      PROVE  HasExecuted(f[k], statements[k + 1], After(f[k], statements[k + 1].code), f[k + 1])
  <2>1. k + 1 \in 1 .. n
    BY <1>1
  <2>2. IsProper(statements[k + 1]) /\ f[k + 1] = Execute(f[k], statements[k + 1])
    BY <1>2, <2>1
  <2> QED BY <1>3, <2>2, ExecuteDoes
<1> DEFINE T == {k \in 0 .. n : IsMachine(f[k])}
<1>4. 0 \in T
  BY <1>1, <1>2, FreshMachine
<1>5. ASSUME NEW k \in 0 .. n - 1, k \in T
      PROVE  k + 1 \in T
  <2>1. IsMachine(f[k + 1])
    BY <1>3, <1>5 DEF HasExecuted
  <2> QED BY <1>1, <2>1
<1> HIDE DEF T
<1>6. \A k \in 0 .. n : k \in T
  BY <1>1, <1>4, <1>5, InductionUpTo
<1>7. \A k \in 0 .. n : IsMachine(f[k])
  BY <1>6 DEF T
<1>8. ASSUME NEW k \in 1 .. n
      PROVE  HasExecuted(f[k - 1], statements[k], After(f[k - 1], statements[k].code), f[k])
  <2>1. PICK j : j = k - 1 /\ j \in 0 .. n - 1 /\ j \in 0 .. n /\ j + 1 = k
    BY <1>1
  <2>2. HasExecuted(f[j], statements[j + 1], After(f[j], statements[j + 1].code), f[j + 1])
    BY <1>3, <1>7, <2>1
  <2> QED BY <2>1, <2>2
<1> QED BY <1>1, <1>7, <1>8 DEF BlockSteps

(* The meaning of a block is what its last machine gives.                  *)
LEMMA MeaningRuns ==
  ASSUME NEW statements, AreProper(statements), NEW sides
  PROVE  \E f : BlockRuns(f, statements) /\ Meaning(statements, sides) = MeaningAt(f[Len(statements)], sides)
<1>1. PICK f : RunsBlock(f, Fresh, statements) /\ Executed(Fresh, statements) = f[Len(statements)]
  BY ExecutedRuns DEF AreProper
<1>2. Meaning(statements, sides) = MeaningAt(f[Len(statements)], sides)
  BY <1>1 DEF Meaning, MeaningAt, After
<1> QED BY <1>1, <1>2 DEF BlockRuns

AgreeLogs(m1, m2, X) == Agree(m1, m2, X) /\ m1.log = m2.log

SidesAvoid(sides, X) == AreSides(sides) /\ \A i \in DOMAIN sides : ReadsIn(sides[i].code) \cap X = {}

(* Machines that agree on what the arguments read pass the same values     *)
(* along the edge.                                                         *)
LEMMA MeaningsAgree ==
  ASSUME original.upvalues = {}, NEW m1, NEW m2, NEW X, AgreeLogs(m1, m2, X),
         NEW sides, SidesAvoid(sides, X)
  PROVE  MeaningAt(m1, sides) = MeaningAt(m2, sides)
<1>1. ASSUME NEW i \in DOMAIN sides
      PROVE  After(m1, sides[i].code).stack = After(m2, sides[i].code).stack
  <2>1. PICK code : code = sides[i].code
    OBVIOUS
  <2>2. code \in Seq(Token) /\ IsExpression(code) /\ ReadsIn(code) \cap X = {}
    <3>1. sides[i] \in Argument
      BY DEF SidesAvoid, AreSides
    <3> QED BY <2>1, <3>1, StatementsHaveParts DEF SidesAvoid, AreSides
  <2>3. Begin(code, m1, m2)
    <3>1. \A x \in ReadsIn(code) : x \in Locals \ X
      BY <2>2, ExpressionFacts DEF ReadsIn
    <3> QED BY <2>2, <3>1 DEF Begin, AgreeLogs, Agree
  <2>4. Alike(After(m1, code), After(m2, code), 0, 0, 1)
    BY <2>3, AfterAlike DEF End
  <2> QED BY <2>1, <2>4, AlikeStacks
<1> QED BY <1>1 DEF MeaningAt, AgreeLogs

(* Two statements with the same effects that leave all but the locals of X *)
(* alike.                                                                  *)
SameStep(s1, s2, X) ==
    /\ IsProper(s1) /\ IsProper(s2)
    /\ \/ s2 = s1 /\ ReadsIn(s1.code) \cap X = {}
       \/ /\ Written(s1) \subseteq X /\ Written(s2) = {}
          /\ \/ s2.code = s1.code /\ ReadsIn(s1.code) \cap X = {}
             \/ s2 = Empty /\ ~ HasEffects(s1.code)

(* An Empty statement assigns nothing and has no effects.                  *)
LEMMA EmptyStatement ==
  Written(Empty) = {} /\ ~ HasEffects(Empty.code) /\ Empty.code = <<>> /\ Empty.dst = <<>> /\ IsProper(Empty)
<1>1. Empty.code = <<>> /\ Empty.dst = <<>> /\ Empty \in Statement
  BY StatementsHaveParts DEF Empty
<1>2. Written(Empty) = {} /\ ~ HasEffects(Empty.code)
  BY <1>1 DEF Written, ToSet, HasEffects
<1> QED BY <1>1, <1>2 DEF IsProper

(* Such statements keep machines in agreement, and their logs equal.       *)
LEMMA StepsAlike ==
  ASSUME original.upvalues = {}, NEW m1, NEW m2, NEW X, AgreeLogs(m1, m2, X),
         NEW s1, NEW s2, SameStep(s1, s2, X)
  PROVE  AgreeLogs(Execute(m1, s1), Execute(m2, s2), X)
<1>1. PICK e1, e2, r1, r2 : /\ e1 = After(m1, s1.code) /\ e2 = After(m2, s2.code)
                            /\ r1 = Execute(m1, s1) /\ r2 = Execute(m2, s2)
  OBVIOUS
<1>2. /\ Agree(m1, m2, X) /\ m1.log = m2.log /\ IsMachine(m1) /\ IsMachine(m2)
      /\ IsProper(s1) /\ IsProper(s2)
  BY DEF AgreeLogs, Agree, SameStep
<1>3. HasExecuted(m1, s1, e1, r1) /\ HasExecuted(m2, s2, e2, r2)
  BY <1>1, <1>2, ExecuteDoes
<1>4. /\ r1.log = e1.log /\ (~ HasEffects(s1.code) => r1.log = m1.log)
      /\ r2.log = e2.log /\ (~ HasEffects(s2.code) => r2.log = m2.log)
  BY <1>3 DEF HasExecuted
<1>5. ASSUME s2.code = s1.code, ReadsIn(s1.code) \cap X = {}, s1 # Empty
      PROVE  Alike(e1, e2, 0, 0, 1) /\ e1.log = e2.log
  <2>1. PICK code : code = s1.code
    OBVIOUS
  <2>2. code \in Seq(Token) /\ IsExpression(code)
    BY <1>2, <1>5, <2>1, StatementsHaveParts DEF IsProper
  <2>3. \A x \in ReadsIn(code) : x \in Locals \ X
    BY <1>5, <2>1, <2>2, ExpressionFacts DEF ReadsIn
  <2>4. Begin(code, m1, m2)
    BY <1>2, <2>2, <2>3 DEF Begin, Agree
  <2>5. End(code, m1, m2, After(m1, code), After(m2, code))
    BY <2>4, AfterAlike
  <2> QED BY <1>1, <1>2, <1>5, <2>1, <2>5 DEF End
<1>6. CASE s1 = Empty /\ s2.code = s1.code
  <2>1. r1.log = r2.log
    BY <1>2, <1>4, <1>6, EmptyStatement
  <2>2. Written(s1) \subseteq X /\ Written(s2) \subseteq X
    BY <1>6, EmptyStatement DEF SameStep
  <2>3. AssignAlike(m1, m2, s1, s2, X)
    BY <2>2 DEF AssignAlike
  <2>4. Agree(r1, r2, X)
    BY <1>1, <1>2, <2>3, OutcomesAgree
  <2> QED BY <1>1, <2>1, <2>4 DEF AgreeLogs
<1>7. CASE s1 # Empty /\ s2 = s1 /\ ReadsIn(s1.code) \cap X = {}
  <2>1. Alike(e1, e2, 0, 0, 1) /\ e1.log = e2.log
    BY <1>5, <1>7
  <2>2. AssignAlike(m1, m2, s1, s2, X)
    BY <1>1, <1>7, <2>1 DEF AssignAlike
  <2>3. Agree(r1, r2, X)
    BY <1>1, <1>2, <2>2, OutcomesAgree
  <2> QED BY <1>1, <1>4, <2>1, <2>3 DEF AgreeLogs
<1>8. CASE s1 # Empty /\ Written(s1) \subseteq X /\ Written(s2) = {} /\ s2.code = s1.code
           /\ ReadsIn(s1.code) \cap X = {}
  <2>1. e1.log = e2.log
    BY <1>5, <1>8
  <2>2. AssignAlike(m1, m2, s1, s2, X)
    BY <1>8 DEF AssignAlike
  <2>3. Agree(r1, r2, X)
    BY <1>1, <1>2, <2>2, OutcomesAgree
  <2> QED BY <1>1, <1>4, <2>1, <2>3 DEF AgreeLogs
<1>9. CASE Written(s1) \subseteq X /\ s2 = Empty /\ ~ HasEffects(s1.code)
  <2>1. r1.log = r2.log /\ Written(s2) \subseteq X
    BY <1>2, <1>4, <1>9, EmptyStatement
  <2>2. AssignAlike(m1, m2, s1, s2, X)
    BY <1>9, <2>1 DEF AssignAlike
  <2>3. Agree(r1, r2, X)
    BY <1>1, <1>2, <2>2, OutcomesAgree
  <2> QED BY <1>1, <2>1, <2>3 DEF AgreeLogs
<1> QED BY <1>6, <1>7, <1>8, <1>9 DEF SameStep

SameStretch(b, c, p, n, X) ==
    /\ p \in Nat /\ n \in Nat /\ p + n <= Len(b) /\ p + n <= Len(c)
    /\ \A k \in 1 .. n : SameStep(b[p + k], c[p + k], X)

(* So does a stretch of a block whose statements are such, by induction.   *)
LEMMA BlocksAlike ==
  ASSUME original.upvalues = {}, NEW f, NEW g, NEW b, NEW c, BlockRuns(f, b), BlockRuns(g, c),
         NEW p, NEW n, NEW X, SameStretch(b, c, p, n, X), AgreeLogs(f[p], g[p], X)
  PROVE  AgreeLogs(f[p + n], g[p + n], X)
<1>1. /\ p \in Nat /\ n \in Nat /\ p + n <= Len(b) /\ p + n <= Len(c) /\ Len(b) \in Nat /\ Len(c) \in Nat
      /\ \A k \in 1 .. n : SameStep(b[p + k], c[p + k], X)
  BY DEF SameStretch, BlockRuns, AreProper
<1>2. /\ \A k \in 0 .. Len(b) - 1 : f[k + 1] = Execute(f[k], b[k + 1])
      /\ \A k \in 0 .. Len(c) - 1 : g[k + 1] = Execute(g[k], c[k + 1])
  BY DEF BlockRuns, RunsBlock, StepsBlock
<1> DEFINE T == {k \in 0 .. n : AgreeLogs(f[p + k], g[p + k], X)}
<1>3. 0 \in T
  <2>1. p + 0 = p
    BY <1>1
  <2> QED BY <1>1, <2>1
<1>4. ASSUME NEW k \in 0 .. n - 1, k \in T
      PROVE  k + 1 \in T
  <2>1. PICK i : i = p + k /\ i \in 0 .. Len(b) - 1 /\ i \in 0 .. Len(c) - 1 /\ i + 1 = p + (k + 1)
    BY <1>1
  <2>2. k + 1 \in 1 .. n
    BY <1>1
  <2>3. SameStep(b[i + 1], c[i + 1], X)
    BY <1>1, <2>1, <2>2
  <2>4. AgreeLogs(f[i], g[i], X)
    BY <1>4, <2>1
  <2>5. f[i + 1] = Execute(f[i], b[i + 1]) /\ g[i + 1] = Execute(g[i], c[i + 1])
    BY <1>2, <2>1
  <2>6. AgreeLogs(f[i + 1], g[i + 1], X)
    BY <2>3, <2>4, <2>5, StepsAlike
  <2> QED BY <1>1, <2>1, <2>2, <2>6
<1> HIDE DEF T
<1>5. \A k \in 0 .. n : k \in T
  BY <1>1, <1>3, <1>4, InductionUpTo
<1> QED BY <1>1, <1>5 DEF T

-----------------------------------------------------------------------------
(* A value on its way.                                                     *)

(* The assignment of the value has run on m1 and has been passed by on m2; *)
(* the value was computed from o.                                          *)
Passing(o, m1, m2, local, value) ==
    /\ IsMachine(o) /\ Agree(m1, m2, {local})
    /\ m1.values[local] = Last(After(o, value).stack)
    /\ \A x \in ReadsIn(value) : o.values[x] = m2.values[x]
    /\ HasEffects(value) => m1.log = After(o, value).log /\ m2.log = o.log
    /\ ~ HasEffects(value) => m1.log = m2.log

(* A statement assigns one local.                                          *)
AssignsValue(s, local) == IsProper(s) /\ s.dst = <<local>> /\ IsExpression(s.code)

(* A value is on its way once its assignment has run on one machine and    *)
(* has been passed by on the other.                                        *)
LEMMA PassingBegins ==
  ASSUME original.upvalues = {}, NEW m1, NEW m2, AgreeLogs(m1, m2, {}),
         NEW s, NEW local, AssignsValue(s, local)
  PROVE  Passing(m1, Execute(m1, s), Execute(m2, Empty), local, s.code)
<1>1. PICK e, r1, r2 : e = After(m1, s.code) /\ r1 = Execute(m1, s) /\ r2 = Execute(m2, Empty)
  OBVIOUS
<1>2. /\ IsMachine(m1) /\ IsMachine(m2) /\ m1.log = m2.log
      /\ \A x \in Locals : m1.values[x] = m2.values[x]
  BY DEF AgreeLogs, Agree
<1>3. IsProper(s) /\ s.dst = <<local>> /\ IsExpression(s.code) /\ s.code \in Seq(Token) /\ local \in Locals
  <2>1. s \in Statement
    BY DEF AssignsValue, IsProper
  <2>2. s.dst \in Seq(Locals) /\ s.code \in Seq(Token)
    BY <2>1, StatementsHaveParts
  <2> QED BY <2>2 DEF AssignsValue
<1>4. HasExecuted(m1, s, e, r1) /\ HasExecuted(m2, Empty, After(m2, Empty.code), r2)
  BY <1>1, <1>2, <1>3, ExecuteDoes, EmptyStatement
<1>5. Written(s) = {local} /\ DOMAIN s.dst = {1} /\ s.dst[1] = local /\ Len(s.dst) = 1
  BY <1>3 DEF Written, ToSet
<1>6. /\ IsMachine(r1) /\ r1.log = e.log /\ (~ HasEffects(s.code) => r1.log = m1.log)
      /\ \A x \in Locals : r1.values[x] = IF x = local THEN Last(e.stack) ELSE m1.values[x]
  <2>1. \A i : Assigned(e, s.dst, i) = Last(e.stack)
    BY <1>5 DEF Assigned
  <2> QED BY <1>4, <1>5, <2>1 DEF HasExecuted
<1>7. /\ IsMachine(r2) /\ r2.log = m2.log
      /\ \A x \in Locals : r2.values[x] = m2.values[x]
  BY <1>4, EmptyStatement DEF HasExecuted
<1>8. \A x \in ReadsIn(s.code) : x \in Locals
  BY <1>3, ExpressionFacts DEF ReadsIn
<1>9. Agree(r1, r2, {local})
  BY <1>2, <1>6, <1>7 DEF Agree
<1>10. r1.values[local] = Last(e.stack)
  BY <1>3, <1>6
<1>11. Passing(m1, r1, r2, local, s.code)
  BY <1>1, <1>2, <1>6, <1>7, <1>8, <1>9, <1>10 DEF Passing
<1> QED BY <1>1, <1>11

(* A statement over which a value moves.                                   *)
IsPassed(s, local, value) ==
    /\ IsProper(s) /\ local \in Locals
    /\ local \notin ReadsIn(s.code) /\ local \notin Written(s)
    /\ Written(s) \cap ReadsIn(value) = {}
    /\ ReadsIn(value) \subseteq Locals
    /\ HasEffects(value) => ~ HasEffects(s.code)

(* A statement that neither reads nor assigns the local, nor assigns what  *)
(* the value reads, leaves it on its way; one of the two has no effects.   *)
LEMMA PassingGoesOn ==
  ASSUME original.upvalues = {}, NEW o, NEW m1, NEW m2, NEW local, NEW value,
         Passing(o, m1, m2, local, value), NEW s, IsPassed(s, local, value)
  PROVE  Passing(o, Execute(m1, s), Execute(m2, s), local, value)
<1>1. PICK e1, e2, r1, r2 : /\ e1 = After(m1, s.code) /\ e2 = After(m2, s.code)
                            /\ r1 = Execute(m1, s) /\ r2 = Execute(m2, s)
  OBVIOUS
<1>2. /\ IsMachine(m1) /\ IsMachine(m2) /\ Agree(m1, m2, {local}) /\ IsMachine(o)
      /\ \A x \in Locals \ {local} : m1.values[x] = m2.values[x]
      /\ IsProper(s) /\ local \notin ReadsIn(s.code) /\ local \notin Written(s) /\ local \in Locals
      /\ Written(s) \cap ReadsIn(value) = {} /\ ReadsIn(value) \subseteq Locals
      /\ HasEffects(value) => ~ HasEffects(s.code)
      /\ ~ HasEffects(value) => m1.log = m2.log
  BY DEF Passing, Agree, IsPassed
<1>3. HasExecuted(m1, s, e1, r1) /\ HasExecuted(m2, s, e2, r2)
  BY <1>1, <1>2, ExecuteDoes
<1>4. /\ r1.log = e1.log /\ (~ HasEffects(s.code) => r1.log = m1.log)
      /\ r2.log = e2.log /\ (~ HasEffects(s.code) => r2.log = m2.log)
      /\ \A x \in Locals \ Written(s) : r1.values[x] = m1.values[x] /\ r2.values[x] = m2.values[x]
  BY <1>3 DEF HasExecuted
<1>5. CASE s = Empty
  <2>1. AssignAlike(m1, m2, s, s, {local})
    BY <1>5, EmptyStatement DEF AssignAlike
  <2>2. Agree(r1, r2, {local})
    BY <1>1, <1>2, <2>1, OutcomesAgree
  <2>3. ~ HasEffects(s.code)
    BY <1>5, EmptyStatement
  <2> QED BY <1>1, <1>2, <1>4, <2>2, <2>3 DEF Passing
<1>6. CASE s # Empty
  <2>1. s.code \in Seq(Token) /\ IsExpression(s.code)
    BY <1>2, <1>6, StatementsHaveParts DEF IsProper
  <2>2. \A x \in ReadsIn(s.code) : x \in Locals \ {local}
    BY <1>2, <2>1, ExpressionFacts DEF ReadsIn
  <2>3. Begin(s.code, m1, m2)
    BY <1>2, <2>1, <2>2 DEF Begin
  <2>4. End(s.code, m1, m2, e1, e2)
    BY <1>1, <2>3, AfterAlike
  <2>5. Alike(e1, e2, 0, 0, 1) /\ (m1.log = m2.log => e1.log = e2.log)
    BY <2>4 DEF End
  <2>6. AssignAlike(m1, m2, s, s, {local})
    BY <1>1, <2>5 DEF AssignAlike
  <2>7. Agree(r1, r2, {local})
    BY <1>1, <1>2, <2>6, OutcomesAgree
  <2>8. ~ HasEffects(value) => r1.log = r2.log
    BY <1>2, <1>4, <2>5
  <2>9. HasEffects(value) => r1.log = After(o, value).log /\ r2.log = o.log
    BY <1>2, <1>4 DEF Passing
  <2>10. r1.values[local] = Last(After(o, value).stack)
    BY <1>2, <1>4 DEF Passing
  <2>11. \A x \in ReadsIn(value) : o.values[x] = r2.values[x]
    BY <1>2, <1>4 DEF Passing
  <2> QED BY <1>1, <1>2, <2>7, <2>8, <2>9, <2>10, <2>11 DEF Passing
<1> QED BY <1>5, <1>6

(* The value is assigned at a and moves to behind q.                       *)
MovesPast(b, c, a, q, local) ==
    /\ a \in 1 .. Len(b) /\ q \in a .. Len(b) /\ Len(c) = Len(b)
    /\ AssignsValue(b[a], local) /\ c[a] = Empty
    /\ \A k \in 1 .. a - 1 : c[k] = b[k]
    /\ \A k \in a + 1 .. q : c[k] = b[k] /\ IsPassed(b[k], local, b[a].code)

(* The value is on its way up to where it moves to, by induction.          *)
LEMMA ValueIsPassing ==
  ASSUME original.upvalues = {}, NEW f, NEW g, NEW b, NEW c, BlockRuns(f, b), BlockRuns(g, c),
         NEW a, NEW q, NEW local, MovesPast(b, c, a, q, local)
  PROVE  Passing(f[a - 1], f[q], g[q], local, b[a].code)
<1>1. PICK n : /\ n = Len(b) /\ Len(c) = n /\ n \in Nat /\ a \in 1 .. n /\ q \in a .. n
               /\ DOMAIN b = 1 .. n /\ DOMAIN c = 1 .. n
  BY DEF MovesPast, BlockRuns, AreProper
<1>2. /\ AssignsValue(b[a], local) /\ c[a] = Empty
      /\ \A k \in 1 .. a - 1 : c[k] = b[k]
      /\ \A k \in a + 1 .. q : c[k] = b[k] /\ IsPassed(b[k], local, b[a].code)
  BY DEF MovesPast
<1>3. /\ \A k \in 0 .. n - 1 : f[k + 1] = Execute(f[k], b[k + 1])
      /\ \A k \in 0 .. n - 1 : g[k + 1] = Execute(g[k], c[k + 1])
      /\ \A k \in 1 .. n : IsProper(b[k])
      /\ f[0] = Fresh /\ g[0] = Fresh
  BY <1>1 DEF BlockRuns, RunsBlock, StepsBlock, AreProper
<1>4. PICK i : i = a - 1 /\ i \in Nat /\ i + 1 = a /\ i \in 0 .. n - 1 /\ 0 + i = i
               /\ \A k \in 1 .. i : 0 + k = k /\ k \in 1 .. n
  BY <1>1
<1>5. AgreeLogs(f[i], g[i], {})
  <2>1. \A k \in 1 .. i : SameStep(b[0 + k], c[0 + k], {})
    BY <1>2, <1>3, <1>4 DEF SameStep
  <2>2. SameStretch(b, c, 0, i, {})
    BY <1>1, <1>4, <2>1 DEF SameStretch
  <2>3. AgreeLogs(f[0], g[0], {})
    BY <1>3, FreshMachine DEF AgreeLogs, Agree
  <2>4. AgreeLogs(f[0 + i], g[0 + i], {})
    BY <2>2, <2>3, BlocksAlike
  <2> QED BY <1>4, <2>4
<1>6. Passing(f[i], f[a], g[a], local, b[a].code)
  <2>1. f[i + 1] = Execute(f[i], b[a]) /\ g[i + 1] = Execute(g[i], Empty)
    BY <1>2, <1>3, <1>4
  <2> QED BY <1>2, <1>4, <1>5, <2>1, PassingBegins
<1> DEFINE T == {k \in 0 .. q - a : Passing(f[i], f[a + k], g[a + k], local, b[a].code)}
<1>7. q - a \in Nat /\ 0 \in T
  <2>1. a + 0 = a /\ q - a \in Nat
    BY <1>1
  <2> QED BY <1>6, <2>1
<1>8. ASSUME NEW k \in 0 .. (q - a) - 1, k \in T
      PROVE  k + 1 \in T
  <2>1. PICK j : j = a + k /\ j \in 0 .. n - 1 /\ j + 1 = a + (k + 1) /\ j + 1 \in a + 1 .. q
                 /\ k + 1 \in 0 .. q - a
    BY <1>1
  <2>2. Passing(f[i], f[j], g[j], local, b[a].code)
    BY <1>8, <2>1
  <2>3. IsPassed(b[j + 1], local, b[a].code) /\ c[j + 1] = b[j + 1]
    BY <1>2, <2>1
  <2>4. f[j + 1] = Execute(f[j], b[j + 1]) /\ g[j + 1] = Execute(g[j], b[j + 1])
    BY <1>3, <2>1, <2>3
  <2>5. Passing(f[i], f[j + 1], g[j + 1], local, b[a].code)
    BY <2>2, <2>3, <2>4, PassingGoesOn
  <2> QED BY <2>1, <2>5
<1> HIDE DEF T
<1>9. q - a \in T
  <2>1. \A k \in 0 .. q - a : k \in T
    BY <1>7, <1>8, InductionUpTo
  <2>2. q - a \in 0 .. q - a
    BY <1>7
  <2> QED BY <2>1, <2>2
<1>10. a + (q - a) = q
  BY <1>1
<1> QED BY <1>4, <1>9, <1>10 DEF T

(* The expression the value moves into.                                    *)
MayTake(code, value, local) ==
    /\ code \in Seq(Token) /\ value \in Seq(Token) /\ IsExpression(code) /\ IsExpression(value)
    /\ local \in ReadsIn(code) /\ ReadsOnce(code, local) /\ Inlines(code, local, value)

(* Where the value arrives, the expression gives the same.                 *)
LEMMA ValueArrives ==
  ASSUME original.upvalues = {}, NEW o, NEW m1, NEW m2, NEW local, NEW value, NEW code,
         Passing(o, m1, m2, local, value), MayTake(code, value, local)
  PROVE  SameResult(After(m1, code), After(m2, Inlined(code, local, value)), m1, m2)
<1>1. PICK p, c1, c2 : p = Cleared(o) /\ c1 = Cleared(m1) /\ c2 = Cleared(m2)
  OBVIOUS
<1>2. /\ IsMachine(o) /\ IsMachine(m1) /\ IsMachine(m2)
      /\ \A x \in Locals \ {local} : m1.values[x] = m2.values[x]
  BY DEF Passing, Agree
<1>3. /\ IsMachine(p) /\ p.stack = <<>> /\ p.values = o.values /\ p.log = o.log
      /\ IsMachine(c1) /\ c1.stack = <<>> /\ c1.values = m1.values /\ c1.log = m1.log
      /\ IsMachine(c2) /\ c2.stack = <<>> /\ c2.values = m2.values /\ c2.log = m2.log
  BY <1>1, <1>2, ClearedMachine
<1>4. After(o, value) = Evaluated(p, value)
  BY <1>1 DEF After
<1>5. IsMove(code, value, local, p, c1, c2)
  BY <1>2, <1>3, <1>4 DEF IsMove, MayTake, Passing
<1>6. SameResult(Evaluated(c1, code), Evaluated(c2, Inlined(code, local, value)), c1, c2)
  BY <1>5, InlinedMeans
<1> QED BY <1>1, <1>3, <1>6 DEF SameResult, After

(* ... is the one of a statement, or of an argument of the edge.           *)
LEMMA StatementTakes ==
  ASSUME original.upvalues = {}, NEW o, NEW m1, NEW m2, NEW local, NEW value, NEW s, NEW t,
         Passing(o, m1, m2, local, value), MayTake(s.code, value, local),
         IsProper(s), IsProper(t), t.dst = s.dst, t.code = Inlined(s.code, local, value)
  PROVE  AgreeLogs(Execute(m1, s), Execute(m2, t), {local})
<1>1. SameResult(After(m1, s.code), After(m2, t.code), m1, m2)
  BY ValueArrives
<1>2. Agree(m1, m2, {local}) /\ IsMachine(m1) /\ IsMachine(m2)
  BY DEF Passing, Agree
<1>3. AssignAlike(m1, m2, s, t, {local})
  BY <1>1 DEF AssignAlike, SameResult
<1>4. Agree(Execute(m1, s), Execute(m2, t), {local})
  BY <1>2, <1>3, OutcomesAgree
<1>5. /\ HasExecuted(m1, s, After(m1, s.code), Execute(m1, s))
      /\ HasExecuted(m2, t, After(m2, t.code), Execute(m2, t))
  BY <1>2, ExecuteDoes
<1>6. Execute(m1, s).log = Execute(m2, t).log
  BY <1>1, <1>5 DEF HasExecuted, SameResult
<1> QED BY <1>4, <1>6 DEF AgreeLogs

IntoStatement(b, c, a, i, local) ==
    /\ i \in 1 .. Len(b) /\ MovesPast(b, c, a, i - 1, local)
    /\ MayTake(b[i].code, b[a].code, local)
    /\ c[i].dst = b[i].dst /\ c[i].code = Inlined(b[i].code, local, b[a].code)
    /\ \A k \in i + 1 .. Len(b) : c[k] = b[k] /\ local \notin ReadsIn(b[k].code)

(* A block means the same when a value moves into a statement.             *)
LEMMA MoveIntoStatement ==
  ASSUME original.upvalues = {}, NEW b, NEW c, AreProper(b), AreProper(c),
         NEW a, NEW i, NEW local, IntoStatement(b, c, a, i, local),
         NEW sides, SidesAvoid(sides, {local})
  PROVE  Meaning(c, sides) = Meaning(b, sides)
<1>1. PICK f : BlockRuns(f, b) /\ Meaning(b, sides) = MeaningAt(f[Len(b)], sides)
  BY MeaningRuns
<1>2. PICK g : BlockRuns(g, c) /\ Meaning(c, sides) = MeaningAt(g[Len(c)], sides)
  BY MeaningRuns
<1>3. PICK n : n = Len(b) /\ Len(c) = n /\ n \in Nat /\ i \in 1 .. n
               /\ DOMAIN b = 1 .. n /\ DOMAIN c = 1 .. n
  BY DEF IntoStatement, MovesPast, AreProper
<1>4. PICK q : q = i - 1 /\ q + 1 = i /\ q \in 0 .. n - 1 /\ i + (n - i) = n /\ n - i \in Nat /\ i \in Nat
               /\ \A k \in 1 .. n - i : i + k \in i + 1 .. n /\ i + k \in 1 .. n
  BY <1>3
<1>5. Passing(f[a - 1], f[q], g[q], local, b[a].code)
  BY <1>1, <1>2, <1>4, ValueIsPassing DEF IntoStatement
<1>6. f[q + 1] = Execute(f[q], b[q + 1]) /\ g[q + 1] = Execute(g[q], c[q + 1])
  BY <1>1, <1>2, <1>3, <1>4 DEF BlockRuns, RunsBlock, StepsBlock
<1>7. AgreeLogs(f[i], g[i], {local})
  <2>1. IsProper(b[i]) /\ IsProper(c[i])
    BY <1>3 DEF AreProper
  <2>2. /\ MayTake(b[i].code, b[a].code, local)
        /\ c[i].dst = b[i].dst /\ c[i].code = Inlined(b[i].code, local, b[a].code)
    BY DEF IntoStatement
  <2>3. AgreeLogs(Execute(f[q], b[i]), Execute(g[q], c[i]), {local})
    BY <1>5, <2>1, <2>2, StatementTakes
  <2> QED BY <1>4, <1>6, <2>3
<1>8. SameStretch(b, c, i, n - i, {local})
  <2>1. ASSUME NEW k \in 1 .. n - i PROVE SameStep(b[i + k], c[i + k], {local})
    <3>1. i + k \in i + 1 .. n /\ i + k \in 1 .. n
      BY <1>4
    <3>2. c[i + k] = b[i + k] /\ local \notin ReadsIn(b[i + k].code) /\ IsProper(b[i + k])
      BY <1>3, <3>1 DEF IntoStatement, AreProper
    <3> QED BY <3>2 DEF SameStep
  <2>2. PICK r : r = n - i
    OBVIOUS
  <2>3. /\ i \in Nat /\ r \in Nat /\ i + r <= Len(b) /\ i + r <= Len(c)
        /\ \A k \in 1 .. r : SameStep(b[i + k], c[i + k], {local})
    <3>1. i + r = n /\ r \in Nat /\ i \in Nat
      BY <1>4, <2>2
    <3>2. n <= n
      BY <1>3
    <3> QED BY <1>3, <2>1, <2>2, <3>1, <3>2
  <2>4. SameStretch(b, c, i, r, {local})
    BY ONLY <2>3 DEF SameStretch
  <2> QED BY <2>2, <2>4
<1>9. AgreeLogs(f[n], g[n], {local})
  <2>1. AgreeLogs(f[i + (n - i)], g[i + (n - i)], {local})
    BY <1>1, <1>2, <1>7, <1>8, BlocksAlike
  <2> QED BY <1>4, <2>1
<1>10. MeaningAt(f[n], sides) = MeaningAt(g[n], sides)
  BY <1>9, MeaningsAgree
<1> QED BY <1>1, <1>2, <1>3, <1>10

IntoArgument(b, c, a, sides, turned, i, local) ==
    /\ MovesPast(b, c, a, Len(b), local) /\ ~ HasEffects(b[a].code)
    /\ AreSides(sides) /\ AreSides(turned) /\ i \in DOMAIN sides /\ DOMAIN turned = DOMAIN sides
    /\ MayTake(sides[i].code, b[a].code, local)
    /\ turned[i].code = Inlined(sides[i].code, local, b[a].code)
    /\ \A k \in DOMAIN sides \ {i} : turned[k] = sides[k] /\ local \notin ReadsIn(sides[k].code)

(* A block and its edge mean the same when a value moves into an argument  *)
(* of the edge.                                                            *)
LEMMA MoveIntoArgument ==
  ASSUME original.upvalues = {}, NEW b, NEW c, AreProper(b), AreProper(c),
         NEW a, NEW i, NEW local, NEW sides, NEW turned, IntoArgument(b, c, a, sides, turned, i, local)
  PROVE  Meaning(c, turned) = Meaning(b, sides)
<1>1. PICK f : BlockRuns(f, b) /\ Meaning(b, sides) = MeaningAt(f[Len(b)], sides)
  BY MeaningRuns
<1>2. PICK g : BlockRuns(g, c) /\ Meaning(c, turned) = MeaningAt(g[Len(c)], turned)
  BY MeaningRuns
<1>3. PICK m1, m2 : m1 = f[Len(b)] /\ m2 = g[Len(b)] /\ Len(c) = Len(b)
  BY DEF IntoArgument, MovesPast
<1>4. Passing(f[a - 1], m1, m2, local, b[a].code)
  BY <1>1, <1>2, <1>3, ValueIsPassing DEF IntoArgument
<1>5. /\ Agree(m1, m2, {local}) /\ m1.log = m2.log /\ IsMachine(m1) /\ IsMachine(m2)
      /\ \A x \in Locals \ {local} : m1.values[x] = m2.values[x]
  BY <1>4 DEF Passing, IntoArgument, Agree
<1>6. ASSUME NEW k \in DOMAIN sides
      PROVE  After(m1, sides[k].code).stack = After(m2, turned[k].code).stack
  <2>1. CASE k = i
    <3>1. SameResult(After(m1, sides[k].code), After(m2, turned[k].code), m1, m2)
      BY <1>4, <2>1, ValueArrives DEF IntoArgument
    <3>2. Alike(After(m1, sides[k].code), After(m2, turned[k].code), 0, 0, 1)
      BY <3>1 DEF SameResult
    <3> QED BY <3>2, AlikeStacks
  <2>2. CASE k # i
    <3>1. PICK code : code = sides[k].code /\ code = turned[k].code
      BY <2>2 DEF IntoArgument
    <3>2. code \in Seq(Token) /\ IsExpression(code) /\ local \notin ReadsIn(code)
      <4>1. sides[k] \in Argument
        BY DEF IntoArgument, AreSides
      <4> QED BY <2>2, <3>1, <4>1, StatementsHaveParts DEF IntoArgument, AreSides
    <3>3. \A x \in ReadsIn(code) : x \in Locals \ {local}
      BY <3>2, ExpressionFacts DEF ReadsIn
    <3>4. Begin(code, m1, m2)
      BY <1>5, <3>2, <3>3 DEF Begin
    <3>5. Alike(After(m1, code), After(m2, code), 0, 0, 1)
      BY <3>4, AfterAlike DEF End
    <3> QED BY <3>1, <3>5, AlikeStacks
  <2> QED BY <2>1, <2>2
<1>7. DOMAIN turned = DOMAIN sides
  BY DEF IntoArgument
<1>8. MeaningAt(m1, sides) = MeaningAt(m2, turned)
  BY <1>5, <1>6, <1>7 DEF MeaningAt
<1> QED BY <1>1, <1>2, <1>3, <1>8

-----------------------------------------------------------------------------
(* A local that is used once.                                              *)

IsAddedUp(s, w) ==
    /\ \A j \in DOMAIN s : w[s[j]] <= Weight(s, w)
    /\ \A j, k \in DOMAIN s : j # k => w[s[j]] + w[s[k]] <= Weight(s, w)

(* A sum is no less than one of its numbers, or two of them.               *)
LEMMA WeightIsAddedUp ==
  ASSUME NEW S, NEW s \in Seq(S), NEW w \in [S -> Nat],
         \A j \in DOMAIN s : \E e \in S : w[e] = 0
  PROVE  IsAddedUp(s, w)
<1>1. DOMAIN s = 1 .. Len(s) /\ \A j \in 1 .. Len(s) : s[j] \in S /\ w[s[j]] \in Nat
  OBVIOUS
<1>2. ASSUME NEW j \in DOMAIN s
      PROVE  /\ w[s[j]] <= Weight(s, w)
             /\ \A k \in DOMAIN s : j # k => w[s[j]] + w[s[k]] <= Weight(s, w)
  <2>1. PICK e \in S : w[e] = 0
    OBVIOUS
  <2>2. PICK t : t = [s EXCEPT ![j] = e]
    OBVIOUS
  <2>3. t \in Seq(S) /\ Len(t) = Len(s) /\ \A k \in DOMAIN s : k # j => t[k] = s[k]
    BY <2>2
  <2>4. Weight(t, w) = Weight(s, w) + (w[e] - w[s[j]]) /\ Weight(t, w) \in Nat /\ Weight(s, w) \in Nat
    <3>1. j \in 1 .. Len(s)
      BY <1>1
    <3>2. Weight([s EXCEPT ![j] = e], w) = Weight(s, w) + (w[e] - w[s[j]])
      BY <3>1, WeightChange
    <3>3. Weight(t, w) \in Nat /\ Weight(s, w) \in Nat
      BY <2>3, WeightIsNatural
    <3> QED BY <2>2, <3>2, <3>3
  <2>5. w[s[j]] <= Weight(s, w)
    BY <1>1, <2>1, <2>4
  <2>6. ASSUME NEW k \in DOMAIN s, j # k
        PROVE  w[s[j]] + w[s[k]] <= Weight(s, w)
    <3>1. PICK u : u = [t EXCEPT ![k] = e]
      OBVIOUS
    <3>2. u \in Seq(S) /\ k \in 1 .. Len(t)
      BY <1>1, <2>3, <3>1
    <3>3. Weight(u, w) = Weight(t, w) + (w[e] - w[t[k]]) /\ Weight(u, w) \in Nat
      <4>1. Weight([t EXCEPT ![k] = e], w) = Weight(t, w) + (w[e] - w[t[k]])
        <5>1. t \in Seq(S) /\ k \in 1 .. Len(t) /\ e \in S /\ w \in [S -> Nat]
          BY <2>3, <3>2
        <5> QED BY ONLY <5>1, WeightChange
      <4>2. Weight(u, w) \in Nat
        BY <3>2, WeightIsNatural
      <4> QED BY <3>1, <4>1, <4>2
    <3>4. t[k] = s[k]
      BY <2>3, <2>6
    <3>5. w[s[k]] \in Nat /\ w[s[j]] \in Nat
      BY <1>1
    <3> QED BY <2>1, <2>4, <3>3, <3>4, <3>5
  <2> QED BY <2>5, <2>6
<1> QED BY <1>2 DEF IsAddedUp

(* What is read once is read in one place.                                 *)
LEMMA CountedOnce ==
  ASSUME NEW code \in Seq(Token), NEW local, Count(code, ReadsOf(local)) <= 1
  PROVE  ReadsOnce(code, local)
<1> DEFINE reads == {i \in DOMAIN code : code[i] \in ReadsOf(local)}
<1>1. IsFiniteSet(reads) /\ Cardinality(reads) <= 1
  BY CountIsNatural DEF Count
<1>2. ASSUME NEW j \in DOMAIN code, NEW k \in DOMAIN code, j # k,
             code[j].op = "read", code[j].name = local, code[k].op = "read", code[k].name = local
      PROVE  FALSE
  <2>1. code[j] \in Token /\ code[k] \in Token
    OBVIOUS
  <2>2. {j, k} \subseteq reads
    BY <1>2, <2>1 DEF ReadsOf
  <2> HIDE DEF reads
  <2>3. Cardinality({j, k}) = 2
    <3>1. Cardinality({j}) = 1 /\ IsFiniteSet({j}) /\ k \notin {j}
      BY <1>2, FS_Singleton
    <3>2. Cardinality({j} \cup {k}) = 2
      BY <3>1, FS_AddElement, 1 + 1 = 2
    <3>3. {j} \cup {k} = {j, k}
      OBVIOUS
    <3> QED BY <3>2, <3>3
  <2>4. Cardinality({j, k}) <= Cardinality(reads) /\ Cardinality(reads) \in Nat
    BY <1>1, <2>2, FS_Subset, FS_CardinalityType
  <2> QED BY <1>1, <2>3, <2>4
<1> QED BY <1>2 DEF ReadsOnce

OnlyUse(b, sides, local) ==
    /\ \A i \in DOMAIN b : ReadsOnce(b[i].code, local)
    /\ \A i \in DOMAIN sides : ReadsOnce(sides[i].code, local)
    /\ \A i, j \in DOMAIN b :
          local \in ReadsIn(b[i].code) /\ local \in ReadsIn(b[j].code) => i = j
    /\ \A i, j \in DOMAIN sides :
          local \in ReadsIn(sides[i].code) /\ local \in ReadsIn(sides[j].code) => i = j
    /\ \A i \in DOMAIN b, j \in DOMAIN sides :
          ~ (local \in ReadsIn(b[i].code) /\ local \in ReadsIn(sides[j].code))

Unread(b, sides, local) ==
    /\ \A i \in DOMAIN b : local \notin ReadsIn(b[i].code)
    /\ \A i \in DOMAIN sides : local \notin ReadsIn(sides[i].code)

(* A local that is used at most once is read in one place at most; one     *)
(* that is not used is read nowhere.                                       *)
LEMMA UsesArePlaces ==
  ASSUME NEW b \in Seq(Statement), NEW sides \in Seq(Argument), NEW local
  PROVE  /\ Uses(b, sides, local) <= 1 => OnlyUse(b, sides, local)
         /\ Uses(b, sides, local) <= 0 => Unread(b, sides, local)
<1> DEFINE w == StatementWeight(ReadsOf(local), "tokens")
           v == SideWeight(ReadsOf(local))
           N(code) == Count(code, ReadsOf(local))
<1>1. /\ w \in [Statement -> Nat] /\ v \in [Argument -> Nat] /\ w[Empty] = 0
      /\ \A s \in Statement : w[s] = N(s.code) + 0
      /\ \A a \in Argument : v[a] = N(a.code)
      /\ \A c \in Seq(Token) : N(c) \in Nat
  <2>1. "tokens" \in {"tokens", "all"} /\ \A s : Targets(s, "tokens") = 0
    BY DEF Targets
  <2> QED BY <2>1, WeightsOfParts
<1>2. /\ \A i \in DOMAIN b : b[i] \in Statement /\ b[i].code \in Seq(Token)
      /\ \A i \in DOMAIN sides : sides[i] \in Argument /\ sides[i].code \in Seq(Token)
  BY StatementsHaveParts
<1>3. IsAddedUp(b, w)
  <2>1. Empty \in Statement
    BY StatementsHaveParts
  <2> HIDE DEF w
  <2>2. \A j \in DOMAIN b : \E e \in Statement : w[e] = 0
    BY <1>1, <2>1
  <2> QED BY <1>1, <2>2, WeightIsAddedUp
<1>4. IsAddedUp(sides, v)
  <2>1. ASSUME NEW j \in DOMAIN sides PROVE \E e \in Argument : v[e] = 0
    <3>1. [sides[j] EXCEPT !.code = <<>>] \in Argument
      <4>1. <<>> \in Seq(Token)
        OBVIOUS
      <4> QED BY <1>2, <4>1, StatementsHaveParts
    <3>2. [sides[j] EXCEPT !.code = <<>>].code = <<>>
      BY <1>2 DEF Argument
    <3>3. N(<<>>) = 0
      BY CountNone
    <3> HIDE DEF v, N
    <3> QED BY <1>1, <3>1, <3>2, <3>3
  <2> HIDE DEF v
  <2> QED BY <1>1, <2>1, WeightIsAddedUp
<1>5. /\ Uses(b, sides, local) = Weight(b, w) + Weight(sides, v)
      /\ Weight(b, w) \in Nat /\ Weight(sides, v) \in Nat
  <2>1. Uses(b, sides, local) = Weighs(b, sides, ReadsOf(local), "tokens")
    BY CountsAreWeights
  <2>2. Weight(b, w) \in Nat /\ Weight(sides, v) \in Nat
    <3> HIDE DEF w, v
    <3> QED BY <1>1, WeightIsNatural
  <2> QED BY <2>1, <2>2 DEF Weighs
<1>6. /\ \A i \in DOMAIN b : N(b[i].code) \in Nat /\ N(b[i].code) = w[b[i]]
      /\ \A i \in DOMAIN sides : N(sides[i].code) \in Nat /\ N(sides[i].code) = v[sides[i]]
  <2> HIDE DEF w, v, N
  <2> QED BY <1>1, <1>2
<1>7. /\ \A i \in DOMAIN b : local \in ReadsIn(b[i].code) <=> N(b[i].code) > 0
      /\ \A i \in DOMAIN sides : local \in ReadsIn(sides[i].code) <=> N(sides[i].code) > 0
  BY <1>2, ReadsAreCounted
<1>8. /\ \A i \in DOMAIN b : N(b[i].code) <= 1 => ReadsOnce(b[i].code, local)
      /\ \A i \in DOMAIN sides : N(sides[i].code) <= 1 => ReadsOnce(sides[i].code, local)
  BY <1>2, CountedOnce
<1> HIDE DEF w, v, N
<1>9. /\ \A j \in DOMAIN b : N(b[j].code) <= Weight(b, w)
      /\ \A j, k \in DOMAIN b : j # k => N(b[j].code) + N(b[k].code) <= Weight(b, w)
      /\ \A j \in DOMAIN sides : N(sides[j].code) <= Weight(sides, v)
      /\ \A j, k \in DOMAIN sides : j # k => N(sides[j].code) + N(sides[k].code) <= Weight(sides, v)
  BY <1>3, <1>4, <1>6 DEF IsAddedUp
<1>10. ASSUME Uses(b, sides, local) <= 1 PROVE OnlyUse(b, sides, local)
  <2>1. Weight(b, w) + Weight(sides, v) <= 1
    BY <1>5, <1>10
  <2>2. \A i \in DOMAIN b : ReadsOnce(b[i].code, local)
    BY <1>5, <1>6, <1>8, <1>9, <2>1
  <2>3. \A i \in DOMAIN sides : ReadsOnce(sides[i].code, local)
    BY <1>5, <1>6, <1>8, <1>9, <2>1
  <2>4. \A i, j \in DOMAIN b : N(b[i].code) > 0 /\ N(b[j].code) > 0 => i = j
    BY <1>5, <1>6, <1>9, <2>1
  <2>5. \A i, j \in DOMAIN sides : N(sides[i].code) > 0 /\ N(sides[j].code) > 0 => i = j
    BY <1>5, <1>6, <1>9, <2>1
  <2>6. \A i \in DOMAIN b, j \in DOMAIN sides : ~ (N(b[i].code) > 0 /\ N(sides[j].code) > 0)
    BY <1>5, <1>6, <1>9, <2>1
  <2> QED BY <1>7, <2>2, <2>3, <2>4, <2>5, <2>6 DEF OnlyUse
<1>11. ASSUME Uses(b, sides, local) <= 0 PROVE Unread(b, sides, local)
  <2>1. Weight(b, w) + Weight(sides, v) <= 0
    BY <1>5, <1>11
  <2>2. \A i \in DOMAIN b : ~ N(b[i].code) > 0
    BY <1>5, <1>6, <1>9, <2>1
  <2>3. \A i \in DOMAIN sides : ~ N(sides[i].code) > 0
    BY <1>5, <1>6, <1>9, <2>1
  <2> QED BY <1>7, <2>2, <2>3 DEF Unread
<1> QED BY <1>10, <1>11

-----------------------------------------------------------------------------
(* A step of inline().                                                     *)

(* The statements and arguments of the block are of the form the lemmas    *)
(* need.                                                                   *)
LEMMA FormIsProper ==
  ASSUME InlinerTypeOK, AreExpressions(block, arguments)
  PROVE  AreProper(block) /\ AreSides(arguments)
<1>1. block \in Seq(Statement) /\ arguments \in Seq(Argument)
  BY DEF InlinerTypeOK
<1>2. \A i \in DOMAIN block : block[i] \in Statement
  BY <1>1
<1> QED BY <1>1, <1>2 DEF AreProper, AreSides, IsProper, AreExpressions

(* And the other way round.                                                *)
LEMMA ProperHasForm ==
  ASSUME NEW b, NEW sides, AreProper(b), AreSides(sides)
  PROVE  AreExpressions(b, sides)
BY DEF AreProper, AreSides, IsProper, AreExpressions

(* Statements that assign no more, and read no more than those up to them. *)
IsBelow(c, b) ==
    /\ DOMAIN c = DOMAIN b /\ DOMAIN b \subseteq Nat
    /\ \A k \in DOMAIN b : Written(c[k]) \subseteq Written(b[k])
    /\ \A k \in DOMAIN b : \A x \in ReadsIn(c[k].code) :
          \E j \in DOMAIN b : j <= k /\ x \in ReadsIn(b[j].code)

(* SSA form is kept where no more is assigned and what is read comes from  *)
(* no later statement.                                                     *)
LEMMA BelowIsSSA ==
  ASSUME NEW b, NEW c, IsBelow(c, b), IsSSA(b)
  PROVE  IsSSA(c)
<1>1. ASSUME NEW i \in DOMAIN c, NEW j \in DOMAIN c, i < j
      PROVE  Written(c[i]) \cap Written(c[j]) = {}
  BY <1>1 DEF IsBelow, IsSSA
<1>2. ASSUME NEW i \in DOMAIN c, NEW j \in DOMAIN c, i <= j, NEW x \in ReadsIn(c[i].code), x \in Written(c[j])
      PROVE  FALSE
  <2>1. PICK k \in DOMAIN b : k <= i /\ x \in ReadsIn(b[k].code)
    BY <1>2 DEF IsBelow
  <2>2. j \in DOMAIN b /\ x \in Written(b[j]) /\ k <= j
    BY <1>2, <2>1 DEF IsBelow
  <2> QED BY <2>1, <2>2 DEF IsSSA
<1> QED BY <1>1, <1>2 DEF IsSSA

(* The value that MoveValue moves, and where it goes.                      *)
HasMoved(v, code) ==
    /\ v = block[at].code /\ code = Sites[index].code
    /\ at \in 1 .. Len(block) /\ at \in Nat /\ AssignsValue(block[at], MovedLocal)
    /\ v \in Seq(Token) /\ code \in Seq(Token) /\ IsExpression(v) /\ IsExpression(code)
    /\ MovedLocal \in ReadsIn(code) /\ MovedLocal \in Locals
    /\ Inlines(code, MovedLocal, v)
    /\ MovedCode = Inlined(code, MovedLocal, v)
    /\ MovedCode \in Seq(Token) /\ IsExpression(MovedCode)
    /\ ReadsIn(MovedCode) \subseteq ReadsIn(code) \cup ReadsIn(v)

(* MoveValue moves an expression into an expression that reads it.         *)
LEMMA MoveHasMoved ==
  ASSUME InlinerTypeOK, AreExpressions(block, arguments), MoveValue
  PROVE  HasMoved(block[at].code, Sites[index].code)
<1>1. PICK v, code : v = block[at].code /\ code = Sites[index].code
  OBVIOUS
<1>2. /\ at \in 1 .. Len(block) /\ block[at] \in Statement
      /\ Len(block[at].dst) = 1 /\ v \in Seq(Token)
      /\ index \in 1 .. Len(Sites) /\ code \in Seq(Token)
      /\ MovedLocal \in ReadsIn(code)
  BY <1>1, MoveFound
<1>3. AreProper(block) /\ AreSides(arguments)
  BY FormIsProper
<1>4. at \in DOMAIN block /\ IsProper(block[at]) /\ at \in Nat
  BY <1>2, <1>3 DEF AreProper
<1>5. block[at] # Empty /\ block[at].dst \in Seq(Locals)
  <2>1. block[at].dst \in Seq(Locals)
    BY <1>2, StatementsHaveParts
  <2>2. Len(Empty.dst) # 1
    BY EmptyStatement
  <2> QED BY <1>2, <2>1, <2>2
<1>6. IsExpression(v) /\ block[at].dst = <<MovedLocal>> /\ MovedLocal \in Locals
  <2>1. \A s \in Seq(Locals) : Len(s) = 1 => s = <<s[1]>> /\ s[1] \in Locals
    OBVIOUS
  <2> QED BY <1>1, <1>2, <1>4, <1>5, <2>1 DEF IsProper, MovedLocal
<1>7. IsExpression(code)
  <2>1. code # <<>>
    BY <1>2 DEF ReadsIn
  <2>2. CASE part = "statements"
    <3>1. index \in DOMAIN block /\ code = block[index].code
      BY <1>1, <1>2, <1>3, <2>2 DEF Sites, AreProper
    <3> QED BY <1>3, <2>1, <3>1, EmptyStatement DEF AreProper, IsProper
  <2>3. CASE part # "statements"
    <3>1. index \in DOMAIN arguments /\ code = arguments[index].code
      BY <1>1, <1>2, <1>3, <2>3 DEF Sites, AreSides
    <3> QED BY <1>3, <3>1 DEF AreSides
  <2> QED BY <2>2, <2>3
<1>8. Inlines(code, MovedLocal, v)
  BY <1>1 DEF MoveValue, Moves, MovedLocal
<1>9. MovedCode = Inlined(code, MovedLocal, v)
  BY <1>1 DEF MovedCode
<1>10. /\ MovedCode \in Seq(Token) /\ IsExpression(MovedCode)
       /\ ReadsIn(MovedCode) \subseteq ReadsIn(code) \cup ReadsIn(v)
  BY <1>2, <1>6, <1>7, <1>9, InlinedReads, InlinedIsExpression
<1>11. AssignsValue(block[at], MovedLocal)
  BY <1>1, <1>4, <1>6 DEF AssignsValue
<1> QED BY <1>1, <1>2, <1>4, <1>6, <1>7, <1>8, <1>9, <1>10, <1>11 DEF HasMoved

(* What the block and the arguments are then.                              *)
StatementIsRewritten ==
    /\ part = "statements" /\ at < index /\ index \in 1 .. Len(block) /\ index \in Nat
    /\ Len(block') = Len(block) /\ DOMAIN block' = DOMAIN block
    /\ block'[at] = Empty
    /\ block'[index].dst = block[index].dst /\ block'[index].code = MovedCode
    /\ \A k \in DOMAIN block \ {at, index} : block'[k] = block[k]
    /\ arguments' = arguments

ArgumentIsRewritten ==
    /\ part = "arguments" /\ index \in DOMAIN arguments
    /\ Len(block') = Len(block) /\ DOMAIN block' = DOMAIN block
    /\ block'[at] = Empty
    /\ \A k \in DOMAIN block \ {at} : block'[k] = block[k]
    /\ DOMAIN arguments' = DOMAIN arguments
    /\ arguments'[index].code = MovedCode
    /\ \A k \in DOMAIN arguments \ {index} : arguments'[k] = arguments[k]

(* MoveValue changes two places, and no other.                             *)
LEMMA MoveRewrites ==
  ASSUME InlinerTypeOK, MoveValue
  PROVE  StatementIsRewritten \/ ArgumentIsRewritten
<1>1. /\ at \in 1 .. Len(block)
      /\ part = "statements" =>
            /\ at # index /\ index \in 1 .. Len(block)
            /\ block' = [Remains EXCEPT ![index] = Rewritten(block[index])]
            /\ arguments' = arguments
      /\ part = "arguments" =>
            /\ index \in 1 .. Len(arguments)
            /\ block' = Remains
            /\ arguments' = [arguments EXCEPT ![index] = Rewritten(arguments[index])]
  BY MoveFound
<1>2. /\ block \in Seq(Statement) /\ arguments \in Seq(Argument)
      /\ DOMAIN block = 1 .. Len(block) /\ DOMAIN arguments = 1 .. Len(arguments)
      /\ Len(block) \in Nat
      /\ part \in {"statements", "arguments"}
  BY DEF InlinerTypeOK
<1>3. part = "statements" => at < index
  BY DEF InlinerTypeOK, MoveValue, Searching, AtSite
<1>4. PICK r : r = Remains /\ r = [block EXCEPT ![at] = Empty]
  BY DEF Remains
<1>5. /\ Empty \in Statement /\ r \in Seq(Statement) /\ Len(r) = Len(block) /\ DOMAIN r = DOMAIN block
      /\ r[at] = Empty /\ \A k \in DOMAIN block \ {at} : r[k] = block[k]
  <2>1. Empty \in Statement
    BY StatementsHaveParts
  <2> QED BY <1>1, <1>2, <1>4, <2>1
<1>6. CASE part = "statements"
  <2>1. PICK t : t = Rewritten(block[index])
    OBVIOUS
  <2>2. t.dst = block[index].dst /\ t.code = MovedCode
    <3>1. block[index] \in Statement
      BY <1>1, <1>2, <1>6
    <3>2. t = [block[index] EXCEPT !.code = MovedCode]
      BY <2>1 DEF Rewritten
    <3> QED BY <3>1, <3>2 DEF Statement
  <2>3. block' = [r EXCEPT ![index] = t]
    BY <1>1, <1>4, <1>6, <2>1
  <2>4. /\ Len(block') = Len(block) /\ DOMAIN block' = DOMAIN block
        /\ block'[index] = t /\ \A k \in DOMAIN block \ {index} : block'[k] = r[k]
    BY <1>1, <1>2, <1>5, <1>6, <2>3
  <2>5. index \in Nat /\ at # index /\ at \in DOMAIN block
    BY <1>1, <1>2, <1>6
  <2> QED BY <1>1, <1>3, <1>5, <1>6, <2>2, <2>4, <2>5 DEF StatementIsRewritten
<1>7. CASE part = "arguments"
  <2>1. PICK t : t = Rewritten(arguments[index])
    OBVIOUS
  <2>2. t.code = MovedCode
    <3>1. arguments[index] \in Argument
      BY <1>1, <1>2, <1>7
    <3>2. t = [arguments[index] EXCEPT !.code = MovedCode]
      BY <2>1 DEF Rewritten
    <3> QED BY <3>1, <3>2 DEF Argument
  <2>3. arguments' = [arguments EXCEPT ![index] = t] /\ block' = r
    BY <1>1, <1>4, <1>7, <2>1
  <2>4. /\ DOMAIN arguments' = DOMAIN arguments
        /\ arguments'[index] = t /\ \A k \in DOMAIN arguments \ {index} : arguments'[k] = arguments[k]
    BY <1>1, <1>2, <1>7, <2>3
  <2> QED BY <1>1, <1>2, <1>5, <1>7, <2>2, <2>3, <2>4 DEF ArgumentIsRewritten
<1> QED BY <1>2, <1>6, <1>7

(* Expressions stay expressions, and the block in SSA form, when a value   *)
(* moves.                                                                  *)
LEMMA MoveKeepsForm ==
  ASSUME InlinerTypeOK, AreExpressions(block, arguments), IsSSA(block), MoveValue
  PROVE  AreProper(block') /\ AreSides(arguments') /\ IsSSA(block')
<1>1. PICK v, code : HasMoved(v, code)
  BY MoveHasMoved
<1>2. AreProper(block) /\ AreSides(arguments)
  BY FormIsProper
<1>3. block' \in Seq(Statement) /\ arguments' \in Seq(Argument)
  <2>1. InlinerTypeOK'
    BY TypeIsPreserved DEF Next
  <2> QED BY <2>1 DEF InlinerTypeOK
<1>4. IsExpression(MovedCode) /\ ReadsIn(MovedCode) \subseteq ReadsIn(code) \cup ReadsIn(v)
  BY <1>1 DEF HasMoved
<1>5. DOMAIN block \subseteq Nat /\ DOMAIN block' \subseteq Nat
  BY <1>2, <1>3 DEF AreProper
<1>6. CASE StatementIsRewritten
  <2>1. /\ DOMAIN block' = DOMAIN block /\ at \in DOMAIN block /\ index \in DOMAIN block /\ at < index
        /\ block'[at] = Empty
        /\ block'[index].dst = block[index].dst /\ block'[index].code = MovedCode
        /\ \A k \in DOMAIN block \ {at, index} : block'[k] = block[k]
        /\ arguments' = arguments /\ code = block[index].code /\ v = block[at].code
    BY <1>1, <1>2, <1>6 DEF HasMoved, StatementIsRewritten, Sites, AreProper
  <2>2. ASSUME NEW k \in DOMAIN block'
        PROVE  IsProper(block'[k])
    <3>1. block'[k] \in Statement
      BY <1>3, <2>2
    <3> QED BY <1>2, <1>4, <2>1, <2>2, <3>1 DEF AreProper, IsProper
  <2>3. ASSUME NEW k \in DOMAIN block
        PROVE  Written(block'[k]) \subseteq Written(block[k])
    BY <2>1, EmptyStatement DEF Written
  <2>4. ASSUME NEW k \in DOMAIN block, NEW x \in ReadsIn(block'[k].code)
        PROVE  \E j \in DOMAIN block : j <= k /\ x \in ReadsIn(block[j].code)
    <3>1. CASE k = index
      BY <1>4, <1>5, <2>1, <2>4, <3>1
    <3>2. CASE k = at
      BY <2>1, <2>4, <3>2, EmptyStatement DEF ReadsIn
    <3>3. CASE k # at /\ k # index
      BY <1>5, <2>1, <2>4, <3>3
    <3> QED BY <3>1, <3>2, <3>3
  <2>5. IsSSA(block')
    BY <1>5, <2>1, <2>3, <2>4, BelowIsSSA DEF IsBelow
  <2> QED BY <1>2, <1>3, <2>1, <2>2, <2>5 DEF AreProper, AreSides
<1>7. CASE ArgumentIsRewritten
  <2>1. /\ DOMAIN block' = DOMAIN block /\ at \in DOMAIN block
        /\ block'[at] = Empty
        /\ \A k \in DOMAIN block \ {at} : block'[k] = block[k]
    BY <1>1, <1>2, <1>7 DEF HasMoved, ArgumentIsRewritten, AreProper
  <2>2. ASSUME NEW k \in DOMAIN block'
        PROVE  IsProper(block'[k])
    BY <1>2, <2>1, <2>2, EmptyStatement DEF AreProper
  <2>3. ASSUME NEW k \in DOMAIN block
        PROVE  Written(block'[k]) \subseteq Written(block[k])
    BY <2>1, EmptyStatement DEF Written
  <2>4. ASSUME NEW k \in DOMAIN block, NEW x \in ReadsIn(block'[k].code)
        PROVE  \E j \in DOMAIN block : j <= k /\ x \in ReadsIn(block[j].code)
    <3>1. k # at
      BY <2>1, <2>4, EmptyStatement DEF ReadsIn
    <3> QED BY <1>5, <2>1, <2>4, <3>1
  <2>5. IsSSA(block')
    BY <1>5, <2>1, <2>3, <2>4, BelowIsSSA DEF IsBelow
  <2>6. AreSides(arguments')
    BY <1>2, <1>3, <1>4, <1>7 DEF AreSides, ArgumentIsRewritten
  <2> QED BY <1>3, <2>2, <2>5, <2>6 DEF AreProper
<1> QED BY <1>6, <1>7, MoveRewrites

(* The value meets nothing on its way that it may not pass.                *)
LEMMA MovePasses ==
  ASSUME InlinerTypeOK, UsagesAreBounds, AreExpressions(block, arguments), IsSSA(block),
         SearchHolds, MoveValue, NEW v, NEW code, HasMoved(v, code)
  PROVE  /\ OnlyUse(block, arguments, MovedLocal)
         /\ HasEffects(v) => part = "statements"
         /\ \A k \in Between : MovedLocal \notin ReadsIn(block[k].code) => IsPassed(block[k], MovedLocal, v)
<1>1. AreProper(block) /\ AreSides(arguments) /\ block \in Seq(Statement) /\ arguments \in Seq(Argument)
  BY FormIsProper DEF AreProper, AreSides
<1>2. MovedLocal \in wanted[index] /\ index \in DOMAIN wanted
  BY MoveFound DEF MoveValue, Moves, MovedLocal, Searching, AtSite, InlinerTypeOK, Sites
<1>3. usages[MovedLocal] = 1
  BY <1>2 DEF SearchHolds
<1>4. Uses(block, arguments, MovedLocal) <= 1
  BY <1>3 DEF UsagesAreBounds, HasMoved
<1>5. HasEffects(v) => part = "statements" /\ allowEffects
  BY DEF HasMoved, MoveValue, Moves, Observable, EffectsAllowed
<1>6. ASSUME NEW k \in Between, MovedLocal \notin ReadsIn(block[k].code)
      PROVE  IsPassed(block[k], MovedLocal, v)
  <2>1. k \in DOMAIN block /\ at \in DOMAIN block /\ at < k /\ at <= k
    <3>1. at \in 1 .. Len(block) /\ Len(block) \in Nat /\ DOMAIN block = 1 .. Len(block)
      BY <1>1 DEF HasMoved
    <3>2. part = "statements" => index \in 1 .. Len(block)
      BY MoveFound
    <3> QED BY <3>1, <3>2, <1>6 DEF Between
  <2>2. IsProper(block[k])
    BY <1>1, <2>1 DEF AreProper
  <2>3. MovedLocal \in Written(block[at]) /\ v = block[at].code /\ MovedLocal \in Locals
    <3>1. block[at].dst = <<MovedLocal>>
      BY DEF HasMoved, AssignsValue
    <3> QED BY <3>1 DEF HasMoved, Written, ToSet
  <2>4. MovedLocal \notin Written(block[k]) /\ Written(block[k]) \cap ReadsIn(v) = {}
    BY <2>1, <2>3 DEF IsSSA
  <2>5. ReadsIn(v) \subseteq Locals
    BY ExpressionFacts DEF HasMoved, ReadsIn
  <2>6. HasEffects(v) => ~ HasEffects(block[k].code)
    BY <1>5, <1>6 DEF SearchHolds
  <2> QED BY <1>6, <2>2, <2>3, <2>4, <2>5, <2>6 DEF IsPassed
<1> QED BY <1>1, <1>4, <1>5, <1>6, UsesArePlaces

(* A block means the same after MoveValue: the value is the only           *)
(* assignment of a local that is read only where it goes, SSA form keeps   *)
(* what it reads, and the search has seen no effects between.              *)
LEMMA MoveKeepsMeaning ==
  ASSUME original.upvalues = {}, InlinerTypeOK, UsagesAreBounds, AreExpressions(block, arguments),
         IsSSA(block), SearchHolds, MoveValue
  PROVE  Meaning(block', arguments') = Meaning(block, arguments)
<1>1. PICK v, code : HasMoved(v, code)
  BY MoveHasMoved
<1>2. PICK a, i, local, n : a = at /\ i = index /\ local = MovedLocal /\ n = Len(block)
  OBVIOUS
<1>3. /\ AreProper(block) /\ AreSides(arguments) /\ AreProper(block') /\ AreSides(arguments')
      /\ n \in Nat /\ DOMAIN block = 1 .. n
  BY <1>2, FormIsProper, MoveKeepsForm DEF AreProper
<1>4. /\ OnlyUse(block, arguments, local)
      /\ HasEffects(v) => part = "statements"
      /\ \A k \in Between : local \notin ReadsIn(block[k].code) => IsPassed(block[k], local, v)
  BY <1>1, <1>2, MovePasses
<1>5. /\ v = block[a].code /\ a \in 1 .. n /\ AssignsValue(block[a], local) /\ local \in ReadsIn(code)
      /\ v \in Seq(Token) /\ code \in Seq(Token) /\ IsExpression(v) /\ IsExpression(code)
      /\ Inlines(code, local, v) /\ MovedCode = Inlined(code, local, v)
  BY <1>1, <1>2 DEF HasMoved
<1>6. CASE StatementIsRewritten
  <2>1. /\ part = "statements" /\ a < i /\ i \in 1 .. n /\ Len(block') = n
        /\ block'[a] = Empty
        /\ block'[i].dst = block[i].dst /\ block'[i].code = MovedCode
        /\ \A k \in 1 .. n : k # a /\ k # i => block'[k] = block[k]
        /\ arguments' = arguments /\ code = block[i].code
    BY <1>1, <1>2, <1>3, <1>6 DEF StatementIsRewritten, HasMoved, Sites
  <2>2. \A k \in 1 .. n : k # i => local \notin ReadsIn(block[k].code)
    BY <1>3, <1>4, <1>5, <2>1 DEF OnlyUse
  <2>3. ReadsOnce(code, local)
    BY <1>3, <1>4, <2>1 DEF OnlyUse
  <2>4. SidesAvoid(arguments, {local})
    BY <1>3, <1>4, <1>5, <2>1 DEF OnlyUse, SidesAvoid
  <2>5. MayTake(block[i].code, block[a].code, local)
    BY <1>5, <2>1, <2>3 DEF MayTake
  <2>6. ASSUME NEW k \in a + 1 .. i - 1
        PROVE  block'[k] = block[k] /\ IsPassed(block[k], local, block[a].code)
    <3>1. k \in Between
      BY <1>2, <2>1, <2>6 DEF Between
    <3>2. k \in 1 .. n /\ k # a /\ k # i
      BY <1>3, <1>5, <2>1, <2>6
    <3> QED BY <1>4, <1>5, <2>1, <2>2, <3>1, <3>2
  <2>7. \A k \in 1 .. a - 1 : block'[k] = block[k]
    BY <1>3, <1>5, <2>1
  <2>8. i - 1 \in a .. n
    BY <1>3, <1>5, <2>1
  <2>9. MovesPast(block, block', a, i - 1, local)
    BY <1>2, <1>5, <2>1, <2>6, <2>7, <2>8 DEF MovesPast
  <2>10. \A k \in i + 1 .. n : block'[k] = block[k] /\ local \notin ReadsIn(block[k].code)
    BY <1>3, <1>5, <2>1, <2>2
  <2>11. IntoStatement(block, block', a, i, local)
    BY <1>2, <1>5, <2>1, <2>5, <2>9, <2>10 DEF IntoStatement
  <2>12. Meaning(block', arguments) = Meaning(block, arguments)
    BY <1>3, <2>4, <2>11, MoveIntoStatement
  <2> QED BY <2>1, <2>12
<1>7. CASE ArgumentIsRewritten
  <2>1. /\ part = "arguments" /\ i \in DOMAIN arguments /\ Len(block') = n
        /\ block'[a] = Empty
        /\ \A k \in 1 .. n : k # a => block'[k] = block[k]
        /\ DOMAIN arguments' = DOMAIN arguments /\ arguments'[i].code = MovedCode
        /\ \A k \in DOMAIN arguments \ {i} : arguments'[k] = arguments[k]
        /\ code = arguments[i].code
    BY <1>1, <1>2, <1>3, <1>7 DEF ArgumentIsRewritten, HasMoved, Sites
  <2>2. ~ HasEffects(v)
    BY <1>4, <2>1
  <2>3. \A k \in 1 .. n : local \notin ReadsIn(block[k].code)
    BY <1>3, <1>4, <1>5, <2>1 DEF OnlyUse
  <2>4. ReadsOnce(code, local)
    BY <1>4, <2>1 DEF OnlyUse
  <2>5. MayTake(arguments[i].code, block[a].code, local)
    BY <1>5, <2>1, <2>4 DEF MayTake
  <2>6. ASSUME NEW k \in a + 1 .. n
        PROVE  block'[k] = block[k] /\ IsPassed(block[k], local, block[a].code)
    <3>1. k \in Between
      BY <1>2, <2>1, <2>6 DEF Between
    <3>2. k \in 1 .. n /\ k # a
      BY <1>3, <1>5, <2>6
    <3> QED BY <1>4, <1>5, <2>1, <2>3, <3>1, <3>2
  <2>7. \A k \in 1 .. a - 1 : block'[k] = block[k]
    BY <1>3, <1>5, <2>1
  <2>8. n \in a .. n
    BY <1>3, <1>5
  <2>9. MovesPast(block, block', a, Len(block), local)
    BY <1>2, <1>5, <2>1, <2>6, <2>7, <2>8 DEF MovesPast
  <2>10. \A k \in DOMAIN arguments \ {i} :
            arguments'[k] = arguments[k] /\ local \notin ReadsIn(arguments[k].code)
    BY <1>4, <1>5, <2>1 DEF OnlyUse
  <2>11. IntoArgument(block, block', a, arguments, arguments', i, local)
    BY <1>3, <1>5, <2>1, <2>2, <2>5, <2>9, <2>10 DEF IntoArgument
  <2> QED BY <1>3, <2>11, MoveIntoArgument
<1> QED BY <1>6, <1>7, MoveRewrites

-----------------------------------------------------------------------------
(* The sweep.                                                              *)

UnusedLocals == {l \in Locals : usages[l] = 0}

(* Nobody reads what is swept away.                                        *)
LEMMA UnusedIsUnread ==
  ASSUME InlinerTypeOK, UsagesAreBounds, NEW l \in UnusedLocals
  PROVE  Unread(block, arguments, l)
<1>1. Uses(block, arguments, l) <= 0
  BY DEF UnusedLocals, UsagesAreBounds
<1> QED BY <1>1, UsesArePlaces DEF InlinerTypeOK

(* What is swept away assigns only what nobody reads, and keeps its        *)
(* effects.                                                                *)
LEMMA SweptIsSameStep ==
  ASSUME NEW s, IsProper(s), ReadsIn(s.code) \cap UnusedLocals = {}
  PROVE  /\ SameStep(s, Swept(s), UnusedLocals)
         /\ IsProper(Swept(s))
         /\ Written(Swept(s)) \subseteq Written(s) /\ ReadsIn(Swept(s).code) \subseteq ReadsIn(s.code)
<1>1. s \in Statement /\ s.dst \in Seq(Locals) /\ s.code \in Seq(Token)
  BY StatementsHaveParts DEF IsProper
<1>2. CASE Swept(s) = s
  BY <1>2 DEF SameStep
<1>3. CASE Swept(s) # s
  <2>1. Unused(s)
    BY <1>3 DEF Swept
  <2>2. Len(s.dst) = 1 /\ usages[s.dst[1]] = 0
    BY <2>1 DEF Unused
  <2>3. Written(s) \subseteq UnusedLocals
    <3>1. DOMAIN s.dst = {1} /\ s.dst[1] \in Locals
      BY <1>1, <2>2
    <3>2. s.dst[1] \in UnusedLocals
      BY <2>2, <3>1 DEF UnusedLocals
    <3> QED BY <3>1, <3>2 DEF Written, ToSet
  <2>4. CASE Swept(s) = Empty /\ ~ HasEffects(s.code)
    <3>1. ReadsIn(Empty.code) = {}
      BY EmptyStatement DEF ReadsIn
    <3> QED BY <2>3, <2>4, <3>1, EmptyStatement DEF SameStep
  <2>5. CASE Swept(s) = [s EXCEPT !.dst = <<>>] /\ HasEffects(s.code)
    <3>1. PICK t : t = [s EXCEPT !.dst = <<>>]
      OBVIOUS
    <3>2. t.dst = <<>> /\ t.code = s.code /\ t \in Statement
      <4>1. s \in [dst : Seq(Locals), code : Seq(Token)] /\ <<>> \in Seq(Locals)
        BY <1>1 DEF Statement
      <4>2. t = [dst |-> <<>>, code |-> s.code]
        BY <3>1, <4>1
      <4> QED BY <1>1, <4>1, <4>2 DEF Statement
    <3>3. Written(t) = {}
      BY <3>2 DEF Written, ToSet
    <3>4. IsExpression(s.code)
      BY <2>5, EmptyStatement DEF IsProper
    <3>5. IsProper(t)
      BY <3>2, <3>4 DEF IsProper
    <3> QED BY <2>3, <2>5, <3>1, <3>2, <3>3, <3>5 DEF SameStep
  <2> QED BY <1>3, <2>1, <2>4, <2>5 DEF Swept
<1> QED BY <1>2, <1>3

SweepIsKept(swept) ==
    /\ AreProper(swept) /\ IsSSA(swept) /\ Len(swept) = Len(block)
    /\ Meaning(swept, arguments) = Meaning(block, arguments)

(* The sweep keeps the form of the block.                                  *)
LEMMA SweptFormIsKept ==
  ASSUME InlinerTypeOK, UsagesAreBounds, AreExpressions(block, arguments), IsSSA(block)
  PROVE  /\ AreProper(SweptBlock) /\ IsSSA(SweptBlock) /\ Len(SweptBlock) = Len(block)
         /\ \A k \in DOMAIN block : SameStep(block[k], SweptBlock[k], UnusedLocals)
<1>1. AreProper(block)
  BY FormIsProper
<1>2. PICK n : n = Len(block) /\ n \in Nat /\ DOMAIN block = 1 .. n /\ block \in Seq(Statement)
  BY <1>1 DEF AreProper
<1>3. ASSUME NEW k \in 1 .. n
      PROVE  /\ SameStep(block[k], Swept(block[k]), UnusedLocals)
             /\ IsProper(Swept(block[k]))
             /\ Written(Swept(block[k])) \subseteq Written(block[k])
             /\ ReadsIn(Swept(block[k]).code) \subseteq ReadsIn(block[k].code)
  <2>1. IsProper(block[k])
    BY <1>1, <1>2 DEF AreProper
  <2>2. ReadsIn(block[k].code) \cap UnusedLocals = {}
    BY <1>2, UnusedIsUnread DEF Unread
  <2> QED BY <2>1, <2>2, SweptIsSameStep
<1>4. PICK swept : swept = SweptBlock
  OBVIOUS
<1>5. /\ swept \in Seq(Statement) /\ Len(swept) = n /\ DOMAIN swept = 1 .. n
      /\ \A k \in 1 .. n : swept[k] = Swept(block[k])
  <2>1. \A k \in 1 .. n : Swept(block[k]) \in Statement
    BY <1>3 DEF IsProper
  <2>2. swept = [k \in 1 .. n |-> Swept(block[k])]
    BY <1>2, <1>4 DEF SweptBlock
  <2> QED BY <1>2, <2>1, <2>2
<1>6. AreProper(swept)
  BY <1>3, <1>5 DEF AreProper
<1>7. IsBelow(swept, block)
  <2>1. DOMAIN block \subseteq Nat
    BY <1>2
  <2>2. ASSUME NEW k \in DOMAIN block, NEW x \in ReadsIn(swept[k].code)
        PROVE  \E j \in DOMAIN block : j <= k /\ x \in ReadsIn(block[j].code)
    <3>1. x \in ReadsIn(block[k].code) /\ k <= k
      BY <1>2, <1>3, <1>5, <2>2
    <3> QED BY <3>1
  <2> QED BY <1>2, <1>3, <1>5, <2>1, <2>2 DEF IsBelow
<1>8. IsSSA(swept)
  BY <1>7, BelowIsSSA
<1>9. \A k \in DOMAIN block : SameStep(block[k], swept[k], UnusedLocals)
  BY <1>2, <1>3, <1>5
<1> QED BY <1>2, <1>4, <1>5, <1>6, <1>8, <1>9

(* The sweep keeps the meaning of the block.                               *)
LEMMA SweptMeansTheSame ==
  ASSUME original.upvalues = {}, InlinerTypeOK, UsagesAreBounds,
         AreExpressions(block, arguments), IsSSA(block)
  PROVE  Meaning(SweptBlock, arguments) = Meaning(block, arguments)
<1>1. PICK swept, n, X : swept = SweptBlock /\ n = Len(block) /\ X = UnusedLocals
  OBVIOUS
<1>2. /\ AreProper(swept) /\ AreProper(block) /\ AreSides(arguments) /\ Len(swept) = n
      /\ n \in Nat /\ DOMAIN block = 1 .. n
      /\ \A k \in 1 .. n : SameStep(block[k], swept[k], X)
  BY <1>1, SweptFormIsKept, FormIsProper DEF AreProper
<1>3. PICK f : BlockRuns(f, block) /\ Meaning(block, arguments) = MeaningAt(f[Len(block)], arguments)
  BY <1>2, MeaningRuns
<1>4. PICK g : BlockRuns(g, swept) /\ Meaning(swept, arguments) = MeaningAt(g[Len(swept)], arguments)
  BY <1>2, MeaningRuns
<1>5. 0 + n = n /\ \A k \in 1 .. n : 0 + k = k
  BY <1>2
<1>6. SameStretch(block, swept, 0, n, X)
  BY <1>1, <1>2, <1>5 DEF SameStretch
<1>7. AgreeLogs(f[0], g[0], X)
  BY <1>3, <1>4, FreshMachine DEF BlockRuns, RunsBlock, AgreeLogs, Agree
<1>8. AgreeLogs(f[0 + n], g[0 + n], X)
  BY <1>3, <1>4, <1>6, <1>7, BlocksAlike
<1>9. SidesAvoid(arguments, X)
  BY <1>1, <1>2, UnusedIsUnread DEF SidesAvoid, Unread
<1>10. MeaningAt(f[n], arguments) = MeaningAt(g[n], arguments)
  BY <1>5, <1>8, <1>9, MeaningsAgree
<1> QED BY <1>1, <1>2, <1>3, <1>4, <1>10

(* A block with one more statement.                                        *)
LEMMA OneMore ==
  ASSUME NEW q \in Seq(Statement), NEW s \in Statement
  PROVE  /\ Append(q, s) \in Seq(Statement) /\ Len(q) \in Nat /\ DOMAIN q = 1 .. Len(q)
         /\ Len(Append(q, s)) = Len(q) + 1 /\ DOMAIN Append(q, s) = 1 .. Len(q) + 1
         /\ Append(q, s)[Len(q) + 1] = s
         /\ \A k \in 1 .. Len(q) : Append(q, s)[k] = q[k]
<1> HIDE DEF Statement
<1>1. Append(q, s) \in Seq(Statement) /\ Len(Append(q, s)) = Len(q) + 1 /\ Len(q) \in Nat
  OBVIOUS
<1>2. \A k \in 1 .. Len(q) : Append(q, s)[k] = q[k]
  OBVIOUS
<1> QED BY <1>1, <1>2

(* One more statement.                                                     *)
LEMMA ExecutedAppended ==
  ASSUME NEW m, NEW q \in Seq(Statement), NEW s \in Statement
  PROVE  Executed(m, Append(q, s)) = Execute(Executed(m, q), s)
<1>0. PICK n, t : n = Len(q) /\ t = Append(q, s)
  OBVIOUS
<1>1. /\ n = Len(q) /\ t = Append(q, s) /\ n \in Nat /\ t \in Seq(Statement)
      /\ Len(t) = n + 1 /\ t[n + 1] = s /\ \A k \in 1 .. n : t[k] = q[k]
  BY <1>0, OneMore
<1>2. PICK f : RunsBlock(f, m, q) /\ Executed(m, q) = f[n]
  BY <1>1, ExecutedRuns
<1>3. PICK g : RunsBlock(g, m, t) /\ Executed(m, t) = g[n + 1]
  BY <1>1, ExecutedRuns
<1>4. /\ f[0] = m /\ g[0] = m
      /\ \A k \in 0 .. n - 1 : f[k + 1] = Execute(f[k], q[k + 1])
      /\ \A k \in 0 .. n : g[k + 1] = Execute(g[k], t[k + 1])
  BY <1>1, <1>2, <1>3 DEF RunsBlock, StepsBlock
<1> DEFINE T == {k \in 0 .. n : f[k] = g[k]}
<1>5. 0 \in T
  BY <1>1, <1>4
<1>6. ASSUME NEW k \in 0 .. n - 1, k \in T
      PROVE  k + 1 \in T
  <2>1. k + 1 \in 1 .. n /\ k \in 0 .. n
    BY <1>1
  <2> QED BY <1>1, <1>4, <1>6, <2>1
<1> HIDE DEF T
<1>7. n \in T
  <2>1. \A k \in 0 .. n : k \in T
    BY <1>1, <1>5, <1>6, InductionUpTo
  <2> QED BY <1>1, <2>1
<1>8. f[n] = g[n] /\ n \in 0 .. n
  BY <1>1, <1>7 DEF T
<1> QED BY <1>1, <1>2, <1>3, <1>4, <1>8

(* q has the statements that are retained of the first i, and ends like m. *)
RetainsUpTo(q, b, m, i) ==
    /\ AreProper(q) /\ IsSSA(q)
    /\ \A k \in DOMAIN q : \E j \in 1 .. i : q[k] = b[j]
    /\ AgreeLogs(Executed(Fresh, q), m, {})

(* A retained statement goes to the end.                                   *)
LEMMA RetainedGrows ==
  ASSUME original.upvalues = {}, NEW b, AreProper(b), IsSSA(b), NEW i \in Nat, i + 1 \in DOMAIN b,
         NEW q, NEW m, RetainsUpTo(q, b, m, i), b[i + 1] # Empty
  PROVE  RetainsUpTo(Append(q, b[i + 1]), b, Execute(m, b[i + 1]), i + 1)
<1>1. PICK s, n, t : /\ s = b[i + 1] /\ n = Len(q) /\ t = Append(q, s) /\ IsProper(s) /\ s \in Statement
  BY DEF AreProper, IsProper
<1>2. /\ q \in Seq(Statement) /\ DOMAIN q = 1 .. n /\ n \in Nat /\ t \in Seq(Statement)
      /\ DOMAIN t = 1 .. n + 1 /\ t[n + 1] = s /\ \A k \in 1 .. n : t[k] = q[k]
      /\ \A k \in 1 .. n : IsProper(q[k])
      /\ \A k \in 1 .. n : \E j \in 1 .. i : q[k] = b[j]
  <2>1. q \in Seq(Statement) /\ DOMAIN q = 1 .. n
    BY <1>1 DEF RetainsUpTo, AreProper
  <2>2. /\ n \in Nat /\ t \in Seq(Statement)
        /\ DOMAIN t = 1 .. n + 1 /\ t[n + 1] = s /\ \A k \in 1 .. n : t[k] = q[k]
    BY <1>1, <2>1, OneMore
  <2> QED BY <2>1, <2>2 DEF RetainsUpTo, AreProper
<1>3. AreProper(t)
  <2>1. \A k \in 1 .. n + 1 : k \in 1 .. n \/ k = n + 1
    BY <1>2
  <2> QED BY <1>1, <1>2, <2>1 DEF AreProper
<1>4. /\ DOMAIN b \subseteq Nat /\ 1 .. i \subseteq DOMAIN b
  BY DEF AreProper
<1>5. ASSUME NEW k \in 1 .. n
      PROVE  Written(q[k]) \cap Written(s) = {} /\ ReadsIn(q[k].code) \cap Written(s) = {}
  <2>1. PICK j \in 1 .. i : q[k] = b[j]
    BY <1>2
  <2>2. j \in DOMAIN b /\ j < i + 1 /\ j <= i + 1
    BY <1>4
  <2> QED BY <1>1, <2>1, <2>2 DEF IsSSA
<1>6. ReadsIn(s.code) \cap Written(s) = {}
  BY <1>1, <1>4 DEF IsSSA
<1>7. IsSSA(t)
  <2>1. ASSUME NEW j \in DOMAIN t, NEW k \in DOMAIN t
        PROVE  /\ j < k => Written(t[j]) \cap Written(t[k]) = {}
               /\ j <= k => ReadsIn(t[j].code) \cap Written(t[k]) = {}
    <3>1. CASE j \in 1 .. n /\ k \in 1 .. n
      BY <1>2, <3>1 DEF RetainsUpTo, IsSSA
    <3>2. CASE j \in 1 .. n /\ k = n + 1
      BY <1>2, <1>5, <3>2
    <3>3. CASE j = n + 1 /\ k = n + 1
      BY <1>2, <1>6, <3>3
    <3>4. CASE j = n + 1 /\ k \in 1 .. n
      BY <1>2, <3>4
    <3> QED BY <1>2, <3>1, <3>2, <3>3, <3>4
  <2> QED BY <2>1 DEF IsSSA
<1>8. ASSUME NEW k \in DOMAIN t
      PROVE  \E j \in 1 .. i + 1 : t[k] = b[j]
  <2>1. CASE k = n + 1
    <3>1. i + 1 \in 1 .. i + 1
      OBVIOUS
    <3> QED BY <1>1, <1>2, <2>1, <3>1
  <2>2. CASE k # n + 1
    <3>1. k \in 1 .. n
      BY <1>2, <2>2
    <3>2. PICK j \in 1 .. i : q[k] = b[j]
      BY <1>2, <3>1
    <3>3. j \in 1 .. i + 1
      OBVIOUS
    <3> QED BY <1>2, <3>1, <3>2, <3>3
  <2> QED BY <2>1, <2>2
<1>9. AgreeLogs(Executed(Fresh, t), Execute(m, s), {})
  <2>1. SameStep(s, s, {})
    BY <1>1 DEF SameStep
  <2>2. AgreeLogs(Execute(Executed(Fresh, q), s), Execute(m, s), {})
    BY <2>1, StepsAlike DEF RetainsUpTo
  <2> QED BY <1>1, <1>2, <2>2, ExecutedAppended
<1> QED BY <1>1, <1>3, <1>7, <1>8, <1>9 DEF RetainsUpTo

RetainedKeeps(b, r, sides) ==
    AreProper(r) /\ IsSSA(r) /\ Meaning(r, sides) = Meaning(b, sides)

(* A block without its Empty statements means the same, by induction.      *)
LEMMA RetainedIsKept ==
  ASSUME original.upvalues = {}, NEW b, AreProper(b), IsSSA(b), NEW sides, AreSides(sides)
  PROVE  RetainedKeeps(b, Retained(b), sides)
<1>1. PICK n : n = Len(b) /\ n \in Nat /\ DOMAIN b = 1 .. n /\ b \in Seq(Statement)
  BY DEF AreProper
<1>2. PICK r : AreRetained(r, b, n) /\ Retained(b) = r[n]
  BY <1>1, RetainedExists
<1>3. PICK f : BlockRuns(f, b) /\ Meaning(b, sides) = MeaningAt(f[n], sides)
  BY <1>1, MeaningRuns
<1>4. /\ f[0] = Fresh /\ \A k \in 0 .. n - 1 : f[k + 1] = Execute(f[k], b[k + 1])
      /\ \A k \in 0 .. n : IsMachine(f[k])
  BY <1>1, <1>3, BlockIsStepped DEF BlockRuns, RunsBlock, StepsBlock, BlockSteps
<1>5. /\ r[0] = <<>>
      /\ \A k \in 0 .. n - 1 : r[k + 1] = IF b[k + 1] = Empty THEN r[k] ELSE Append(r[k], b[k + 1])
  <2>1. r[0] = <<>>
    BY <1>1, <1>2 DEF AreRetained
  <2>2. ASSUME NEW k \in 0 .. n - 1
        PROVE  r[k + 1] = IF b[k + 1] = Empty THEN r[k] ELSE Append(r[k], b[k + 1])
    <3>1. k + 1 \in 0 .. n /\ k + 1 # 0 /\ (k + 1) - 1 = k
      BY <1>1
    <3> QED BY <1>2, <3>1 DEF AreRetained
  <2> QED BY <2>1, <2>2
<1> DEFINE T == {k \in 0 .. n : RetainsUpTo(r[k], b, f[k], k)}
<1>6. 0 \in T
  <2>1. AreProper(<<>>) /\ IsSSA(<<>>) /\ \A k \in DOMAIN <<>> : \E j \in 1 .. 0 : <<>>[k] = b[j]
    <3>1. <<>> \in Seq(Statement) /\ DOMAIN <<>> = {}
      OBVIOUS
    <3> QED BY <3>1 DEF AreProper, IsSSA
  <2>2. Executed(Fresh, <<>>) = Fresh
    <3>1. PICK g : RunsBlock(g, Fresh, <<>>) /\ Executed(Fresh, <<>>) = g[Len(<<>>)]
      <4>1. <<>> \in Seq(Statement)
        OBVIOUS
      <4> QED BY <4>1, ExecutedRuns
    <3> QED BY <3>1, StackEmpty DEF RunsBlock
  <2>3. AgreeLogs(Executed(Fresh, <<>>), Fresh, {})
    BY <2>2, FreshMachine DEF AgreeLogs, Agree
  <2> QED BY <1>1, <1>4, <1>5, <2>1, <2>3 DEF RetainsUpTo
<1>7. ASSUME NEW k \in 0 .. n - 1, k \in T
      PROVE  k + 1 \in T
  <2>1. k + 1 \in 1 .. n /\ k + 1 \in 0 .. n /\ k \in Nat /\ k \in 0 .. n
    BY <1>1
  <2>2. RetainsUpTo(r[k], b, f[k], k)
    BY <1>7
  <2>3. CASE b[k + 1] = Empty
    <3>1. r[k + 1] = r[k] /\ f[k + 1] = Execute(f[k], Empty)
      BY <1>4, <1>5, <2>3
    <3>2. HasExecuted(f[k], Empty, After(f[k], Empty.code), f[k + 1])
      BY <1>4, <2>1, <3>1, ExecuteDoes, EmptyStatement
    <3>3. /\ IsMachine(f[k + 1]) /\ f[k + 1].log = f[k].log
          /\ \A x \in Locals : f[k + 1].values[x] = f[k].values[x]
      BY <3>2, EmptyStatement DEF HasExecuted
    <3>4. AgreeLogs(Executed(Fresh, r[k]), f[k + 1], {})
      BY <2>2, <3>3 DEF RetainsUpTo, AgreeLogs, Agree
    <3>5. \A x \in DOMAIN r[k] : \E j \in 1 .. k + 1 : r[k][x] = b[j]
      <4>1. \A x \in DOMAIN r[k] : \E j \in 1 .. k : r[k][x] = b[j]
        BY <2>2 DEF RetainsUpTo
      <4>2. 1 .. k \subseteq 1 .. k + 1
        BY <2>1
      <4> QED BY <4>1, <4>2
    <3>6. RetainsUpTo(r[k], b, f[k + 1], k + 1)
      BY <2>2, <3>4, <3>5 DEF RetainsUpTo
    <3> QED BY <2>1, <3>1, <3>6
  <2>4. CASE b[k + 1] # Empty
    <3>1. r[k + 1] = Append(r[k], b[k + 1]) /\ f[k + 1] = Execute(f[k], b[k + 1])
      BY <1>4, <1>5, <2>4
    <3>2. RetainsUpTo(Append(r[k], b[k + 1]), b, Execute(f[k], b[k + 1]), k + 1)
      BY <1>1, <2>1, <2>2, <2>4, RetainedGrows
    <3> QED BY <2>1, <3>1, <3>2
  <2> QED BY <2>3, <2>4
<1> HIDE DEF T
<1>8. n \in T
  BY <1>1, <1>6, <1>7, InductionUpTo
<1>9. RetainsUpTo(r[n], b, f[n], n)
  BY <1>8 DEF T
<1>10. PICK g : BlockRuns(g, r[n]) /\ Meaning(r[n], sides) = MeaningAt(g[Len(r[n])], sides)
  BY <1>9, MeaningRuns DEF RetainsUpTo
<1>11. Meaning(r[n], sides) = MeaningAt(Executed(Fresh, r[n]), sides)
  BY DEF Meaning, MeaningAt, After
<1>12. SidesAvoid(sides, {})
  BY DEF SidesAvoid
<1>13. MeaningAt(Executed(Fresh, r[n]), sides) = MeaningAt(f[n], sides)
  BY <1>9, <1>12, MeaningsAgree DEF RetainsUpTo
<1> QED BY <1>2, <1>3, <1>9, <1>11, <1>13 DEF RetainedKeeps, RetainsUpTo

-----------------------------------------------------------------------------
(* The invariant.                                                          *)

(* What a block means depends on the case, which does not change.          *)
LEMMA MeaningIsFixed ==
  ASSUME original' = original
  PROVE  \A s, a : Meaning(s, a)' = Meaning(s, a)
BY ONLY original' = original
   DEF Meaning, Executed, Execute, Evaluated, EvaluateToken, WritesUpvalue, Assigned, Effectful,
       Operands, Pushed, Result, Cleared, Written, Fresh

(* The meaning is kept by a step that keeps the one of the block before    *)
(* it.                                                                     *)
LEMMA SameMeaningIsKept ==
  ASSUME original' = original, SameMeaning,
         Meaning(block', arguments') = Meaning(block, arguments)
  PROVE  SameMeaning'
BY MeaningIsFixed DEF SameMeaning

(* The registers are those of different locals, and no local is captured.  *)
IsPlain == OwnRegisters /\ original.upvalues = {}

(* Neither does whether the case is plain.                                 *)
LEMMA PlainIsFixed ==
  ASSUME original' = original, IsPlain'
  PROVE  IsPlain
BY DEF IsPlain, OwnRegisters

(* The search stays inside the block.                                      *)
LEMMA BetweenIsInside ==
  ASSUME InlinerTypeOK, Searching
  PROVE  /\ at \in DOMAIN block /\ at \in Nat
         /\ \A j \in Between : j \in DOMAIN block /\ at < j /\ at <= j
<1>1. /\ block \in Seq(Statement) /\ DOMAIN block = 1 .. Len(block) /\ Len(block) \in Nat
      /\ at \in 0 .. Len(block) /\ at > 0
      /\ part = "statements" => index \in 1 .. Len(block) + 1
  BY DEF InlinerTypeOK, Searching, AtSite, Sites
<1>2. at \in DOMAIN block /\ at \in Nat
  BY <1>1
<1>3. part = "statements" => index <= Len(block)
  BY DEF Searching, AtSite, Sites
<1>4. ASSUME NEW j \in Between PROVE j \in 1 .. Len(block) /\ at < j /\ at <= j
  BY <1>1, <1>3, <1>4 DEF Between
<1> QED BY <1>1, <1>2, <1>4

(* No statement reads what is written below it.                            *)
LEMMA NothingIsSkipped ==
  ASSUME InlinerTypeOK, AreExpressions(block, arguments), IsSSA(block), IsPlain, SearchHolds, Searching, Skips
  PROVE  FALSE
<1>1. PICK g : g \in Group(ReadsIn(block[at].code)) /\ g \in groupsWritten
  BY DEF Skips
<1>2. PICK l \in ReadsIn(block[at].code) : g = original.group[l]
  BY <1>1 DEF Group
<1>3. PICK j \in Between : g \in Group(Written(block[j]))
  BY <1>1 DEF SearchHolds
<1>4. PICK m \in Written(block[j]) : g = original.group[m]
  BY <1>3 DEF Group
<1>5. at \in DOMAIN block /\ j \in DOMAIN block /\ at <= j
  BY BetweenIsInside
<1>6. AreProper(block)
  BY FormIsProper
<1>7. l \in Locals
  <2>1. block[at].code \in Seq(Token) /\ (block[at] = Empty \/ IsExpression(block[at].code))
    BY <1>5, <1>6, StatementsHaveParts DEF AreProper, IsProper
  <2>2. block[at] # Empty
    BY EmptyStatement DEF ReadsIn
  <2>3. PICK c : c = block[at].code /\ c \in Seq(Token) /\ IsExpression(c) /\ l \in ReadsIn(c)
    BY <2>1, <2>2
  <2>4. PICK i \in 1 .. Len(c) : c[i].op = "read" /\ c[i].name = l
    BY <2>3 DEF ReadsIn
  <2> QED BY <2>3, <2>4, ExpressionFacts
<1>8. m \in Locals
  <2>1. block[j].dst \in Seq(Locals)
    BY <1>5, <1>6, StatementsHaveParts DEF AreProper
  <2> QED BY <2>1 DEF Written, ToSet
<1>9. l = m
  BY <1>2, <1>4, <1>7, <1>8 DEF IsPlain, OwnRegisters
<1> QED BY <1>5, <1>9 DEF IsSSA

(* A search that begins has looked at nothing.                             *)
LEMMA SearchBegins ==
  ASSUME NEW p, NEW i \in Nat, SearchFor(p, i), part' = p, Len(block') = Len(block), Len(block) \in Nat,
         \A k \in DOMAIN wanted' : \A l \in wanted'[k] : usages'[l] = 1
  PROVE  SearchHolds'
<1>1. /\ index' = i /\ at' = (IF p = "statements" THEN i - 1 ELSE Len(block))
      /\ groupsWritten' = {}
  BY DEF SearchFor
<1>2. Between' = {}
  BY <1>1 DEF Between
<1> QED BY <1>1, <1>2 DEF SearchHolds

(* A statement that is passed is taken note of.                            *)
LEMMA SearchGoesOn ==
  ASSUME InlinerTypeOK, PassStatement, SearchHolds
  PROVE  SearchHolds'
<1>1. /\ UNCHANGED <<original, block, arguments, usages, part, index, wanted>>
      /\ groupsWritten' = groupsWritten \cup Group(Written(block[at])) /\ at' = at - 1
      /\ allowEffects' => allowEffects /\ ~ HasEffects(block[at].code)
  BY DEF PassStatement, EffectsAllowed
<1>2. /\ at \in DOMAIN block /\ at \in Nat
      /\ \A j \in Between : j \in DOMAIN block /\ at < j /\ at <= j
      /\ part = "statements" => index \in Nat
      /\ Len(block) \in Nat /\ DOMAIN block = 1 .. Len(block)
  BY BetweenIsInside DEF PassStatement, InlinerTypeOK, Searching, AtSite
<1>3. part = "statements" => at < index
  BY DEF PassStatement, InlinerTypeOK, Searching, AtSite
<1>4. Between' = Between \cup {at}
  BY <1>1, <1>2, <1>3 DEF Between
<1>5. \A S : Group(S)' = Group(S)
  BY <1>1 DEF Group
<1>6. groupsWritten' \subseteq UNION {Group(Written(block[j]))' : j \in Between'}
  <2>1. groupsWritten \subseteq UNION {Group(Written(block[j])) : j \in Between}
    BY DEF SearchHolds
  <2> QED BY <1>1, <1>4, <2>1 DEF Group
<1>7. allowEffects' => \A j \in Between' : ~ HasEffects(block'[j].code)
  BY <1>1, <1>4 DEF SearchHolds
<1>8. \A i \in DOMAIN wanted' : \A l \in wanted'[i] : usages'[l] = 1
  BY <1>1 DEF SearchHolds
<1> QED BY <1>1, <1>6, <1>7, <1>8 DEF SearchHolds

(* What a step keeps.                                                      *)
FormIsKept ==
    /\ AreExpressions(block, arguments) /\ IsSSA(block)

StepKeeps ==
    /\ Meaning(block', arguments') = Meaning(block, arguments)
    /\ pc' = "scan" => SearchHolds'

(* The steps of the search keep the meaning, and what is known of the      *)
(* statements between.                                                     *)
LEMMA QuietKeepsMeaning ==
  ASSUME InlinerTypeOK, FormIsKept, IsPlain, pc = "scan" => SearchHolds, Next, IsQuiet
  PROVE  StepKeeps
<1>1. block' = block /\ arguments' = arguments /\ usages' = usages
  BY DEF IsQuiet
<1>2. Meaning(block', arguments') = Meaning(block, arguments)
  BY <1>1
<1>3. /\ block \in Seq(Statement) /\ Len(block) \in Nat
      /\ pc = "scan" => index \in Nat /\ index + 1 \in Nat
  BY DEF InlinerTypeOK, Sites
<1>4. CASE BeginStatements
  <2>1. /\ SearchFor("statements", 1) /\ part' = "statements"
        /\ wanted' = [i \in DOMAIN block |-> SingleUse(block[i].code)]
    BY <1>4 DEF BeginStatements
  <2>2. \A k \in DOMAIN wanted' : \A l \in wanted'[k] : usages'[l] = 1
    BY <1>1, <2>1 DEF SingleUse
  <2>3. SearchHolds'
    BY <1>1, <1>3, <2>1, <2>2, SearchBegins
  <2> QED BY <1>2, <2>3 DEF StepKeeps
<1>5. CASE BeginArguments
  <2>1. /\ SearchFor("arguments", 1) /\ part' = "arguments"
        /\ wanted' = [i \in DOMAIN arguments |-> SingleUse(arguments[i].code)]
    BY <1>5 DEF BeginArguments
  <2>2. \A k \in DOMAIN wanted' : \A l \in wanted'[k] : usages'[l] = 1
    BY <1>1, <2>1 DEF SingleUse
  <2>3. SearchHolds'
    BY <1>1, <1>3, <2>1, <2>2, SearchBegins
  <2> QED BY <1>2, <2>3 DEF StepKeeps
<1>6. CASE EndPass
  BY <1>2, <1>6 DEF EndPass, StepKeeps
<1>7. CASE NextSite \/ GiveUp
  <2>1. /\ SearchFor(part, index + 1) /\ part' = part /\ wanted' = wanted /\ pc = "scan"
    BY <1>7 DEF NextSite, GiveUp, Searching, AtSite
  <2>2. \A k \in DOMAIN wanted' : \A l \in wanted'[k] : usages'[l] = 1
    BY <1>1, <2>1 DEF SearchHolds
  <2>3. SearchHolds'
    BY <1>1, <1>3, <2>1, <2>2, SearchBegins
  <2> QED BY <1>2, <2>3 DEF StepKeeps
<1>8. CASE SkipReader
  <2>1. Searching /\ Skips /\ SearchHolds
    BY <1>8 DEF SkipReader, Searching, AtSite
  <2> QED BY <2>1, NothingIsSkipped DEF FormIsKept
<1>9. CASE PassStatement
  <2>1. SearchHolds
    BY <1>9 DEF PassStatement, Searching, AtSite
  <2>2. SearchHolds'
    BY <1>9, <2>1, SearchGoesOn
  <2> QED BY <1>2, <2>2 DEF StepKeeps
<1>10. CASE MoveValue
  <2>1. block' # block
    <3>1. HasMoved(block[at].code, Sites[index].code)
      BY <1>10, MoveHasMoved DEF FormIsKept
    <3>2. block'[at] = Empty
      BY <1>10, MoveRewrites DEF StatementIsRewritten, ArgumentIsRewritten
    <3>3. block[at] # Empty
      <4>1. block[at].dst = <<MovedLocal>> /\ <<MovedLocal>> # <<>>
        BY <3>1 DEF HasMoved, AssignsValue
      <4> QED BY <4>1, EmptyStatement
    <3> QED BY <3>2, <3>3
  <2> QED BY <1>1, <2>1
<1>11. CASE Sweep
  BY <1>2, <1>11 DEF Sweep, StepKeeps
<1> QED BY <1>4, <1>5, <1>6, <1>7, <1>8, <1>9, <1>10, <1>11 DEF Next

(* So does a move, which begins the search anew.                           *)
LEMMA MoveKeeps ==
  ASSUME InlinerTypeOK, UsagesAreBounds, FormIsKept, IsPlain, pc = "scan" => SearchHolds, MoveValue
  PROVE  StepKeeps
<1>1. SearchHolds
  BY DEF MoveValue, Searching, AtSite
<1>2. Meaning(block', arguments') = Meaning(block, arguments)
  BY <1>1, MoveKeepsMeaning DEF FormIsKept, IsPlain
<1>3. /\ SearchFor(part, index) /\ part' = part /\ usages' = usages
      /\ index \in Nat /\ Len(block) \in Nat
      /\ wanted' = [wanted EXCEPT ![index] = @ \ {MovedLocal}]
  BY DEF MoveValue, MovedLocal, InlinerTypeOK, Searching, AtSite
<1>4. Len(block') = Len(block)
  BY MoveRewrites DEF StatementIsRewritten, ArgumentIsRewritten
<1>5. \A k \in DOMAIN wanted' : \A l \in wanted'[k] : usages'[l] = 1
  BY <1>1, <1>3 DEF SearchHolds
<1>6. SearchHolds'
  BY <1>3, <1>4, <1>5, SearchBegins
<1> QED BY <1>2, <1>6 DEF StepKeeps

(* So does the sweep, behind which no search is on.                        *)
LEMMA SweepKeeps ==
  ASSUME InlinerTypeOK, UsagesAreBounds, FormIsKept, IsPlain, Sweep
  PROVE  FormIsKept' /\ StepKeeps
<1>1. block' = Retained(SweptBlock) /\ arguments' = arguments /\ pc' # "scan"
  BY DEF Sweep, SweptBlock
<1>2. AreProper(SweptBlock) /\ IsSSA(SweptBlock) /\ AreSides(arguments)
  BY SweptFormIsKept, FormIsProper DEF FormIsKept
<1>3. Meaning(SweptBlock, arguments) = Meaning(block, arguments)
  BY SweptMeansTheSame DEF FormIsKept, IsPlain
<1>4. RetainedKeeps(SweptBlock, block', arguments)
  BY <1>1, <1>2, RetainedIsKept DEF IsPlain
<1>5. FormIsKept'
  <2>1. AreProper(block') /\ IsSSA(block') /\ AreSides(arguments')
    BY <1>1, <1>2, <1>4 DEF RetainedKeeps
  <2>2. AreExpressions(block', arguments')
    BY <2>1, ProperHasForm
  <2> QED BY <2>1, <2>2 DEF FormIsKept
<1>6. Meaning(block', arguments') = Meaning(block, arguments)
  BY <1>1, <1>3, <1>4 DEF RetainedKeeps
<1> QED BY <1>1, <1>5, <1>6 DEF StepKeeps

(* The invariant holds of every case.                                      *)
LEMMA MeaningStarts ==
  ASSUME Init
  PROVE  MeaningInvariant
<1>1. /\ original \in Cases /\ block = original.block /\ arguments = original.arguments /\ pc = "begin"
  BY DEF Init
<1>2. AreExpressions(block, arguments) /\ IsSSA(block)
  BY <1>1, FormAssumption
<1>3. SameMeaning
  BY <1>1 DEF SameMeaning
<1> QED BY <1>1, <1>2, <1>3 DEF MeaningInvariant

(* Every step keeps the invariant.                                         *)
LEMMA MeaningIsPreserved ==
  ASSUME InlinerTypeOK, UsagesAreBounds, MeaningInvariant, Next
  PROVE  MeaningInvariant'
<1> SUFFICES ASSUME IsPlain'
             PROVE  /\ FormIsKept' /\ SameMeaning'
                    /\ pc' = "scan" => SearchHolds'
  BY DEF MeaningInvariant, IsPlain, FormIsKept
<1>1. original' = original
  BY DEF Next, BeginStatements, BeginArguments, EndPass, NextSite, GiveUp, SkipReader, MoveValue,
         PassStatement, Sweep
<1>2. IsPlain
  BY <1>1, PlainIsFixed
<1>3. FormIsKept /\ SameMeaning /\ (pc = "scan" => SearchHolds)
  BY <1>2 DEF MeaningInvariant, IsPlain, FormIsKept
<1>4. FormIsKept' /\ StepKeeps
  <2>1. CASE IsQuiet
    <3>1. FormIsKept'
      BY <1>3, <2>1 DEF IsQuiet, FormIsKept
    <3> QED BY <1>2, <1>3, <2>1, <3>1, QuietKeepsMeaning
  <2>2. CASE MoveValue
    <3>1. AreExpressions(block', arguments') /\ IsSSA(block')
      BY <1>3, <2>2, MoveKeepsForm, ProperHasForm DEF FormIsKept
    <3>2. FormIsKept'
      BY <3>1 DEF FormIsKept
    <3> QED BY <1>2, <1>3, <2>2, <3>2, MoveKeeps
  <2>3. CASE Sweep
    BY <1>2, <1>3, <2>3, SweepKeeps
  <2> QED BY <2>1, <2>2, <2>3, StepsAreQuiet
<1>5. SameMeaning'
  BY <1>1, <1>3, <1>4, SameMeaningIsKept DEF StepKeeps
<1> QED BY <1>4, <1>5 DEF StepKeeps

(* So does a step that changes nothing.                                    *)
LEMMA MeaningStutters ==
  ASSUME MeaningInvariant, UNCHANGED vars
  PROVE  MeaningInvariant'
<1> SUFFICES ASSUME IsPlain'
             PROVE  /\ FormIsKept' /\ SameMeaning'
                    /\ pc' = "scan" => SearchHolds'
  BY DEF MeaningInvariant, IsPlain, FormIsKept
<1>1. /\ original' = original /\ block' = block /\ arguments' = arguments /\ pc' = pc /\ wanted' = wanted
      /\ usages' = usages /\ groupsWritten' = groupsWritten /\ allowEffects' = allowEffects
      /\ at' = at /\ index' = index /\ part' = part
  BY DEF vars
<1>2. IsPlain
  BY <1>1, PlainIsFixed
<1>3. FormIsKept /\ SameMeaning /\ (pc = "scan" => SearchHolds)
  BY <1>2 DEF MeaningInvariant, IsPlain, FormIsKept
<1>4. SameMeaning'
  BY <1>1, <1>3, SameMeaningIsKept
<1>5. FormIsKept'
  BY <1>1, <1>3 DEF FormIsKept
<1>6. SearchHolds => SearchHolds'
  BY <1>1 DEF SearchHolds, Between, Group
<1> QED BY <1>1, <1>3, <1>4, <1>5, <1>6

(* Whatever is inlined and swept away, in whatever order and as often as   *)
(* inline() goes over the block: its effects, their order, and the values  *)
(* that its edge passes are those of the block that was given, provided    *)
(* that no register is shared and no local captured (inline.rs, inline()). *)
THEOREM MeaningIsAlwaysKept == Spec => []MeaningIsKept
<1>1. Init => MeaningInvariant
  BY MeaningStarts
<1>2. InlinerInvariant /\ MeaningInvariant /\ [Next]_vars => MeaningInvariant'
  BY MeaningIsPreserved, MeaningStutters DEF InlinerInvariant
<1>3. MeaningInvariant => MeaningIsKept
  BY DEF MeaningInvariant, MeaningIsKept
<1> QED BY <1>1, <1>2, <1>3, InlinerIsConsistent, PTL DEF Spec
=============================================================================
