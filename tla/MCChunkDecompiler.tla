------------------------- MODULE MCChunkDecompiler -------------------------
(* Chunks for decompile_chunk and the two validations it begins with: tables  *)
(* for the search, closures for the expansion, functions for the driver.      *)
EXTENDS ChunkDecompiler

CONSTANT MainLength     \* the most instructions main has

Op(op, slot) == [op |-> op, slot |-> slot]

New(slot) == Op("NEWCLOSURE", slot)
Dup(slot) == Op("DUPCLOSURE", slot)
Return == Op("RETURN", 0)
Jump == Op("JUMP", 0)
Other == Op("OTHER", 0)
Unsupported == Op("UNSUPPORTED", 0)

Codes(instructionSet, length) == UNION {[1 .. n -> instructionSet] : n \in 1 .. length}

(* Every chunk of three prototypes in which the first two name at most two    *)
(* and the third one, any of which may be missing.  Whether an id is in the   *)
(* child table or is a closure constant does not matter to the search: the    *)
(* second one is the constant.                                                *)
Ids == {<<>>} \cup {<<p>> : p \in 0 .. 3}

Lists(second) == [functions : Ids, constants : second, code : {<<>>}]

ChunksOf(count, mains, tables) == [count : {count}, main : mains, functions : tables]

SearchChunks ==
    ChunksOf(3, {0}, {0 :> first @@ 1 :> second @@ 2 :> third :
        first \in Lists(Ids), second \in Lists(Ids), third \in Lists({<<>>})})

(* The first two prototypes create closures in every order, repeatedly and of *)
(* missing children; the third creates none.  Either is the main function.    *)
ExpandedFirst ==
    [functions : {<<1, 2>>}, constants : {<<2>>},
     code : Codes({New(0), New(1), Dup(0), Other}, 3)]

ExpandedSecond ==
    [functions : {<<2>>}, constants : {<<>>},
     code : Codes({New(0), New(-1), Dup(0), Other}, 2)]

ExpandedLast == [functions : {<<>>}, constants : {<<>>}, code : {<<Other>>}]

ShallowChunks ==
    ChunksOf(3, {0, 1}, {0 :> first @@ 1 :> second @@ 2 :> last :
        first \in ExpandedFirst, second \in ExpandedSecond, last \in ExpandedLast})

(* Main creates so many instances of the second that it alone exhausts     *)
(* the budget.                                                             *)
WideChunks ==
    ChunksOf(3, {0}, {0 :> first @@ 1 :> second @@ 2 :> last :
        first \in [functions : {<<1>>}, constants : {<<>>}, code : [1 .. 5 -> {New(0)}]],
        second \in ExpandedSecond, last \in ExpandedLast})

(* Prototype 4 hangs below prototype 3 and, one level deeper, below 2; the *)
(* last one hangs below prototype 4.                                       *)
Between(child) ==
    [functions : {<<child>>}, constants : {<<>>}, code : {<<New(0)>>, <<Other>>}]

DeepChunks ==
    ChunksOf(6, {0},
      {0 :> first @@ 1 :> second @@ 2 :> third @@ 3 :> fourth @@ 4 :> fifth @@ 5 :> last :
        first \in [functions : {<<1, 3>>, <<3, 1>>}, constants : {<<>>},
                   code : Codes({New(0), New(1)}, 2)],
        second \in Between(2), third \in Between(4), fourth \in Between(4), fifth \in Between(5),
        last \in [functions : {<<>>}, constants : {<<>>}, code : {<<>>}]})

ExpansionChunks == ShallowChunks \cup WideChunks \cup DeepChunks

(* Main creates closures of the other two in every order, before and after    *)
(* returns and jumps; the second creates closures of the third; the second    *)
(* and the third may be refused by the lifter.                                *)
MainFunctions ==
    [functions : {<<1>>}, constants : {<<2>>},
     code : Codes({New(0), Dup(0), Return, Jump}, MainLength)]

SecondFunctions ==
    [functions : {<<2>>}, constants : {<<>>},
     code : {<<New(0)>>, <<Unsupported>>, <<New(0), New(0)>>, <<New(0), Return>>,
             <<Return, New(0)>>, <<New(0), Unsupported>>}]

LastFunctions ==
    [functions : {<<>>}, constants : {<<>>}, code : {<<>>, <<Return>>, <<Unsupported>>}]

DriverChunks ==
    ChunksOf(3, {0}, {0 :> first @@ 1 :> second @@ 2 :> last :
        first \in MainFunctions, second \in SecondFunctions, last \in LastFunctions})

MCChunks == SearchChunks \cup ExpansionChunks \cup DriverChunks

(* Chunks whose prototypes all lift.                                          *)
LiftableChunks ==
    {c \in DriverChunks : \A f \in Prototypes(c) : Lifts(c.functions[f].code)}
=============================================================================
