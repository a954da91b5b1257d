----------------------------- MODULE Lua51Code -----------------------------
(* Instructions of Lua 5.1: the words of a code section and what the          *)
(* deserializer makes of them (src/lua51-deserializer/src/instruction). A     *)
(* word is a record of its operation and operands, [op, a, b, c], [op, a, bx] *)
(* or [op, a, sbx]; the bits they are cut from are not modelled, their widths *)
(* are: a has eight bits, b and c nine. A prototype is a record               *)
(*   [code, constants, closures, upvalues, parameters, stack, vararg, locals] *)
(* with `constants' a sequence of kinds and `locals' a sequence of ranges     *)
(* <<first, last>> of instructions, last excluded, as in the debug section.   *)
EXTENDS Integers, Sequences, FiniteSets, SequencesExt

CONSTANT ByteLimit      \* the number of values of an unsigned byte: 256

ASSUME ByteLimitAssumption == ByteLimit \in Nat \ {0, 1, 2, 3}

Arithmetic == {"Add", "Sub", "Mul", "Div", "Mod", "Pow"}
UnaryCodes == {"Minus", "Not", "Length"}
Comparisons == {"Equal", "LessThan", "LessThanOrEqual"}

(* Operands of nine bits name a register or, from ByteLimit on, a constant. *)
RegisterOrConstant(v) ==
  IF v >= ByteLimit THEN <<"k", v - ByteLimit>> ELSE <<"r", v>>

Narrow(v) == v < ByteLimit

Flag(v) == v \in {0, 1}

RegisterSpan(first, last) == [i \in 1..(last - first + 1) |-> first + i - 1]

(* A word is refused if an operand has a value that its instruction gives no  *)
(* meaning, or that does not fit the byte it is kept in.                      *)
Decodable(w) ==
  CASE w.op \in {"Move", "GetUpvalue", "SetUpvalue", "GetIndex", "TailCall", "Return", "VarArg", "SetList"}
              \cup UnaryCodes -> Narrow(w.b)
    [] w.op = "LoadBoolean" -> Flag(w.b) /\ Flag(w.c)
    [] w.op = "LoadNil" -> Narrow(w.b) /\ w.a <= w.b
    [] w.op = "Concatenate" -> Narrow(w.b) /\ Narrow(w.c) /\ w.b <= w.c
    [] w.op \in Comparisons -> Flag(w.a)
    [] w.op = "Test" -> Flag(w.c)
    [] w.op = "TestSet" -> Narrow(w.b) /\ Flag(w.c)
    [] w.op = "Call" -> Narrow(w.b) /\ Narrow(w.c)
    [] w.op = "PrepMethodCall" -> Narrow(w.a + 1) /\ Narrow(w.b)
    [] w.op \in {"IterateNumericForLoop", "InitNumericForLoop"} -> Narrow(w.a + 3)
    [] w.op = "IterateGenericForLoop" -> w.c > 0 /\ Narrow(w.c) /\ Narrow(w.a + 3 + w.c)
    [] OTHER -> TRUE

DecodedData(w) ==
  CASE w.op = "Move" -> [op |-> w.op, destination |-> w.a, source |-> w.b]
    [] w.op = "LoadConstant" -> [op |-> w.op, destination |-> w.a, source |-> w.bx]
    [] w.op = "LoadBoolean" -> [op |-> w.op, destination |-> w.a, value |-> w.b = 1, skip_next |-> w.c = 1]
    [] w.op = "LoadNil" -> [op |-> w.op, registers |-> RegisterSpan(w.a, w.b)]
    [] w.op = "GetUpvalue" -> [op |-> w.op, destination |-> w.a, upvalue |-> w.b]
    [] w.op = "GetGlobal" -> [op |-> w.op, destination |-> w.a, global |-> w.bx]
    [] w.op = "GetIndex" -> [op |-> w.op, destination |-> w.a, object |-> w.b, key |-> RegisterOrConstant(w.c)]
    [] w.op = "SetGlobal" -> [op |-> w.op, destination |-> w.bx, value |-> w.a]
    [] w.op = "SetUpvalue" -> [op |-> w.op, destination |-> w.b, source |-> w.a]
    [] w.op = "SetIndex" -> [op |-> w.op, object |-> w.a,
                             key |-> RegisterOrConstant(w.b), value |-> RegisterOrConstant(w.c)]
    [] w.op = "NewTable" -> [op |-> w.op, destination |-> w.a]
    [] w.op = "PrepMethodCall" -> [op |-> w.op, destination |-> w.a, self_arg |-> w.a + 1, object |-> w.b,
                                   method |-> RegisterOrConstant(w.c)]

DecodedOperator(w) ==
  CASE w.op \in Arithmetic -> [op |-> w.op, destination |-> w.a,
                               lhs |-> RegisterOrConstant(w.b), rhs |-> RegisterOrConstant(w.c)]
    [] w.op \in UnaryCodes -> [op |-> w.op, destination |-> w.a, operand |-> w.b]
    [] w.op = "Concatenate" -> [op |-> w.op, destination |-> w.a, operands |-> RegisterSpan(w.b, w.c)]

DecodedControl(w) ==
  CASE w.op = "Jump" -> [op |-> w.op, skip |-> w.sbx]
    [] w.op \in Comparisons -> [op |-> w.op, lhs |-> RegisterOrConstant(w.b), rhs |-> RegisterOrConstant(w.c),
                                invert |-> w.a = 0]
    [] w.op = "Test" -> [op |-> w.op, value |-> w.a, invert |-> w.c = 0]
    [] w.op = "TestSet" -> [op |-> w.op, destination |-> w.a, value |-> w.b, invert |-> w.c = 0]
    [] w.op = "Call" -> [op |-> w.op, function |-> w.a, arguments |-> w.b, return_values |-> w.c]
    [] w.op = "TailCall" -> [op |-> w.op, function |-> w.a, arguments |-> w.b]
    [] w.op = "Return" -> [op |-> w.op, start |-> w.a, count |-> w.b]
    [] w.op \in {"IterateNumericForLoop", "InitNumericForLoop"} ->
         [op |-> w.op, control |-> RegisterSpan(w.a, w.a + 3), skip |-> w.sbx]
    [] w.op = "IterateGenericForLoop" ->
         [op |-> w.op, generator |-> w.a, state |-> w.a + 1, internal_control |-> w.a + 2,
          vars |-> RegisterSpan(w.a + 3, w.a + 2 + w.c)]

DecodedTable(w) ==
  CASE w.op = "SetList" -> [op |-> w.op, table |-> w.a, number_of_elements |-> w.b, block_number |-> w.c]
    [] w.op = "Close" -> [op |-> w.op, start |-> w.a]
    [] w.op = "Closure" -> [op |-> w.op, destination |-> w.a, function |-> w.bx]
    [] w.op = "VarArg" -> [op |-> w.op, start |-> w.a, count |-> w.b]

Decoded(w) ==
  CASE w.op \in {"SetList", "Close", "Closure", "VarArg"} -> DecodedTable(w)
    [] w.op \in Arithmetic \cup UnaryCodes \cup {"Concatenate"} -> DecodedOperator(w)
    [] w.op \in Comparisons \cup {"Jump", "Test", "TestSet", "Call", "TailCall", "Return",
                                  "IterateNumericForLoop", "InitNumericForLoop", "IterateGenericForLoop"} ->
         DecodedControl(w)
    [] OTHER -> DecodedData(w)

(* A SETLIST whose block number is zero keeps it in the word behind, which is *)
(* no instruction. A word that only holds data is [op |-> "Word", value].     *)
IsExtended(words, p) == words[p].op = "SetList" /\ words[p].c = 0

IsData(words, p) == p > 1 /\ IsExtended(words, p - 1)

CodeParses(words) ==
  \A p \in DOMAIN words :
    IF IsData(words, p) THEN words[p].op = "Word" /\ words[p].value > 0
    ELSE /\ words[p].op # "Word"
         /\ Decodable(words[p])
         /\ IsExtended(words, p) => p < Len(words)

ParseCode(words) ==
  [p \in DOMAIN words |->
     IF IsData(words, p) THEN [op |-> "ExtraWord"]
     ELSE IF IsExtended(words, p) THEN [Decoded(words[p]) EXCEPT !.block_number = words[p + 1].value]
     ELSE Decoded(words[p])]
=============================================================================
