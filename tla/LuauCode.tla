------------------------------ MODULE LuauCode ------------------------------
(* Instructions of Luau: the words of a prototype and what the deserializer   *)
(* makes of them (src/luau-lifter/src/instruction.rs and op_code.rs). A word  *)
(* is a record of its operation and operands, [op, a, b, c], [op, a, d] or    *)
(* [op, e]; the names of operations are those of OpCode, less their prefix.   *)
(* A prototype is a record                                                    *)
(*   [version, code, constants, children, upvalues, parameters, stack,        *)
(*    compiled]                                                               *)
(* where `children' holds the number of upvalues of every closure it makes    *)
(* and `compiled' tells whether a compiler could have written the code.       *)
EXTENDS Integers, Sequences, FiniteSets, SequencesExt

Unconditional == {"JUMP", "JUMPBACK", "JUMPX"}
Falsy == {"JUMPIF", "JUMPIFNOT"}
Compared == {"JUMPIFEQ", "JUMPIFLE", "JUMPIFLT", "JUMPIFNOTEQ", "JUMPIFNOTLE", "JUMPIFNOTLT"}
ComparedToConstant == {"JUMPXEQKNIL", "JUMPXEQKB", "JUMPXEQKN", "JUMPXEQKS"}
GenericPrepare == {"FORGPREP", "FORGPREP_NEXT", "FORGPREP_INEXT"}
Binary == {"ADD", "SUB", "MUL", "DIV", "MOD", "POW", "IDIV", "AND", "OR"}
BinaryConstant == {"ADDK", "SUBK", "MULK", "DIVK", "MODK", "POWK", "IDIVK", "ANDK", "ORK"}
ReversedConstant == {"SUBRK", "DIVRK"}
Unary == {"NOT", "MINUS", "LENGTH"}
FastCalls == {"FASTCALL", "FASTCALL1", "FASTCALL2", "FASTCALL2K", "FASTCALL3"}
Calls == {"CALL", "CALLFB"}

HasAux(op) ==
  op \in {"GETGLOBAL", "SETGLOBAL", "GETIMPORT", "GETTABLEKS", "SETTABLEKS", "NAMECALL", "NEWTABLE", "SETLIST",
          "FORGLOOP", "FASTCALL2", "FASTCALL2K", "FASTCALL3", "LOADKX", "GETUDATAKS", "SETUDATAKS",
          "NAMECALLUDATA", "NEWCLASSMEMBER", "CALLFB", "CMPPROTO"} \cup Compared \cup ComparedToConstant

WordLen(op) == IF HasAux(op) THEN 2 ELSE 1

MinimumVersion(op) ==
  CASE op \in {"SUBRK", "DIVRK"} -> 5
    [] op = "FASTCALL3" -> 6
    [] op \in {"GETUDATAKS", "SETUDATAKS", "NAMECALLUDATA"} -> 9
    [] op = "NEWCLASSMEMBER" -> 10
    [] op \in {"CALLFB", "CMPPROTO"} -> 11
    [] OTHER -> 4

(* An auxiliary word belongs to the instruction before it; a placeholder      *)
(* takes its position, so that jumps count words.                             *)
Nop == [op |-> "NOP"]

AuxiliaryWords(words) ==
  LET after[p \in 0..Len(words)] ==
        p > 0 /\ ~(p > 1 /\ after[p - 1]) /\ words[p].op # "Word" /\ HasAux(words[p].op)
  IN {p \in DOMAIN words : p > 1 /\ after[p - 1]}

InstructionsParse(words, version) ==
  \A p \in DOMAIN words \ AuxiliaryWords(words) :
    /\ words[p].op # "Word"
    /\ MinimumVersion(words[p].op) <= version
    /\ HasAux(words[p].op) => p < Len(words)

ParseInstructions(words) ==
  [p \in DOMAIN words |->
     IF p \in AuxiliaryWords(words) THEN Nop
     ELSE IF HasAux(words[p].op) THEN words[p] @@ [aux |-> words[p + 1].value]
     ELSE words[p]]

InstructionAt(code, pc) == code[pc + 1]
=============================================================================
