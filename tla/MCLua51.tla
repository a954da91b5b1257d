------------------------------ MODULE MCLua51 ------------------------------
(* Families of small chunks: every instruction with operands inside and       *)
(* outside of the stack and the constants, chains of open results, branches   *)
(* and loops, and closures with what they capture.                            *)
EXTENDS Lua51Meaning

ABC(op, a, b, c) == [op |-> op, a |-> a, b |-> b, c |-> c]
ABx(op, a, bx) == [op |-> op, a |-> a, bx |-> bx]
AsBx(op, a, sbx) == [op |-> op, a |-> a, sbx |-> sbx]
Word(value) == [op |-> "Word", value |-> value]

Prototype(code, closures, upvalues, parameters, stack, vararg, locals) ==
  [code |-> code, constants |-> <<"string", "number">>, closures |-> closures, upvalues |-> upvalues,
   parameters |-> parameters, stack |-> stack, vararg |-> vararg, locals |-> locals]

K(k) == ByteLimit + k
ReturnAll == ABC("Return", 0, 4, 0)
ReturnNone == ABC("Return", 0, 1, 0)

DataWords ==
  {ABC("Move", 0, b, 0) : b \in {2, 3, ByteLimit}} \cup
  {ABx("LoadConstant", 1, k) : k \in {1, 2}} \cup
  {ABC("LoadBoolean", 1, b, 0) : b \in {0, 1, 2}} \cup
  {ABC("LoadNil", 0, b, 0) : b \in {0, 1, 3}} \cup
  {ABC(op, 1, b, 0) : op \in {"GetUpvalue", "SetUpvalue"}, b \in {0, 1}} \cup
  {ABx(op, 1, k) : op \in {"GetGlobal", "SetGlobal"}, k \in {0, 1}} \cup
  {ABC("GetIndex", 0, 1, c) : c \in {2, K(1), K(2)}} \cup
  {ABC("SetIndex", 0, b, c) : b \in {1, K(0)}, c \in {2, K(1), K(2)}} \cup
  {ABC("NewTable", 1, 0, 0), ABC("NewTable", 3, 0, 0), ABC("Close", 1, 0, 0), ABC("Close", 3, 0, 0)} \cup
  {ABC("PrepMethodCall", a, 0, K(0)) : a \in {0, 1, 2}} \cup
  {ABC("PrepMethodCall", 0, 1, c) : c \in {1, 2}} \cup
  {ABC("Sub", 0, b, c) : b \in {1, K(1)}, c \in {0, 3, K(1)}} \cup
  {ABC("Not", 0, 1, 0), ABC("Length", 0, 3, 0), ABC("Minus", 3, 0, 0)} \cup
  {ABC("Concatenate", 0, b, c) : b \in {0, 1}, c \in {1, 2, 3}} \cup
  {ABC("SetList", 0, b, c) : b \in {1, 2, 3}, c \in {1, 2}} \cup
  {ABC("VarArg", 0, b, 0) : b \in {1, 2, 4, 5}} \cup
  {ABC("Call", 0, b, c) : b \in {1, 2, 3, 4}, c \in {1, 2, 4, 5}}

DataChunks ==
  {Prototype(<<w, v, ReturnAll>>, <<>>, 1, 1, 3, vararg, <<<<0, 3>>, <<1, 2>>>>) :
     w \in DataWords, v \in {ABC("Move", 1, 0, 0), ABC("Call", 2, 1, 2)}, vararg \in {3}} \cup
  {Prototype(<<w, ReturnAll>>, <<>>, 1, parameters, 3, vararg, <<>>) :
     w \in {ABC("VarArg", 0, 2, 0), ABC("Move", 0, 2, 0)}, parameters \in {2, 3}, vararg \in {0, 1, 2, 3, 6, 7, 8}} \cup
  {Prototype(<<ABC("NewTable", 0, 0, 0), ABC("SetList", 0, 2, 0), Word(w), ReturnAll>>, <<>>, 0, 2, 3, 0, <<>>) : w \in {0, 2}} \cup
  {Prototype(<<ReturnAll>>, <<>>, 0, 1, 3, 0, locals) :
     locals \in {<<<<0, 1>>, <<0, 1>>, <<0, 1>>, <<0, 1>>>>, <<<<0, 1>>, <<0, 0>>, <<0, 1>>>>, <<<<0, 2>>>>, <<<<1, 1>>, <<0, 1>>>>}}

OpenWords ==
  {ABC("Call", 1, 1, 0), ABC("Call", 0, 0, 0), ABC("Call", 0, 0, 1), ABC("Call", 0, 2, 2),
   ABC("VarArg", 2, 0, 0), ABC("VarArg", 0, 2, 0), ABC("SetList", 0, 0, 1), ABC("Return", 0, 0, 0),
   ABC("TailCall", 1, 0, 0), ABC("Move", 1, 0, 0), AsBx("Jump", 0, 0), ABC("Return", 1, 2, 0)}

OpenChunks ==
  {Prototype(<<a, b, c, ReturnNone>>, <<>>, 0, 1, 3, 2, <<>>) : a, b, c \in OpenWords}

BranchWords ==
  {ABC("LessThan", 0, 1, 0), ABC("Equal", 1, 0, K(1)), ABC("Test", 1, 0, 0), ABC("TestSet", 0, 1, 1),
   ABC("TestSet", 0, 1, 0), AsBx("Jump", 0, 1), AsBx("Jump", 0, -2), AsBx("Jump", 0, 2),
   ABC("LoadBoolean", 1, 1, 1), ABC("LoadBoolean", 0, 0, 0), ABC("Call", 0, 2, 2), ABC("TailCall", 0, 2, 0)}

BranchChunks ==
  {Prototype(<<a, b, c, d, ReturnAll>>, <<>>, 0, 2, 3, 0, <<>>) :
     a \in BranchWords \ {AsBx("Jump", 0, -2)}, b, c \in BranchWords,
     d \in {ABC("Test", 1, 0, 0), ABC("TestSet", 0, 1, 1), AsBx("Jump", 0, -2), ABC("LoadBoolean", 1, 1, 1),
            ABC("Call", 0, 2, 2)}}

LoopBody == {ABC("Call", 3, 2, 1), ABC("Move", 4, 3, 0), ABC("Close", 3, 0, 0)}
LoopChunks ==
  {Prototype(<<AsBx("InitNumericForLoop", a, 1), x, AsBx("IterateNumericForLoop", a, back), ABC("Return", 0, 6, 0)>>,
             <<>>, 0, 5, 5, 0, <<>>) : a \in {0, 1, 2}, x \in LoopBody, back \in {-2, -1}} \cup
  {Prototype(<<AsBx("Jump", 0, 1), x, ABC("IterateGenericForLoop", a, 0, c), AsBx("Jump", 0, -3), ABC("Return", 0, 6, 0)>>,
             <<>>, 0, 3, 5, 0, <<>>) : a \in {0, 1}, c \in {0, 1, 2}, x \in LoopBody}

Leaf(upvalues) ==
  Prototype(<<ABC("GetUpvalue", 0, 0, 0), ReturnNone>>, <<>>, upvalues, 0, 3, 0, <<>>)
Outer == Prototype(<<ABx("Closure", 0, 0), ABC("GetUpvalue", 0, 0, 0), ABx("Closure", 0, 0), ABC("Move", 0, 2, 0), ReturnNone>>,
                   <<Leaf(1)>>, 1, 0, 3, 0, <<>>)
CaptureWords ==
  {ABx("Closure", 0, 0), ABx("Closure", 1, 1), ABC("Move", 0, 1, 0), ABC("GetUpvalue", 0, 0, 0),
   ABC("Call", 0, 1, 1), AsBx("Jump", 0, 1)}
ClosureChunks ==
  {Prototype(<<a, b, c, d, ReturnAll>>, <<Leaf(1), Outer>>, upvalues, 1, 3, 0, <<>>) :
     a, b, c, d \in CaptureWords, upvalues \in {0, 1}}

(* Code that does not end with a return, by every kind of instruction that    *)
(* validation lets stand last.                                                *)
LastWords ==
  {ABC("LoadBoolean", 1, b, c) : b, c \in {0, 1}} \cup
  {ABC("Move", 0, 1, 0), ABC("Close", 1, 0, 0), ABC("TailCall", 0, 2, 0), ABC("Call", 0, 2, 0), ABC("VarArg", 0, 2, 0),
   ABC("SetList", 1, 1, 1), ABC("SetList", 1, 1, 0), ABx("Closure", 0, 0), ABC("GetUpvalue", 0, 0, 0),
   ABC("Test", 1, 0, 0), ABC("TestSet", 0, 1, 0), ABC("Equal", 1, 0, K(1)), ABC("IterateGenericForLoop", 0, 0, 1),
   AsBx("Jump", 0, 0), AsBx("Jump", 0, -2), AsBx("InitNumericForLoop", 0, 0), AsBx("IterateNumericForLoop", 0, -2)}
EndChunks ==
  {Prototype(<<a, b, w>>, <<Leaf(1)>>, 1, 2, 4, 2, <<>>) :
     a \in {AsBx("Jump", 0, 1), AsBx("Jump", 0, 2), ABC("Test", 1, 0, 0), ABC("LoadBoolean", 0, 1, 1),
            ABC("Move", 0, 1, 0), ABx("Closure", 0, 0)},
     b \in {ABC("LoadBoolean", 0, 0, 0), ABC("Move", 0, 1, 0), ABC("Return", 0, 1, 0), AsBx("Jump", 0, 1),
            ABx("Closure", 0, 0)},
     w \in LastWords}

MCChunks == EndChunks \cup DataChunks \cup OpenChunks \cup BranchChunks \cup LoopChunks \cup ClosureChunks

MCOracles == {<<FALSE>>, <<TRUE>>} \cup {<<a, b, c>> : a, b, c \in BOOLEAN}
=============================================================================
