------------------------------- MODULE MCLuau -------------------------------
(* Families of small prototypes: what a compiler writes (every instruction    *)
(* between two calls, chains of open results, branches, loops, closures and   *)
(* classes) and what it would not.                                            *)
EXTENDS LuauMeaning

A(op, a, b, c) == [op |-> op, a |-> a, b |-> b, c |-> c]
D(op, a, d) == [op |-> op, a |-> a, d |-> d]
E(op, e) == [op |-> op, e |-> e]
Aux(value) == [op |-> "Word", value |-> value]

(* String, number, nil, boolean, closure, template, class.                    *)
Constants ==
  <<<<"string">>, <<"number">>, <<"nil">>, <<"boolean">>, <<"closure", 0>>,
    <<"table", <<<<0, 1>>, <<0, -1>>, <<1, 2>>, <<1, 3>>>>>>, <<"class">>>>

Prototype(code, version, compiled) ==
  [version |-> version, code |-> code, constants |-> Constants, children |-> <<2, 0>>, upvalues |-> 1,
   parameters |-> 8, stack |-> 8, compiled |-> compiled]

Compile(code) == Prototype(code, 11, TRUE)
Craft(code) == Prototype(code, 11, FALSE)

Call(a, b, c) == A("CALL", a, b, c)
ReturnAll == A("RETURN", 0, 5, 0)
ReturnNone == A("RETURN", 0, 1, 0)
Probe == Call(3, 2, 1)

Import(a, length) == <<D("GETIMPORT", a, 0), Aux([path |-> <<0, 0, 0>>, length |-> length])>>

DataCode ==
  {<<A("MOVE", 0, 2, 0)>>, <<A("LOADNIL", 0, 0, 0)>>, <<A("LOADB", 0, 1, 0)>>, <<D("LOADN", 0, 7)>>,
   <<A("GETUPVAL", 1, 0, 0)>>, <<A("SETUPVAL", 1, 0, 0)>>, <<A("CLOSEUPVALS", 1, 0, 0)>>, <<A("NOP", 0, 0, 0)>>,
   <<D("DUPTABLE", 0, 5)>>, <<A("NEWTABLE", 1, 0, 0), Aux(0)>>, <<A("PREPVARARGS", 0, 0, 0)>>} \cup
  {<<D("LOADK", 1, k)>> : k \in 0..3} \cup
  {<<D("LOADKX", 1, 0), Aux(k)>> : k \in {0, 6}} \cup
  {Import(1, length) : length \in 1..3} \cup
  {<<A(op, 1, 0, 0), Aux(0)>> : op \in {"GETGLOBAL", "SETGLOBAL"}} \cup
  {<<A(op, 0, 1, c)>> : op \in {"GETTABLE", "SETTABLE", "GETTABLEN", "SETTABLEN"}, c \in {0, 2}} \cup
  {<<A(op, 0, 1, 0), Aux(0)>> : op \in {"GETTABLEKS", "SETTABLEKS", "GETUDATAKS", "SETUDATAKS"}} \cup
  {<<A(op, 0, 1, 2)>> : op \in {"SUB", "AND", "OR", "IDIV", "SUBK", "ORK", "MODK", "DIVRK", "SUBRK"}} \cup
  {<<A(op, 0, 1, 0)>> : op \in Unary} \cup
  {<<A("CONCAT", 0, b, c)>> : b \in {0, 1}, c \in {2, 3}} \cup
  {<<A("GETVARARGS", 1, b, 0)>> : b \in 1..3} \cup
  {<<Call(1, b, c)>> : b \in 1..3, c \in 1..3} \cup {<<A("CALLFB", 0, 2, 2), Aux(0)>>} \cup
  {<<A("NAMECALL", 4, b, 0), Aux(0), Call(4, n, c), A("MOVE", 0, IF c = 1 THEN 0 ELSE c + 2, 0)>> :
     b \in {1, 4}, n \in {2, 3}, c \in {1, 2, 3}} \cup
  {<<A("NAMECALLUDATA", 4, 0, 0), Aux(0), A("CALLFB", 4, 2, 2), Aux(0), A("MOVE", 0, 4, 0)>>} \cup
  {<<A("SETLIST", 0, 1, c), Aux(1)>> : c \in {2, 3}} \cup
  {<<A("FASTCALL1", 1, 1, 2)>> \o Import(2, 1) \o <<Call(2, 2, 2)>>,
   <<A("FASTCALL2", 1, 1, 3), Aux(2)>> \o Import(2, 1) \o <<Call(2, 3, 2)>>}

DataFamily == {Compile(<<Probe>> \o d \o <<ReturnAll>>) : d \in DataCode}

Producers ==
  {<<Call(2, 1, 0)>>, <<A("GETVARARGS", 2, 0, 0)>>, <<A("NAMECALL", 2, 0, 0), Aux(0), Call(2, 2, 0)>>,
   <<Call(3, 1, 0), Call(2, 0, 0)>>, <<A("CALLFB", 2, 1, 0), Aux(0)>>}
Between == {<<>>, <<A("FASTCALL", 1, 0, 2)>> \o Import(1, 1)}
Consumers ==
  {<<Call(1, 0, 1)>>, <<Call(1, 0, 3)>>, <<A("SETLIST", 0, 1, 0), Aux(1)>>, <<A("RETURN", 1, 0, 0)>>, <<Call(1, 0, 0), A("RETURN", 0, 0, 0)>>}
(* The object of a method call is taken before its open arguments.            *)
OpenFamily ==
  {Compile(p \o b \o c \o <<A("RETURN", 0, 3, 0)>>) : p \in Producers, b \in Between, c \in Consumers} \cup
  {Compile(<<A("GETVARARGS", 2, 0, 0), A("NAMECALL", 0, 1, 0), Aux(0), Call(0, 0, c), A("RETURN", 2, 3, 0)>>) :
     c \in 1..2}

Jumps(d) ==
  {<<D(op, 0, d)>> : op \in Falsy} \cup {<<D(op, 0, d + 1), Aux(1)>> : op \in Compared} \cup
  {<<D(op, 0, d + 1), Aux([value |-> value, not |-> not])>> :
     op \in ComparedToConstant, value \in {1}, not \in BOOLEAN}
BranchFamily ==
  {Compile(j \o <<Probe, D("JUMP", 0, 1), Call(1, 1, 2), ReturnAll>>) : j \in Jumps(2)} \cup
  {Compile(<<Probe>> \o j \o <<ReturnAll>>) : j \in Jumps(-2) \cup Jumps(0)} \cup
  {Compile(j \o <<Call(0, 1, 2), D("JUMPBACK", 0, -2 - Len(j)), ReturnAll>>) : j \in Jumps(2)} \cup
  {Compile(j \o <<A("LOADB", 0, 0, 1), A("LOADB", 0, 1, 0), ReturnAll>>) : j \in Jumps(1)} \cup
  {Compile(<<E("JUMPX", 1), ReturnAll, Probe, E("JUMPX", -3)>>),
   Compile(<<D("CMPPROTO", 0, 3), Aux(0), Probe, D("JUMP", 0, 1), Call(1, 1, 2), ReturnAll>>)}

Numeric(body) == <<D("FORNPREP", 0, Len(body) + 1)>> \o body \o <<D("FORNLOOP", 0, -1 - Len(body))>>
NumericAt3(body) == <<D("FORNPREP", 3, Len(body) + 1)>> \o body \o <<D("FORNLOOP", 3, -1 - Len(body))>>
Generic(op, body, n) ==
  <<D(op, 0, Len(body))>> \o body \o <<D("FORGLOOP", 0, -1 - Len(body)), Aux(n)>>
LoopFamily ==
  {Compile(Numeric(body) \o <<ReturnAll>>) :
     body \in {<<>>, <<Probe>>, <<D("JUMPIF", 3, 1), Probe>>, <<D("JUMPIF", 3, 2), Probe>>, NumericAt3(<<>>),
               NumericAt3(<<Call(2, 1, 1)>>), <<Probe>> \o NumericAt3(<<D("JUMPIFNOT", 5, 1)>>)}} \cup
  {Compile(<<D("JUMPIFNOT", 0, 4), D("FORNPREP", 0, 4), Probe, D("FORNLOOP", 0, -2), D("JUMP", 0, 1), Probe, ReturnAll>>)} \cup
  {Compile(Generic(op, body, n) \o <<ReturnAll>>) :
     op \in GenericPrepare, body \in {<<>>, <<Probe>>, <<D("JUMPIF", 3, 1), Probe>>}, n \in {1, 2}}

Capture(kind, source) == A("CAPTURE", kind, source, 0)
Captures == {<<Capture(0, 3), Capture(1, 4)>>, <<Capture(2, 0), Capture(1, 0)>>}
Closures(a) == {<<D(op, a, IF op = "NEWCLOSURE" THEN 0 ELSE 4)>> \o c : op \in {"NEWCLOSURE", "DUPCLOSURE"}, c \in Captures}
Class(a) == <<D("LOADKX", a, 0), Aux(6)>>
Member(a, c) == <<A("NEWCLASSMEMBER", a, 0, c), Aux(0)>>
ClosureFamily ==
  {Compile(c \o <<Probe>> \o d \o <<ReturnAll>>) : c \in Closures(0), d \in Closures(1)} \cup
  {Compile(Class(0) \o c \o Member(0, 1) \o d \o Member(0, 1) \o <<Probe, A("RETURN", 0, 2, 0)>>) : c, d \in Closures(1)} \cup
  {Compile(Class(0) \o c \o Member(0, 2) \o Class(1) \o d \o Member(1, 2) \o <<A("RETURN", 0, 3, 0)>>) : c, d \in Closures(2)} \cup
  {Compile(Class(0) \o <<D("JUMP", 0, 0)>> \o c \o Member(0, 1) \o <<A("RETURN", 0, 2, 0)>>) : c \in Closures(1)}

CraftedCode ==
  {<<D("FORNPREP", 0, 1), D("FORNLOOP", 0, 0), ReturnNone>>, <<D("FORNPREP", 0, 0), ReturnNone>>,
   <<D("FORGPREP", 0, 0), ReturnNone>>, <<D("FORGPREP", 0, 5), ReturnNone>>,
   <<D("JUMP", 0, 3), ReturnNone>>, <<D("JUMP", 0, -3), ReturnNone>>, <<ReturnNone, D("JUMPIF", 0, 0)>>,
   <<A("NAMECALL", 0, 1, 0), Aux(0), ReturnNone>>, <<A("NAMECALL", 0, 1, 0), Aux(0)>>,
   <<A("NAMECALL", 0, 1, 0), Aux(0), Call(1, 2, 1), ReturnNone>>, <<A("NAMECALL", 0, 1, 0)>>,
   <<D("NEWCLOSURE", 0, 0), Capture(0, 1), ReturnNone>>, <<D("NEWCLOSURE", 0, 0), Capture(0, 1), Capture(3, 1), ReturnNone>>,
   <<D("NEWCLOSURE", 0, 0), Capture(0, 1), Capture(2, 1), ReturnNone>>, <<D("NEWCLOSURE", 0, 2), ReturnNone>>,
   <<D("DUPCLOSURE", 0, 0), ReturnNone>>, <<D("DUPTABLE", 0, 0), ReturnNone>>, <<D("DUPTABLE", 0, 9), ReturnNone>>,
   <<D("LOADK", 0, 6), ReturnNone>>, <<D("LOADKX", 0, 0), Aux(9), ReturnNone>>, <<A("GETGLOBAL", 0, 0, 0), Aux(1), ReturnNone>>,
   <<A("GETUPVAL", 0, 1, 0), ReturnNone>>, <<A("CONCAT", 0, 1, 1), ReturnNone>>, <<Capture(0, 0), ReturnNone>>,
   <<A("RETURN", 0, 0, 0)>>, <<Call(0, 0, 1), ReturnNone>>, <<A("SETLIST", 0, 1, 0), Aux(0), ReturnNone>>,
   <<Call(0, 1, 0), D("JUMP", 0, 0), A("RETURN", 0, 0, 0)>>, <<A("LOADB", 0, 0, 2), Probe, Probe, ReturnNone>>,
   <<A("LOADB", 0, 0, 1), Probe, ReturnNone>>, <<Aux(0), ReturnNone>>, <<>>} \cup
  {Class(0) \o c \o between \o Member(a, 1) \o <<ReturnNone>> :
     c \in {<<>>, <<D("NEWCLOSURE", 1, 1)>>}, between \in {<<>>, <<A("MOVE", 1, 2, 0)>>}, a \in {0, 1}}
(* Code that does not end with a return.                                      *)
UnreturnedCode ==
  {<<Probe>>, <<A("LOADNIL", 0, 0, 0), D("JUMPIF", 0, -1)>>, <<D("JUMP", 0, 1), ReturnNone>>,
   <<D("JUMPIFEQ", 0, 1), Aux(1)>>} \cup {Class(0) \o c \o Member(0, 1) : c \in Closures(1)}
UnreturnedFamily == {Craft(code) : code \in UnreturnedCode}

CraftedFamily ==
  {Craft(code) : code \in CraftedCode} \cup
  {Prototype(<<A("SUBRK", 0, 1, 2), ReturnNone>>, version, FALSE) : version \in {4, 5}} \cup
  {Prototype(Class(0) \o Member(0, 1) \o <<ReturnNone>>, version, FALSE) : version \in {9, 10}}

MCPrototypes == DataFamily \cup OpenFamily \cup UnreturnedFamily \cup BranchFamily \cup LoopFamily \cup ClosureFamily \cup CraftedFamily

MCOracles == {<<FALSE>>, <<TRUE>>} \cup {<<a, b, c>> : a, b, c \in BOOLEAN}
=============================================================================
