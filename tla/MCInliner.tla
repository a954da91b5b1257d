----------------------------- MODULE MCInliner -----------------------------
(* Blocks of three statements, in SSA form.  Any of them may compute,      *)
(* load, compare or call, and read the locals before it: x or u, which     *)
(* enter the block, and the results of earlier statements.  The edge, back *)
(* to the block, passes the parameter x a local.                           *)
EXTENDS Inliner

CONSTANTS x, u, v1, v2, v3, v4

Reads(locals, least, most) == UNION {[1 .. n -> locals] : n \in least .. most}

Apply(op, name, reads) ==
    [i \in DOMAIN reads |-> [op |-> "read", name |-> reads[i], arity |-> 0]]
    \o <<[op |-> op, name |-> name, arity |-> Len(reads)]>>

Assigns(local, op, name, reads) == [dst |-> <<local>>, code |-> Apply(op, name, reads)]
Calls(name, reads) == [dst |-> <<>>, code |-> Apply("call", name, reads)]

(* What may be done with at most so many of the locals.                    *)
StatementsFor(local, ops, name, locals, most) ==
    {Assigns(local, op, name, reads) : op \in ops, reads \in Reads(locals, 0, most)}
    \cup {Calls(name, reads) : reads \in Reads(locals, 0, most)}

Comparisons(local, name, locals) ==
    {Assigns(local, "compare", name, reads) : reads \in Reads(locals, 2, 2)}

(* Every local is read behind the statement that defines it.               *)
InSSA(case, inputs) ==
    LET defined(i) == inputs \cup UNION {Written(case.block[j]) : j \in 1 .. i - 1}
    IN  /\ \A i \in DOMAIN case.block : ReadsIn(case.block[i].code) \subseteq defined(i)
        /\ \A i \in DOMAIN case.arguments :
                ReadsIn(case.arguments[i].code) \subseteq defined(Len(case.block) + 1)

Read(local) == <<[op |-> "read", name |-> local, arity |-> 0]>>

Passed(locals) == {<<>>} \cup {<<[param |-> x, code |-> Read(l)]>> : l \in locals}

Registers == [l \in Locals |-> CHOOSE n \in 1 .. 6 : <<x, u, v1, v2, v3, v4>>[n] = l]

CasesOver(input, groups, upvalues) ==
    {case \in
        {[block |-> <<s1, s2, s3>>, arguments |-> a, group |-> g, upvalues |-> upvalues] :
            s1 \in StatementsFor(v1, {"pure", "call"}, "f1", {input}, 1),
            s2 \in StatementsFor(v2, {"load", "call"}, "f2", {input, v1}, 1),
            s3 \in StatementsFor(v3, {"pure", "call"}, "f3", {input, v1, v2}, 2)
                   \cup Comparisons(v3, "f3", {v1, v2}),
            a \in Passed({v1, v3}), g \in groups} :
        InSSA(case, {input})}

(* The version v2 of a register is another one of x, or is captured.       *)
Reassigned == [Registers EXCEPT ![v2] = Registers[x]]

MCCases == CasesOver(x, {Registers, Reassigned}, {}) \cup CasesOver(u, {Registers}, {u, v2})

(* A register that is read by a call and assigned again, with a call       *)
(* before and one after that.                                              *)
ReassignedCases ==
    {[block |-> <<Assigns(v1, "call", "f1", <<>>), Calls("f2", <<x>>),
                  Assigns(v2, op, "f3", <<>>), Calls("f4", <<v1, v2, v2>>)>>,
      arguments |-> <<>>, group |-> Reassigned, upvalues |-> {}] : op \in {"pure", "load"}}

(* A call that may assign an upvalue, which is an argument of the next one. *)
CapturedCases ==
    {[block |-> <<Assigns(v1, "call", "f1", <<>>),
                  [dst |-> <<v2>>, code |-> Read(u)], Calls("f2", <<v2, v1>>)>>,
      arguments |-> <<>>, group |-> Registers, upvalues |-> {u}]}

(* The loop "while true do f2(x, v4); v4 = not x; x = u end": the edge     *)
(* back to the block passes u to the parameter x, and v1 to v4.            *)
LoopCases ==
    {[block |-> <<Calls("f2", <<x, v4>>), Assigns(v1, "pure", "f1", <<x>>)>>,
      arguments |-> <<[param |-> x, code |-> Read(u)], [param |-> v4, code |-> Read(v1)]>>,
      group |-> [Registers EXCEPT ![v1] = Registers[v4]], upvalues |-> {}]}
=============================================================================
