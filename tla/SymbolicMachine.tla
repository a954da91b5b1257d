-------------------------- MODULE SymbolicMachine --------------------------
(* Executions over terms. Neither the virtual machines that run the bytecode  *)
(* nor the meaning of statements is code of the repository. Values are terms  *)
(* over the parameters, upvalues and results of the execution; an execution   *)
(* is the sequence of its events, what they are applied to and the truth of   *)
(* every condition, which a sequence of bits decides in advance. It stops     *)
(* when the bits are used up.                                                 *)
EXTENDS Integers, Sequences, FiniteSets, SequencesExt

CONSTANT Fuel           \* instructions, or blocks, after which it is cut

Nil == <<"nil">>

(* registers, upvalues, events, the bits that are left and the open results.  *)
BeginWith(reg, upvalues, bits) ==
  [reg |-> reg, up |-> [u \in 0..(upvalues - 1) |-> <<"upvalue", u>>],
   events |-> <<>>, bits |-> bits, open |-> <<>>, from |-> 0, ended |-> FALSE, fuel |-> Fuel]

Emit(m, event) == [m EXCEPT !.events = Append(@, event)]
Result(m, k) == <<"result", Len(m.events), k>>
Put(m, r, v) == [m EXCEPT !.reg[r] = v]
Stop(m) == [m EXCEPT !.ended = TRUE]

(* An event whose result goes to a register. *)
Yield(m, r, event) == LET n == Emit(m, event) IN Put(n, r, Result(n, 1))

(* A condition takes the next bit; without one the execution stops.           *)
Decide(m, term) ==
  IF m.bits = <<>> THEN Stop(m)
  ELSE [Emit(m, <<"test", term, Head(m.bits)>>) EXCEPT !.bits = Tail(@)]

Decided(m) == m.events[Len(m.events)][3]

PutResults(m, first, count) ==
  [m EXCEPT !.reg = [r \in DOMAIN @ |->
     IF r \in first..(first + count - 1) THEN Result(m, r - first + 1) ELSE @[r]]]

Values(m, first, count) == [i \in 1..count |-> m.reg[first + i - 1]]

(* The registers from `first' on that an instruction with count b takes: all  *)
(* below the open results and those results, if b is zero.                    *)
Taken(m, first, count, b) ==
  IF b # 0 THEN Values(m, first, count) ELSE Values(m, first, m.from - first) \o m.open

RECURSIVE Chained(_)
Chained(values) ==
  IF Len(values) = 1 THEN values[1]
  ELSE <<"binary", "Concat", values[1], Chained(Tail(values))>>

(* Two executions that may have been cut agree as far as both go.             *)
SameEvents(a, b) ==
  IF a.ended /\ b.ended THEN a.events = b.events
  ELSE IsPrefix(a.events, b.events) \/ IsPrefix(b.events, a.events)
=============================================================================
