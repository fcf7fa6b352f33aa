----------------------------- MODULE MCCallGraph -----------------------------
(***************************************************************************)
(* CallGraph on every call structure of three functions that make at most  *)
(* two native calls each, and on bodies that mix calls with instructions   *)
(* the graph must leave out.                                               *)
(***************************************************************************)
EXTENDS CallGraph, SequencesExt

MCN == 3

Call(g) == [opcode |-> "call", symbol |-> g]
Calls == {Call(g) : g \in Func}

\* A conditional jump to a function, an external call, a call of a register.
NoEdges == {[opcode |-> "other", symbol |-> 2],
            [opcode |-> "call", symbol |-> External],
            [opcode |-> "call", symbol |-> NoSymbol]}

MCPrograms ==
    [Func -> BoundedSeq(Calls, 2)]
        \cup {<<a, b, c>> : a \in BoundedSeq(Calls \cup NoEdges, 2),
                            b \in BoundedSeq({Call(1), Call(3)} \cup NoEdges, 2),
                            c \in BoundedSeq(Calls, 1)}

=============================================================================
