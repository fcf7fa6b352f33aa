------------------------------ MODULE CallGraph ------------------------------
(***************************************************************************)
(* cycleBreakingCallLines of internal/asm2plan9s/encoder.go.               *)
(*                                                                         *)
(* Converted functions are NOSPLIT and call each other natively, so the Go *)
(* linker rejects a cycle of direct calls.  The encoder walks the native   *)
(* call graph depth first and returns the source lines it will emit as     *)
(* calls through a register: the edges that meet a function still being    *)
(* visited.  This module is that walk, one action per iteration of its     *)
(* loops, over every input program of the constant Programs.               *)
(***************************************************************************)
EXTENDS Integers, Sequences, Digraphs

CONSTANTS
    N,          \* number of functions; funcs[f - 1] of the code is function f
    Programs    \* the inputs: each gives every function its instructions

NoSymbol == -1  \* the operands are not exactly one symbol
External == 0   \* a symbol that names no function of the input

Func == 1 .. N
NativeTransfer == {"call", "bl", "b", "jmp"}
Opcode == NativeTransfer \cup {"other"}
Inst == [opcode : Opcode, symbol : {NoSymbol, External} \cup Func]
Line == Func \X (Nat \ {0})     \* an instruction's source line, by its place
Edge == [to : Func, line : Line]

ASSUME NAssumption == N \in Nat
ASSUME ProgramsAssumption == \A p \in Programs : p \in [Func -> Seq(Inst)]

VARIABLES
    body,       \* the program being converted; no step changes it
    pc,         \* "scan" builds adjacency, "walk" visits, "done" has returned
    scanned,    \* <<function, instruction>> the scanning loop is at
    adjacency,  \* the native edges of each function, in instruction order
    state,      \* unvisited, visiting or visited
    stack,      \* the activations of visit, the innermost last
    cursor,     \* per function: the edge its activation of visit looks at next
    root,       \* the function the outer loop is at
    indirect    \* the lines to emit as indirect calls

vars == <<body, pc, scanned, adjacency, state, stack, cursor, root, indirect>>

-----------------------------------------------------------------------------
(* The edges of the graph. *)

\* A call, or a jump that leaves the function, with one symbolic operand.
DirectNativeEdge(inst) ==
    /\ inst.opcode \in NativeTransfer
    /\ inst.symbol # NoSymbol

\* Wrong variant: a symbol missing from byName is not passed over.
IsEdgeAnySymbol(inst) == DirectNativeEdge(inst)

\* The edge is kept when the symbol is one of the functions (byName).
IsEdge(inst) == DirectNativeEdge(inst) /\ inst.symbol \in Func

EdgeAt(f, i) == [to |-> body[f][i].symbol, line |-> <<f, i>>]

Top == stack[Len(stack)]
AtEdge == Len(stack) > 0 /\ cursor[Top] <= Len(adjacency[Top])
TopEdge == adjacency[Top][cursor[Top]]

\* Wrong variant: the edge is looked at again after its visit.
AdvanceForgotten == UNCHANGED cursor

\* The range loop of visit goes on to the next edge.
Advance == cursor' = [cursor EXCEPT ![Top] = @ + 1]

-----------------------------------------------------------------------------
Init ==
    /\ body \in Programs
    /\ pc = "scan"
    /\ scanned = <<1, 1>>
    /\ adjacency = [f \in Func |-> <<>>]
    /\ state = [f \in Func |-> "unvisited"]
    /\ stack = <<>>
    /\ cursor = [f \in Func |-> 1]
    /\ root = 1
    /\ indirect = {}

\* One instruction of the scanning loop: an edge is appended, anything else
\* is passed over.
ScanInst ==
    /\ pc = "scan"
    /\ scanned[1] <= N
    /\ LET f == scanned[1]
           i == scanned[2]
       IN  /\ i <= Len(body[f])
           /\ scanned' = <<f, i + 1>>
           /\ adjacency' = IF IsEdge(body[f][i])
                           THEN [adjacency EXCEPT ![f] = Append(@, EdgeAt(f, i))]
                           ELSE adjacency
    /\ UNCHANGED <<body, pc, state, stack, cursor, root, indirect>>

ScanNextFunction ==
    /\ pc = "scan"
    /\ scanned[1] <= N
    /\ scanned[2] > Len(body[scanned[1]])
    /\ scanned' = <<scanned[1] + 1, 1>>
    /\ UNCHANGED <<body, pc, adjacency, state, stack, cursor, root, indirect>>

\* The early return when there is no edge at all; otherwise the walk begins.
ScanEnd ==
    /\ pc = "scan"
    /\ scanned[1] > N
    /\ pc' = IF \A f \in Func : adjacency[f] = <<>> THEN "done" ELSE "walk"
    /\ UNCHANGED <<body, scanned, adjacency, state, stack, cursor, root, indirect>>

\* Wrong variant: a function counts as visited as soon as it is entered.
EnterVisited(f) ==
    /\ state' = [state EXCEPT ![f] = "visited"]
    /\ stack' = Append(stack, f)

\* visit(f) begins, called by the outer loop or for an edge.
Enter(f) ==
    /\ state' = [state EXCEPT ![f] = "visiting"]
    /\ stack' = Append(stack, f)

VisitRoot ==
    /\ pc = "walk"
    /\ stack = <<>>
    /\ root <= N
    /\ state[root] = "unvisited"
    /\ Enter(root)
    /\ UNCHANGED <<body, pc, scanned, adjacency, cursor, root, indirect>>

SkipRoot ==
    /\ pc = "walk"
    /\ stack = <<>>
    /\ root <= N
    /\ state[root] # "unvisited"
    /\ root' = root + 1
    /\ UNCHANGED <<body, pc, scanned, adjacency, state, stack, cursor, indirect>>

Descend ==
    /\ pc = "walk"
    /\ AtEdge
    /\ state[TopEdge.to] = "unvisited"
    /\ Advance
    /\ Enter(TopEdge.to)
    /\ UNCHANGED <<body, pc, scanned, adjacency, root, indirect>>

BackEdge ==
    /\ pc = "walk"
    /\ AtEdge
    /\ state[TopEdge.to] = "visiting"
    /\ Advance
    /\ indirect' = indirect \cup {TopEdge.line}
    /\ UNCHANGED <<body, pc, scanned, adjacency, state, stack, root>>

\* Wrong variant: every edge to a function met before becomes indirect.
CrossEdgeCut ==
    /\ pc = "walk"
    /\ AtEdge
    /\ state[TopEdge.to] = "visited"
    /\ Advance
    /\ indirect' = indirect \cup {TopEdge.line}
    /\ UNCHANGED <<body, pc, scanned, adjacency, state, stack, root>>

\* A tree of the walk that has already been left: the edge stays direct.
CrossEdge ==
    /\ pc = "walk"
    /\ AtEdge
    /\ state[TopEdge.to] = "visited"
    /\ Advance
    /\ UNCHANGED <<body, pc, scanned, adjacency, state, stack, root, indirect>>

Leave ==
    /\ pc = "walk"
    /\ Len(stack) > 0
    /\ cursor[Top] > Len(adjacency[Top])
    /\ state' = [state EXCEPT ![Top] = "visited"]
    /\ stack' = SubSeq(stack, 1, Len(stack) - 1)
    /\ UNCHANGED <<body, pc, scanned, adjacency, cursor, root, indirect>>

Return ==
    /\ pc = "walk"
    /\ stack = <<>>
    /\ root > N
    /\ pc' = "done"
    /\ UNCHANGED <<body, scanned, adjacency, state, stack, cursor, root, indirect>>

\* The caller goes on with the result; nothing here changes any more.
Finished == pc = "done" /\ UNCHANGED vars

Next ==
    \/ ScanInst \/ ScanNextFunction \/ ScanEnd
    \/ VisitRoot \/ SkipRoot
    \/ Descend \/ BackEdge \/ CrossEdge
    \/ Leave \/ Return
    \/ Finished

\* The walk is sequential code that nothing interrupts: it keeps running.
Spec == Init /\ [][Next]_vars /\ WF_vars(Next)

-----------------------------------------------------------------------------
TypeOK ==
    /\ body \in [Func -> Seq(Inst)]
    /\ pc \in {"scan", "walk", "done"}
    /\ scanned \in (1 .. N + 1) \X (Nat \ {0})
    /\ adjacency \in [Func -> Seq(Edge)]
    /\ state \in [Func -> {"unvisited", "visiting", "visited"}]
    /\ stack \in Seq(Func)
    /\ cursor \in [Func -> Nat \ {0}]
    /\ root \in 1 .. N + 1
    /\ indirect \in SUBSET Line

\* The calls and tail jumps of the program that stay single native CALL/JMP
\* instructions when the lines of the set are made indirect.
DirectCalls(lines) ==
    {e \in Func \X Func :
        \E i \in DOMAIN body[e[1]] :
            /\ IsEdge(body[e[1]][i])
            /\ body[e[1]][i].symbol = e[2]
            /\ <<e[1], i>> \notin lines}

\* "Every directed cycle contains a back edge, so the remaining direct graph
\* is acyclic": no chain of direct native calls of the converted program
\* comes back to where it started, or cmd/link would reject it.
NoDirectCycle == pc = "done" => Acyclic(Func, DirectCalls(indirect))

\* The walk removes no more than it must: each line it makes indirect is one
\* native edge of the program, and direct calls alone lead from its target
\* back to its own function, so making that line direct again would close a
\* cycle.
EveryIndirectionNeeded ==
    pc = "done" =>
        \A l \in indirect :
            /\ IsEdge(body[l[1]][l[2]])
            /\ Reaches(Func, DirectCalls(indirect), body[l[1]][l[2]].symbol, l[1])

\* cycleBreakingCallLines returns on every program, recursive ones included.
Termination == <>(pc = "done")

=============================================================================
