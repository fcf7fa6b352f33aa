--------------------------- MODULE CallGraphProofs ---------------------------
(***************************************************************************)
(* Proofs about CallGraph for every number of functions and every set of   *)
(* programs.  The inductive invariant has three layers: what the scanning  *)
(* loop has put into adjacency, what the stack of visits looks like, and   *)
(* what holds of the edges the walk has already looked at.                 *)
(***************************************************************************)
EXTENDS CallGraph, TLAPS

(***************************************************************************)
(* Reachability and acyclicity as sets of nodes.                           *)
(***************************************************************************)

\* A node reaches itself.
LEMMA ReachesSelf ==
    ASSUME NEW Node, NEW R, NEW a
    PROVE  Reaches(Node, R, a, a)
BY DEF Reaches

\* A path can be prolonged by one edge.
LEMMA ReachesStep ==
    ASSUME NEW Node, NEW R, NEW a, NEW b \in Node, NEW c \in Node,
           Reaches(Node, R, a, b), <<b, c>> \in R
    PROVE  Reaches(Node, R, a, c)
BY DEF Reaches, Closed

\* A path stays a path when edges are added.
LEMMA ReachesMonotone ==
    ASSUME NEW Node, NEW R, NEW Q, R \subseteq Q, NEW a, NEW b,
           Reaches(Node, R, a, b)
    PROVE  Reaches(Node, Q, a, b)
BY DEF Reaches, Closed

\* An acyclic relation stays acyclic when edges are removed.
LEMMA AcyclicMonotone ==
    ASSUME NEW Node, NEW R, NEW Q, Q \subseteq R, Acyclic(Node, R)
    PROVE  Acyclic(Node, Q)
BY DEF Acyclic

\* A node whose successors are old nodes, and which no old node points to,
\* closes no cycle.
LEMMA AcyclicExtend ==
    ASSUME NEW Node, NEW R, NEW f, f \notin Node, Acyclic(Node, R),
           \A a \in Node : <<a, f>> \notin R,
           <<f, f>> \notin R
    PROVE  Acyclic(Node \cup {f}, R)
<1> SUFFICES ASSUME NEW S \in SUBSET (Node \cup {f}), S # {}
             PROVE  \E a \in S : \A b \in S : <<a, b>> \notin R
    BY DEF Acyclic
<1>1. CASE S \subseteq {f}
    BY <1>1
<1>2. CASE ~ (S \subseteq {f})
    <2>1. PICK a \in S \ {f} : \A b \in S \ {f} : <<a, b>> \notin R
        BY <1>2 DEF Acyclic
    <2>2. <<a, f>> \notin R
        BY <2>1
    <2> QED BY <2>1, <2>2
<1> QED BY <1>1, <1>2

\* The reading as paths: there is no closed walk of n >= 1 nodes along an
\* acyclic relation.
THEOREM AcyclicHasNoClosedWalk ==
    ASSUME NEW Node, NEW R, Acyclic(Node, R),
           NEW n \in Nat \ {0}, NEW p \in [1 .. n -> Node],
           \A i \in 1 .. n - 1 : <<p[i], p[i + 1]>> \in R
    PROVE  <<p[n], p[1]>> \notin R
<1> SUFFICES ASSUME <<p[n], p[1]>> \in R PROVE FALSE
    OBVIOUS
<1> DEFINE S == {p[i] : i \in 1 .. n}
<1>1. S \in SUBSET Node /\ S # {}
    OBVIOUS
<1>2. PICK a \in S : \A b \in S : <<a, b>> \notin R
    BY <1>1 DEF Acyclic
<1>3. PICK i \in 1 .. n : a = p[i]
    BY <1>2
<1>4. CASE i = n
    <2>1. p[1] \in S
        OBVIOUS
    <2> QED BY <1>2, <1>3, <1>4, <2>1
<1>5. CASE i # n
    <2>1. i \in 1 .. n - 1 /\ i + 1 \in 1 .. n
        BY <1>3, <1>5
    <2>2. p[i + 1] \in S
        BY <2>1
    <2> QED BY <1>2, <1>3, <2>1, <2>2
<1> QED BY <1>4, <1>5

(***************************************************************************)
(* The inductive invariant.                                                *)
(***************************************************************************)

\* The scanning loop is past instruction i of function f.
Past(f, i) == f < scanned[1] \/ (f = scanned[1] /\ i < scanned[2])

\* Before the walk nothing has been visited.
Untouched ==
    /\ state = [f \in Func |-> "unvisited"]
    /\ stack = <<>>
    /\ cursor = [f \in Func |-> 1]
    /\ root = 1
    /\ indirect = {}

\* adjacency holds one entry per native edge of the scanned instructions.
ScanInv ==
    /\ pc # "scan" => scanned[1] > N
    /\ \A f \in Func : \A k \in DOMAIN adjacency[f] :
          \E i \in DOMAIN body[f] :
             Past(f, i) /\ IsEdge(body[f][i]) /\ adjacency[f][k] = EdgeAt(f, i)
    /\ \A f \in Func : \A i \in DOMAIN body[f] :
          Past(f, i) /\ IsEdge(body[f][i])
             => \E k \in DOMAIN adjacency[f] : adjacency[f][k] = EdgeAt(f, i)
    /\ \A f \in Func : \A j, k \in DOMAIN adjacency[f] :
          adjacency[f][j].line = adjacency[f][k].line => j = k

\* The functions being visited are those on the stack, each once.
StackInv ==
    /\ \A f \in Func :
          state[f] = "visiting" <=> \E j \in DOMAIN stack : stack[j] = f
    /\ \A i, j \in DOMAIN stack : stack[i] = stack[j] => i = j
    /\ \A f \in Func : cursor[f] <= Len(adjacency[f]) + 1
    /\ \A f \in Func : state[f] = "unvisited" => cursor[f] = 1
    /\ \A f \in Func : state[f] = "visited" => cursor[f] = Len(adjacency[f]) + 1

\* The edges that stay direct, and those of them the walk has looked at.
DirectAt(f, k, g) == adjacency[f][k].to = g /\ adjacency[f][k].line \notin indirect
Direct ==
    {e \in Func \X Func : \E k \in DOMAIN adjacency[e[1]] : DirectAt(e[1], k, e[2])}
Seen ==
    {e \in Func \X Func : \E k \in DOMAIN adjacency[e[1]] :
        k < cursor[e[1]] /\ DirectAt(e[1], k, e[2])}

Visited == {f \in Func : state[f] = "visited"}

\* A direct edge the walk has looked at leads to a function it has left, or is
\* the edge along which the next function of the stack was entered.
EdgeInv ==
    \A f \in Func : \A k \in DOMAIN adjacency[f] :
        k < cursor[f] /\ adjacency[f][k].line \notin indirect =>
            \/ state[adjacency[f][k].to] = "visited"
            \/ \E j \in DOMAIN stack :
                  j + 1 \in DOMAIN stack /\ stack[j] = f /\ stack[j + 1] = adjacency[f][k].to

\* The stack is a path of direct edges.
PathInv ==
    \A i, j \in DOMAIN stack : i <= j => Reaches(Func, Seen, stack[i], stack[j])

\* Every line made indirect closes a cycle of direct edges.
IndirectInv ==
    \A l \in indirect : \E f \in Func : \E k \in DOMAIN adjacency[f] :
        /\ k < cursor[f]
        /\ adjacency[f][k].line = l
        /\ Reaches(Func, Seen, adjacency[f][k].to, f)

DoneInv ==
    /\ \A f \in Func : f < root => state[f] # "unvisited"
    /\ pc = "done" =>
          \/ root > N /\ stack = <<>>
          \/ indirect = {} /\ \A f \in Func : adjacency[f] = <<>>

IInv ==
    /\ TypeOK
    /\ pc = "scan" => Untouched
    /\ ScanInv
    /\ StackInv
    /\ EdgeInv
    /\ PathInv
    /\ IndirectInv
    /\ DoneInv
    /\ Acyclic(Visited, Direct)

(***************************************************************************)
(* Type correctness.                                                       *)
(***************************************************************************)

\* The initial state has the right types.
LEMMA InitTypeOK == Init => TypeOK
<1> SUFFICES ASSUME Init PROVE TypeOK
    OBVIOUS
<1>1. body \in [Func -> Seq(Inst)]
    BY ProgramsAssumption DEF Init
<1>2. scanned \in (1 .. N + 1) \X (Nat \ {0}) /\ root \in 1 .. N + 1
    BY NAssumption DEF Init
<1>3. adjacency \in [Func -> Seq(Edge)] /\ stack \in Seq(Func)
    BY DEF Init
<1> QED BY <1>1, <1>2, <1>3 DEF Init, TypeOK

\* An edge entered into adjacency has the right type.
LEMMA EdgeAtType ==
    ASSUME TypeOK, NEW f \in Func, NEW i \in DOMAIN body[f], IsEdge(body[f][i])
    PROVE  EdgeAt(f, i) \in Edge
<1>1. i \in Nat \ {0}
    BY DEF TypeOK
<1>2. body[f][i].symbol \in Func
    BY DEF IsEdge
<1> QED BY <1>1, <1>2 DEF EdgeAt, Edge, Line

\* The edge under the cursor has the right type.
LEMMA TopEdgeType ==
    ASSUME TypeOK, AtEdge
    PROVE  /\ Top \in Func
           /\ cursor[Top] \in DOMAIN adjacency[Top]
           /\ TopEdge \in Edge /\ TopEdge.to \in Func /\ TopEdge.line \in Line
<1>1. Top \in Func
    BY DEF TypeOK, AtEdge, Top
<1>2. adjacency[Top] \in Seq(Edge) /\ cursor[Top] \in Nat \ {0}
    BY <1>1 DEF TypeOK
<1>3. cursor[Top] \in DOMAIN adjacency[Top]
    BY <1>2 DEF AtEdge
<1>4. TopEdge \in Edge
    BY <1>2, <1>3 DEF TopEdge
<1>5. TopEdge.to \in Func /\ TopEdge.line \in Line
    BY <1>4 DEF Edge
<1> QED BY <1>1, <1>3, <1>4, <1>5

\* Entries of adjacency have the right type.
LEMMA AdjacencyType ==
    ASSUME TypeOK, NEW f \in Func, NEW k \in DOMAIN adjacency[f]
    PROVE  /\ adjacency[f] \in Seq(Edge) /\ Len(adjacency[f]) \in Nat
           /\ k \in Nat /\ k <= Len(adjacency[f])
           /\ cursor[f] \in Nat
           /\ adjacency[f][k].to \in Func
<1>1. adjacency[f] \in Seq(Edge) /\ cursor[f] \in Nat
    BY DEF TypeOK
<1>2. k \in Nat /\ k <= Len(adjacency[f]) /\ Len(adjacency[f]) \in Nat
    BY <1>1
<1>3. adjacency[f][k] \in Edge
    BY <1>1
<1> QED BY <1>1, <1>2, <1>3 DEF Edge

\* Every step keeps the types.
LEMMA NextTypeOK == TypeOK /\ [Next]_vars => TypeOK'
<1> SUFFICES ASSUME TypeOK, [Next]_vars PROVE TypeOK'
    OBVIOUS
<1>1. CASE ScanInst
    <2> DEFINE f == scanned[1]
               i == scanned[2]
    <2>1. f \in Func /\ i \in DOMAIN body[f] /\ i \in Nat \ {0}
        BY <1>1, NAssumption DEF TypeOK, ScanInst, Func
    <2>2. scanned' \in (1 .. N + 1) \X (Nat \ {0})
        BY <1>1, <2>1, NAssumption DEF ScanInst, TypeOK
    <2>3. adjacency' \in [Func -> Seq(Edge)]
        <3>1. CASE IsEdge(body[f][i])
            <4>1. EdgeAt(f, i) \in Edge
                BY <2>1, <3>1, EdgeAtType
            <4>2. Append(adjacency[f], EdgeAt(f, i)) \in Seq(Edge)
                BY <2>1, <4>1 DEF TypeOK
            <4> QED BY <1>1, <3>1, <4>2 DEF ScanInst, TypeOK
        <3>2. CASE ~ IsEdge(body[f][i])
            BY <1>1, <3>2 DEF ScanInst, TypeOK
        <3> QED BY <3>1, <3>2
    <2> QED BY <1>1, <2>2, <2>3 DEF ScanInst, TypeOK
<1>2. CASE ScanNextFunction
    <2>1. scanned' \in (1 .. N + 1) \X (Nat \ {0})
        BY <1>2, NAssumption DEF ScanNextFunction, TypeOK
    <2> QED BY <1>2, <2>1 DEF ScanNextFunction, TypeOK
<1>3. CASE ScanEnd
    BY <1>3 DEF ScanEnd, TypeOK
<1>4. CASE VisitRoot
    <2>1. root \in Func
        BY <1>4, NAssumption DEF VisitRoot, TypeOK, Func
    <2> QED BY <1>4, <2>1 DEF VisitRoot, Enter, TypeOK
<1>5. CASE SkipRoot
    BY <1>5, NAssumption DEF SkipRoot, TypeOK
<1>6. CASE Descend
    <2>1. Top \in Func /\ TopEdge.to \in Func
        BY <1>6, TopEdgeType DEF Descend
    <2> QED BY <1>6, <2>1, SMTT(40) DEF Descend, Enter, Advance, TypeOK
<1>7. CASE BackEdge
    <2>1. Top \in Func /\ TopEdge.line \in Line
        BY <1>7, TopEdgeType DEF BackEdge
    <2> QED BY <1>7, <2>1 DEF BackEdge, Advance, TypeOK
<1>8. CASE CrossEdge
    <2>1. Top \in Func
        BY <1>8, TopEdgeType DEF CrossEdge
    <2> QED BY <1>8, <2>1 DEF CrossEdge, Advance, TypeOK
<1>9. CASE Leave
    <2>1. stack' \in Seq(Func)
        BY <1>9 DEF Leave, TypeOK
    <2> QED BY <1>9, <2>1 DEF Leave, TypeOK
<1>10. CASE Return
    BY <1>10 DEF Return, TypeOK
<1>11. CASE UNCHANGED vars
    BY <1>11 DEF vars, TypeOK
<1> QED BY <1>1, <1>2, <1>3, <1>4, <1>5, <1>6, <1>7, <1>8, <1>9, <1>10, <1>11
        DEF Next, Finished

\* Every state of the walk is well typed, whatever the program.
THEOREM TypeCorrect == Spec => []TypeOK
<1> QED BY InitTypeOK, NextTypeOK, PTL DEF Spec

(***************************************************************************)
(* The scanning loop.                                                      *)
(***************************************************************************)

\* The initial state satisfies the invariant.
LEMMA InitIInv == Init => IInv
<1> SUFFICES ASSUME Init PROVE IInv
    OBVIOUS
<1>1. TypeOK
    BY InitTypeOK
<1>2. Untouched /\ pc = "scan" /\ scanned = <<1, 1>>
    BY DEF Init, Untouched
<1>3. \A f \in Func : adjacency[f] = <<>> /\ f \in Nat /\ f >= 1
    BY NAssumption DEF Init, Func
<1>4. ScanInv
    <2>1. \A f \in Func : \A i \in DOMAIN body[f] : ~ Past(f, i)
        BY <1>1, <1>2, <1>3 DEF Past, TypeOK
    <2> QED BY <1>2, <1>3, <2>1 DEF ScanInv
<1>5. StackInv /\ EdgeInv /\ PathInv
    BY <1>2, <1>3 DEF Untouched, StackInv, EdgeInv, PathInv
<1>6. IndirectInv /\ DoneInv
    BY <1>2, <1>3 DEF Untouched, IndirectInv, DoneInv
<1>7. Acyclic(Visited, Direct)
    BY <1>2 DEF Untouched, Visited, Acyclic
<1> QED BY <1>1, <1>2, <1>4, <1>5, <1>6, <1>7 DEF IInv

\* After a step that leaves everything unvisited, the parts of the invariant
\* that speak of the walk hold whatever adjacency has become.
LEMMA UntouchedIInv ==
    ASSUME TypeOK', Untouched'
    PROVE  /\ StackInv' /\ EdgeInv' /\ PathInv' /\ IndirectInv'
           /\ Acyclic(Visited, Direct)'
           /\ \A f \in Func : f < root' => state'[f] # "unvisited"
<1>1. \A f \in Func : /\ state'[f] = "unvisited" /\ cursor'[f] = 1 /\ ~ (f < root')
                      /\ Len(adjacency'[f]) \in Nat
                      /\ \A k \in DOMAIN adjacency'[f] : ~ (k < cursor'[f])
    BY NAssumption DEF TypeOK, Untouched, Func
<1>2. StackInv' /\ EdgeInv' /\ PathInv'
    BY <1>1 DEF Untouched, StackInv, EdgeInv, PathInv
<1>3. IndirectInv' /\ Acyclic(Visited, Direct)'
    BY <1>1 DEF Untouched, IndirectInv, Acyclic, Visited
<1> QED BY <1>1, <1>2, <1>3

\* One instruction is scanned.
LEMMA ScanInstIInv ==
    ASSUME IInv, ScanInst, TypeOK'
    PROVE  IInv'
<1> DEFINE f == scanned[1]
           i == scanned[2]
<1>1. /\ TypeOK /\ ScanInv /\ Untouched /\ pc = "scan"
      /\ f \in Func /\ i \in DOMAIN body[f] /\ i \in Nat
      /\ scanned' = <<f, i + 1>>
    <2>1. TypeOK /\ ScanInv /\ Untouched /\ pc = "scan" /\ scanned' = <<f, i + 1>>
        BY DEF IInv, ScanInst
    <2>2. f \in Func /\ i \in Nat \ {0} /\ i <= Len(body[f])
        BY <2>1, NAssumption DEF ScanInst, TypeOK, Func
    <2>3. body[f] \in Seq(Inst)
        BY <2>1, <2>2 DEF TypeOK
    <2> QED BY <2>1, <2>2, <2>3
<1>2. Untouched' /\ pc' = "scan" /\ body' = body
    BY <1>1 DEF ScanInst, Untouched
<1>3. \A g \in Func : \A j \in DOMAIN body[g] :
          Past(g, j)' <=> Past(g, j) \/ (g = f /\ j = i)
    <2> SUFFICES ASSUME NEW g \in Func, NEW j \in DOMAIN body[g]
                 PROVE  Past(g, j)' <=> Past(g, j) \/ (g = f /\ j = i)
        OBVIOUS
    <2>1. body[g] \in Seq(Inst)
        BY <1>1 DEF TypeOK
    <2>2. g \in Nat /\ f \in Nat /\ j \in Nat
        BY <1>1, <2>1, NAssumption DEF Func
    <2> QED BY <1>1, <2>2 DEF Past
<1>4. ~ Past(f, i)
    BY <1>1, NAssumption DEF Past, Func
<1>5. ScanInv'
    <2>1. CASE ~ IsEdge(body[f][i])
        <3>1. adjacency' = adjacency
            BY <2>1 DEF ScanInst
        <3> QED BY <1>1, <1>2, <1>3, <2>1, <3>1 DEF ScanInv, EdgeAt, IsEdge, DirectNativeEdge
    <2>2. CASE IsEdge(body[f][i])
        <3> DEFINE n == Len(adjacency[f])
        <3>1. adjacency' = [adjacency EXCEPT ![f] = Append(@, EdgeAt(f, i))]
            BY <2>2 DEF ScanInst
        <3>2. \A g \in Func \ {f} : adjacency'[g] = adjacency[g]
            BY <1>1, <3>1 DEF TypeOK
        <3>3. /\ n \in Nat /\ DOMAIN adjacency[f] = 1 .. n
              /\ DOMAIN adjacency'[f] = 1 .. n + 1
              /\ adjacency'[f][n + 1] = EdgeAt(f, i)
              /\ \A k \in 1 .. n : adjacency'[f][k] = adjacency[f][k]
            <4>1. EdgeAt(f, i) \in Edge /\ adjacency[f] \in Seq(Edge)
                BY <1>1, <2>2, EdgeAtType DEF TypeOK
            <4>2. adjacency'[f] = Append(adjacency[f], EdgeAt(f, i))
                BY <1>1, <3>1 DEF TypeOK
            <4> QED BY <4>1, <4>2
        <3>4. \A g \in Func : \A j \in DOMAIN body[g] : EdgeAt(g, j)' = EdgeAt(g, j)
            BY <1>2 DEF EdgeAt
        <3>5. \A g \in Func : \A k \in DOMAIN adjacency'[g] :
                  \E j \in DOMAIN body[g] :
                      /\ Past(g, j)' /\ IsEdge(body[g][j])
                      /\ adjacency'[g][k] = EdgeAt(g, j)
            <4> SUFFICES ASSUME NEW g \in Func, NEW k \in DOMAIN adjacency'[g]
                         PROVE  \E j \in DOMAIN body[g] :
                                   /\ Past(g, j)' /\ IsEdge(body[g][j])
                                   /\ adjacency'[g][k] = EdgeAt(g, j)
                OBVIOUS
            <4>1. CASE g = f /\ k = n + 1
                BY <1>1, <1>3, <2>2, <3>3, <4>1
            <4>2. CASE ~ (g = f /\ k = n + 1)
                <5>1. k \in DOMAIN adjacency[g] /\ adjacency'[g][k] = adjacency[g][k]
                    BY <3>2, <3>3, <4>2, SMTT(40)
                <5> QED BY <1>1, <1>3, <5>1 DEF ScanInv
            <4> QED BY <4>1, <4>2
        <3>6. \A g \in Func : \A j \in DOMAIN body[g] :
                  Past(g, j)' /\ IsEdge(body[g][j])
                      => \E k \in DOMAIN adjacency'[g] : adjacency'[g][k] = EdgeAt(g, j)
            <4> SUFFICES ASSUME NEW g \in Func, NEW j \in DOMAIN body[g],
                                Past(g, j)', IsEdge(body[g][j])
                         PROVE  \E k \in DOMAIN adjacency'[g] : adjacency'[g][k] = EdgeAt(g, j)
                OBVIOUS
            <4>1. CASE g = f /\ j = i
                BY <3>3, <4>1
            <4>2. CASE ~ (g = f /\ j = i)
                <5>1. PICK k \in DOMAIN adjacency[g] : adjacency[g][k] = EdgeAt(g, j)
                    BY <1>1, <1>3, <4>2 DEF ScanInv
                <5>2. k \in DOMAIN adjacency'[g] /\ adjacency'[g][k] = adjacency[g][k]
                    BY <3>2, <3>3
                <5> QED BY <5>1, <5>2
            <4> QED BY <4>1, <4>2
        <3>7. \A k \in 1 .. n : adjacency[f][k].line # <<f, i>>
            <4> SUFFICES ASSUME NEW k \in 1 .. n PROVE adjacency[f][k].line # <<f, i>>
                OBVIOUS
            <4>1. PICK j \in DOMAIN body[f] : Past(f, j) /\ adjacency[f][k] = EdgeAt(f, j)
                BY <1>1, <3>3 DEF ScanInv
            <4> QED BY <1>4, <4>1 DEF EdgeAt
        <3>8. \A g \in Func : \A j, k \in DOMAIN adjacency'[g] :
                  adjacency'[g][j].line = adjacency'[g][k].line => j = k
            <4> SUFFICES ASSUME NEW g \in Func,
                                NEW j \in DOMAIN adjacency'[g], NEW k \in DOMAIN adjacency'[g],
                                adjacency'[g][j].line = adjacency'[g][k].line
                         PROVE  j = k
                OBVIOUS
            <4>1. CASE g # f
                BY <1>1, <3>2, <4>1 DEF ScanInv
            <4>2. CASE g = f
                <5>1. EdgeAt(f, i).line = <<f, i>>
                    BY DEF EdgeAt
                <5>2. \A a, b \in 1 .. n : adjacency[f][a].line = adjacency[f][b].line => a = b
                    BY <1>1, <3>3 DEF ScanInv
                <5>3. /\ j \in 1 .. n + 1 /\ k \in 1 .. n + 1
                      /\ adjacency'[f][j].line = adjacency'[f][k].line
                    BY <3>3, <4>2
                <5>4. CASE j \in 1 .. n /\ k \in 1 .. n
                    BY <3>3, <5>2, <5>3, <5>4
                <5>5. CASE j = n + 1 /\ k # n + 1
                    <6>1. k \in 1 .. n
                        BY <3>3, <5>3, <5>5
                    <6> QED BY <3>3, <3>7, <5>1, <5>3, <5>5, <6>1
                <5>6. CASE k = n + 1 /\ j # n + 1
                    <6>1. j \in 1 .. n
                        BY <3>3, <5>3, <5>6
                    <6> QED BY <3>3, <3>7, <5>1, <5>3, <5>6, <6>1
                <5> QED BY <3>3, <5>3, <5>4, <5>5, <5>6, SMTT(40)
            <4> QED BY <4>1, <4>2
        <3> QED BY <1>2, <3>4, <3>5, <3>6, <3>8 DEF ScanInv, IsEdge, DirectNativeEdge
    <2> QED BY <2>1, <2>2
<1> QED BY <1>2, <1>5, UntouchedIInv DEF IInv, DoneInv

\* The scanning loop goes on to the next function.
LEMMA ScanNextFunctionIInv ==
    ASSUME IInv, ScanNextFunction, TypeOK'
    PROVE  IInv'
<1> DEFINE f == scanned[1]
<1>1. /\ TypeOK /\ ScanInv /\ Untouched /\ pc = "scan"
      /\ f \in Func /\ scanned[2] \in Nat /\ scanned[2] > Len(body[f])
      /\ scanned' = <<f + 1, 1>>
    <2>1. TypeOK /\ ScanInv /\ Untouched /\ pc = "scan" /\ scanned' = <<f + 1, 1>>
        BY DEF IInv, ScanNextFunction
    <2>2. f \in Func /\ scanned[2] \in Nat /\ scanned[2] > Len(body[f])
        BY <2>1, NAssumption DEF ScanNextFunction, TypeOK, Func
    <2> QED BY <2>1, <2>2
<1>2. Untouched' /\ pc' = "scan" /\ body' = body /\ adjacency' = adjacency
    BY <1>1 DEF ScanNextFunction, Untouched
<1>3. \A g \in Func : \A j \in DOMAIN body[g] : Past(g, j)' <=> Past(g, j)
    <2> SUFFICES ASSUME NEW g \in Func, NEW j \in DOMAIN body[g]
                 PROVE  Past(g, j)' <=> Past(g, j)
        OBVIOUS
    <2>1. body[g] \in Seq(Inst)
        BY <1>1 DEF TypeOK
    <2>2. /\ g \in Nat /\ f \in Nat /\ j \in Nat /\ j >= 1
          /\ Len(body[g]) \in Nat /\ j <= Len(body[g])
        BY <1>1, <2>1, NAssumption DEF Func
    <2>3. g = f => j < scanned[2]
        BY <1>1, <2>2
    <2> QED BY <1>1, <2>2, <2>3 DEF Past
<1>4. ScanInv'
    <2>1. \A g, j : EdgeAt(g, j)' = EdgeAt(g, j)
        BY <1>2 DEF EdgeAt
    <2>2. \A g \in Func : \A k \in DOMAIN adjacency[g] :
              \E j \in DOMAIN body[g] :
                  Past(g, j)' /\ IsEdge(body[g][j]) /\ adjacency[g][k] = EdgeAt(g, j)
        BY <1>1, <1>3 DEF ScanInv
    <2>3. \A g \in Func : \A j \in DOMAIN body[g] :
              Past(g, j)' /\ IsEdge(body[g][j])
                  => \E k \in DOMAIN adjacency[g] : adjacency[g][k] = EdgeAt(g, j)
        BY <1>1, <1>3 DEF ScanInv
    <2> QED BY <1>1, <1>2, <2>1, <2>2, <2>3 DEF ScanInv
<1> QED BY <1>2, <1>4, UntouchedIInv DEF IInv, DoneInv

\* The scanning loop ends.
LEMMA ScanEndIInv ==
    ASSUME IInv, ScanEnd, TypeOK'
    PROVE  IInv'
<1>1. /\ Untouched /\ ScanInv /\ scanned[1] > N /\ pc = "scan"
      /\ pc' = IF \A f \in Func : adjacency[f] = <<>> THEN "done" ELSE "walk"
    BY DEF IInv, ScanEnd
<1>2. Untouched' /\ indirect' = {} /\ adjacency' = adjacency
    BY <1>1 DEF ScanEnd, Untouched
<1>3. ScanInv'
    BY <1>1 DEF ScanEnd, ScanInv, EdgeAt, Past
<1>4. DoneInv'
    BY <1>1, <1>2, UntouchedIInv DEF DoneInv
<1> QED BY <1>1, <1>2, <1>3, <1>4, UntouchedIInv DEF IInv

(***************************************************************************)
(* The walk.                                                               *)
(***************************************************************************)

\* What the scan has built stays as it is during the walk.
LEMMA WalkScanInv ==
    ASSUME IInv, pc = "walk", pc' # "scan",
           UNCHANGED <<body, scanned, adjacency>>
    PROVE  ScanInv'
BY DEF IInv, ScanInv, Past, EdgeAt

\* The line of an edge is a line of the function it leaves.
LEMMA LineOfFunction ==
    ASSUME IInv, NEW f \in Func, NEW k \in DOMAIN adjacency[f]
    PROVE  adjacency[f][k].line[1] = f
<1>1. PICK i \in DOMAIN body[f] : adjacency[f][k] = EdgeAt(f, i)
    BY DEF IInv, ScanInv
<1> QED BY <1>1 DEF EdgeAt

\* No two edges share a line.
LEMMA LinesDiffer ==
    ASSUME IInv,
           NEW f \in Func, NEW j \in DOMAIN adjacency[f],
           NEW g \in Func, NEW k \in DOMAIN adjacency[g],
           adjacency[f][j].line = adjacency[g][k].line
    PROVE  f = g /\ j = k
<1>1. f = g
    BY LineOfFunction
<1> QED BY <1>1 DEF IInv, ScanInv

\* The edge under the cursor has not been made indirect yet.
LEMMA TopEdgeDirect ==
    ASSUME IInv, AtEdge
    PROVE  TopEdge.line \notin indirect
<1> SUFFICES ASSUME TopEdge.line \in indirect PROVE FALSE
    OBVIOUS
<1>1. TypeOK /\ Top \in Func /\ cursor[Top] \in DOMAIN adjacency[Top]
    BY TopEdgeType DEF IInv
<1>2. PICK f \in Func : \E k \in DOMAIN adjacency[f] :
          k < cursor[f] /\ adjacency[f][k].line = TopEdge.line
    BY DEF IInv, IndirectInv
<1>3. PICK k \in DOMAIN adjacency[f] :
          k < cursor[f] /\ adjacency[f][k].line = TopEdge.line
    BY <1>2
<1>4. f = Top /\ k = cursor[Top]
    BY <1>1, <1>3, LinesDiffer DEF TopEdge
<1>5. cursor[Top] \in Nat
    BY <1>1 DEF TypeOK
<1> QED BY <1>3, <1>4, <1>5

\* Looking at one more edge, whether it stays direct or not, only adds to the
\* direct edges looked at and only takes away from the direct edges.
LEMMA SeenGrows ==
    ASSUME IInv, AtEdge, Advance, adjacency' = adjacency,
           indirect' \in {indirect, indirect \cup {TopEdge.line}}
    PROVE  Seen \subseteq Seen' /\ Direct' \subseteq Direct
<1>1. TypeOK /\ Top \in Func /\ cursor[Top] \in DOMAIN adjacency[Top]
      /\ cursor[Top] \in Nat
    BY TopEdgeType DEF IInv, TypeOK
<1>2. Direct' \subseteq Direct
    BY DEF Direct, DirectAt
<1>3. Seen \subseteq Seen'
    <2> SUFFICES ASSUME NEW e \in Seen PROVE e \in Seen'
        OBVIOUS
    <2>1. e \in Func \X Func
        BY DEF Seen
    <2>2. PICK k \in DOMAIN adjacency[e[1]] : k < cursor[e[1]] /\ DirectAt(e[1], k, e[2])
        BY DEF Seen
    <2>3. adjacency[e[1]] \in Seq(Edge) /\ k \in Nat /\ cursor[e[1]] \in Nat
        BY <1>1, <2>1, <2>2 DEF TypeOK
    <2>4. k < cursor'[e[1]]
        BY <1>1, <2>1, <2>2, <2>3 DEF Advance, TypeOK
    <2>5. adjacency[e[1]][k].line # TopEdge.line
        <3> SUFFICES ASSUME adjacency[e[1]][k].line = TopEdge.line PROVE FALSE
            OBVIOUS
        <3>1. e[1] \in Func
            BY <2>1
        <3>2. e[1] = Top /\ k = cursor[Top]
            BY <1>1, <2>2, <3>1, LinesDiffer DEF TopEdge
        <3> QED BY <2>2, <2>3, <3>2
    <2> QED BY <2>1, <2>2, <2>4, <2>5 DEF Seen, DirectAt
<1> QED BY <1>2, <1>3

\* The outer loop enters a function.
LEMMA VisitRootIInv ==
    ASSUME IInv, VisitRoot, TypeOK'
    PROVE  IInv'
<1>1. /\ TypeOK /\ StackInv /\ EdgeInv /\ PathInv /\ IndirectInv /\ DoneInv
      /\ Acyclic(Visited, Direct)
      /\ pc = "walk" /\ pc' = "walk" /\ stack = <<>> /\ stack' = <<root>>
      /\ root \in Func /\ state[root] = "unvisited"
      /\ state' = [state EXCEPT ![root] = "visiting"]
      /\ UNCHANGED <<body, scanned, adjacency, cursor, root, indirect>>
    BY NAssumption, SMTT(40) DEF IInv, VisitRoot, Enter, TypeOK, Func
<1>2. ScanInv'
    BY <1>1, WalkScanInv
<1>3. StackInv'
    BY <1>1 DEF StackInv, TypeOK
<1>4. EdgeInv'
    BY <1>1 DEF EdgeInv, TypeOK
<1>5. Seen' = Seen /\ Direct' = Direct /\ Visited' = Visited
    BY <1>1 DEF Seen, Direct, DirectAt, Visited, TypeOK
<1>6. PathInv'
    BY <1>1, ReachesSelf DEF PathInv
<1>7. IndirectInv'
    BY <1>1, <1>5 DEF IndirectInv
<1>8. DoneInv'
    BY <1>1 DEF DoneInv, TypeOK
<1> QED BY <1>1, <1>2, <1>3, <1>4, <1>5, <1>6, <1>7, <1>8 DEF IInv

\* The outer loop passes over a function it has met.
LEMMA SkipRootIInv ==
    ASSUME IInv, SkipRoot, TypeOK'
    PROVE  IInv'
<1>1. /\ TypeOK /\ StackInv /\ EdgeInv /\ PathInv /\ IndirectInv /\ DoneInv
      /\ Acyclic(Visited, Direct)
      /\ pc = "walk" /\ pc' = "walk" /\ state[root] # "unvisited"
      /\ root' = root + 1 /\ root \in Nat
      /\ UNCHANGED <<body, scanned, adjacency, state, stack, cursor, indirect>>
    BY NAssumption DEF IInv, SkipRoot, TypeOK
<1>2. ScanInv'
    BY <1>1, WalkScanInv
<1>3. Seen' = Seen /\ Direct' = Direct /\ Visited' = Visited
    BY <1>1 DEF Seen, Direct, DirectAt, Visited
<1>4. StackInv' /\ EdgeInv' /\ PathInv' /\ IndirectInv'
    BY <1>1, <1>3 DEF StackInv, EdgeInv, PathInv, IndirectInv
<1>5. DoneInv'
    <2>1. \A f \in Func : f < root' => f < root \/ f = root
        BY <1>1, NAssumption DEF Func
    <2> QED BY <1>1, <2>1 DEF DoneInv
<1> QED BY <1>1, <1>2, <1>3, <1>4, <1>5 DEF IInv

\* An edge is looked at and stays direct, its target already left.
LEMMA CrossEdgeIInv ==
    ASSUME IInv, CrossEdge, TypeOK'
    PROVE  IInv'
<1> DEFINE t == Top
           c == cursor[t]
<1>1. /\ TypeOK /\ StackInv /\ EdgeInv /\ PathInv /\ IndirectInv /\ DoneInv
      /\ Acyclic(Visited, Direct)
      /\ pc = "walk" /\ pc' = "walk" /\ AtEdge /\ Advance
      /\ state[TopEdge.to] = "visited"
      /\ UNCHANGED <<body, scanned, adjacency, state, stack, root, indirect>>
    BY DEF IInv, CrossEdge
<1>2. t \in Func /\ c \in DOMAIN adjacency[t] /\ c \in Nat
      /\ cursor' = [cursor EXCEPT ![t] = c + 1]
    BY <1>1, TopEdgeType DEF Advance, TypeOK
<1>3. ScanInv'
    BY <1>1, WalkScanInv
<1>4. \A j \in DOMAIN stack : stack[j] \in Func
    BY <1>1 DEF TypeOK
<1>5. state[t] = "visiting"
    BY <1>1, <1>2, SMTT(40) DEF StackInv, AtEdge, Top, TypeOK
<1>6. StackInv'
    <2>1. c <= Len(adjacency[t])
        BY <1>1 DEF AtEdge
    <2>2. Len(adjacency[t]) \in Nat
        BY <1>1, <1>2 DEF TypeOK
    <2>3. \A f \in Func : cursor'[f] = IF f = t THEN c + 1 ELSE cursor[f]
        BY <1>1, <1>2 DEF TypeOK
    <2>4. \A f \in Func : cursor'[f] <= Len(adjacency[f]) + 1
        BY <1>1, <1>2, <2>1, <2>2, <2>3 DEF StackInv
    <2>5. \A f \in Func : state[f] # "visiting" => cursor'[f] = cursor[f]
        BY <1>5, <2>3
    <2> QED BY <1>1, <2>4, <2>5 DEF StackInv
<1>7. EdgeInv'
    <2> SUFFICES ASSUME NEW f \in Func, NEW k \in DOMAIN adjacency[f],
                        k < cursor'[f], adjacency[f][k].line \notin indirect
                 PROVE  \/ state[adjacency[f][k].to] = "visited"
                        \/ \E j \in DOMAIN stack :
                              /\ j + 1 \in DOMAIN stack
                              /\ stack[j] = f /\ stack[j + 1] = adjacency[f][k].to
        BY <1>1 DEF EdgeInv
    <2>1. CASE f = t /\ k = c
        BY <1>1, <2>1 DEF TopEdge
    <2>2. CASE ~ (f = t /\ k = c)
        <3>1. adjacency[f] \in Seq(Edge) /\ k \in Nat /\ cursor[f] \in Nat
            BY <1>1 DEF TypeOK
        <3>2. k < cursor[f]
            BY <1>1, <1>2, <2>2, <3>1 DEF TypeOK
        <3> QED BY <1>1, <3>2 DEF EdgeInv
    <2> QED BY <2>1, <2>2
<1>8. Seen \subseteq Seen' /\ Direct' \subseteq Direct
    BY <1>1, SeenGrows
<1>9. PathInv'
    BY <1>1, <1>4, <1>8, ReachesMonotone DEF PathInv
<1>10. IndirectInv'
    <2>1. \A f \in Func : \A k \in DOMAIN adjacency[f] : k < cursor[f] => k < cursor'[f]
        BY <1>1, <1>2 DEF TypeOK
    <2> QED BY <1>1, <1>8, <2>1, ReachesMonotone DEF IndirectInv
<1>11. DoneInv'
    BY <1>1 DEF DoneInv
<1>12. Acyclic(Visited, Direct)'
    BY <1>1, <1>8, AcyclicMonotone DEF Visited
<1> QED BY <1>1, <1>3, <1>6, <1>7, <1>9, <1>10, <1>11, <1>12 DEF IInv

\* An edge is looked at and made indirect: its target is on the stack, and the
\* stack is the path that closes the cycle.
LEMMA BackEdgeIInv ==
    ASSUME IInv, BackEdge, TypeOK'
    PROVE  IInv'
<1> DEFINE t == Top
           c == cursor[t]
<1>1. /\ TypeOK /\ StackInv /\ EdgeInv /\ PathInv /\ IndirectInv /\ DoneInv
      /\ Acyclic(Visited, Direct)
      /\ pc = "walk" /\ pc' = "walk" /\ AtEdge /\ Advance
      /\ state[TopEdge.to] = "visiting"
      /\ indirect' = indirect \cup {TopEdge.line}
      /\ UNCHANGED <<body, scanned, adjacency, state, stack, root>>
    BY DEF IInv, BackEdge
<1>2. t \in Func /\ c \in DOMAIN adjacency[t] /\ c \in Nat /\ TopEdge.to \in Func
      /\ cursor' = [cursor EXCEPT ![t] = c + 1]
    BY <1>1, TopEdgeType DEF Advance, TypeOK
<1>3. ScanInv'
    BY <1>1, WalkScanInv
<1>4. \A j \in DOMAIN stack : stack[j] \in Func
    BY <1>1 DEF TypeOK
<1>5. Len(stack) \in DOMAIN stack /\ stack[Len(stack)] = t
    BY <1>1 DEF AtEdge, Top, TypeOK
<1>6. StackInv'
    <2>1. c <= Len(adjacency[t])
        BY <1>1 DEF AtEdge
    <2>2. Len(adjacency[t]) \in Nat
        BY <1>1, <1>2 DEF TypeOK
    <2>3. \A f \in Func : cursor'[f] = IF f = t THEN c + 1 ELSE cursor[f]
        BY <1>1, <1>2 DEF TypeOK
    <2>4. \A f \in Func : cursor'[f] <= Len(adjacency[f]) + 1
        BY <1>1, <1>2, <2>1, <2>2, <2>3 DEF StackInv
    <2>5. \A f \in Func : state[f] # "visiting" => cursor'[f] = cursor[f]
        BY <1>1, <1>2, <1>5, <2>3 DEF StackInv
    <2> QED BY <1>1, <2>4, <2>5 DEF StackInv
<1>7. EdgeInv'
    <2> SUFFICES ASSUME NEW f \in Func, NEW k \in DOMAIN adjacency[f],
                        k < cursor'[f], adjacency[f][k].line \notin indirect'
                 PROVE  \/ state[adjacency[f][k].to] = "visited"
                        \/ \E j \in DOMAIN stack :
                              /\ j + 1 \in DOMAIN stack
                              /\ stack[j] = f /\ stack[j + 1] = adjacency[f][k].to
        BY <1>1 DEF EdgeInv
    <2>1. ~ (f = t /\ k = c)
        BY <1>1 DEF TopEdge
    <2>2. adjacency[f] \in Seq(Edge) /\ k \in Nat /\ cursor[f] \in Nat
        BY <1>1 DEF TypeOK
    <2>3. k < cursor[f]
        BY <1>1, <1>2, <2>1, <2>2 DEF TypeOK
    <2> QED BY <1>1, <2>3 DEF EdgeInv
<1>8. Seen \subseteq Seen' /\ Direct' \subseteq Direct
    BY <1>1, SeenGrows
<1>9. PathInv'
    BY <1>1, <1>4, <1>8, ReachesMonotone DEF PathInv
<1>10. \A f \in Func : \A k \in DOMAIN adjacency[f] : k < cursor[f] => k < cursor'[f]
    BY <1>1, <1>2 DEF TypeOK
<1>11. Reaches(Func, Seen', adjacency[t][c].to, t)
    <2>1. PICK j \in DOMAIN stack : stack[j] = TopEdge.to
        BY <1>1, <1>2 DEF StackInv
    <2>2. j <= Len(stack)
        BY <1>1 DEF TypeOK
    <2>3. Reaches(Func, Seen, TopEdge.to, t)
        BY <1>1, <1>5, <2>1, <2>2 DEF PathInv
    <2> QED BY <1>8, <2>3, ReachesMonotone DEF TopEdge
<1>12. IndirectInv'
    <2> SUFFICES ASSUME NEW l \in indirect'
                 PROVE  \E f \in Func : \E k \in DOMAIN adjacency[f] :
                           /\ k < cursor'[f] /\ adjacency[f][k].line = l
                           /\ Reaches(Func, Seen', adjacency[f][k].to, f)
        BY <1>1 DEF IndirectInv
    <2>1. CASE l \in indirect
        BY <1>1, <1>8, <1>10, <2>1, ReachesMonotone DEF IndirectInv
    <2>2. CASE l = TopEdge.line
        <3>1. c < cursor'[t]
            BY <1>1, <1>2 DEF TypeOK
        <3>2. adjacency[t][c].line = l
            BY <2>2 DEF TopEdge
        <3> QED BY <1>2, <1>11, <3>1, <3>2
    <2> QED BY <1>1, <2>1, <2>2
<1>13. DoneInv'
    BY <1>1 DEF DoneInv
<1>14. Acyclic(Visited, Direct)'
    BY <1>1, <1>8, AcyclicMonotone DEF Visited
<1> QED BY <1>1, <1>3, <1>6, <1>7, <1>9, <1>12, <1>13, <1>14 DEF IInv

\* An edge is looked at and stays direct: its target is entered.
LEMMA DescendIInv ==
    ASSUME IInv, Descend, TypeOK'
    PROVE  IInv'
<1> DEFINE t == Top
           c == cursor[t]
           g == TopEdge.to
           n == Len(stack)
<1>1. /\ TypeOK /\ StackInv /\ EdgeInv /\ PathInv /\ IndirectInv /\ DoneInv
      /\ Acyclic(Visited, Direct)
      /\ pc = "walk" /\ pc' = "walk" /\ AtEdge /\ Advance
      /\ state[g] = "unvisited"
      /\ state' = [state EXCEPT ![g] = "visiting"]
      /\ stack' = Append(stack, g)
      /\ UNCHANGED <<body, scanned, adjacency, root, indirect>>
    BY DEF IInv, Descend, Enter
<1>2. t \in Func /\ c \in DOMAIN adjacency[t] /\ c \in Nat /\ g \in Func
      /\ cursor' = [cursor EXCEPT ![t] = c + 1]
    BY <1>1, TopEdgeType DEF Advance, TypeOK
<1>3. ScanInv'
    BY <1>1, WalkScanInv
<1>4. /\ n \in Nat \ {0} /\ DOMAIN stack = 1 .. n /\ DOMAIN stack' = 1 .. n + 1
      /\ stack[n] = t /\ stack'[n + 1] = g
      /\ \A j \in 1 .. n : stack'[j] = stack[j] /\ stack[j] \in Func
    <2>1. stack \in Seq(Func) /\ n \in Nat \ {0} /\ stack[n] = t
        BY <1>1 DEF TypeOK, AtEdge, Top
    <2>2. stack' = Append(stack, g)
        BY <1>1
    <2> QED BY <1>2, <2>1, <2>2
<1>5. state[t] = "visiting" /\ g # t /\ \A j \in 1 .. n : stack[j] # g
    BY <1>1, <1>2, <1>4 DEF StackInv
<1>6. \A f \in Func : /\ cursor'[f] = IF f = t THEN c + 1 ELSE cursor[f]
                      /\ state'[f] = IF f = g THEN "visiting" ELSE state[f]
    BY <1>1, <1>2 DEF TypeOK
<1>7. StackInv'
    <2>1. \A f \in Func : cursor'[f] <= Len(adjacency[f]) + 1
        <3>1. c <= Len(adjacency[t]) /\ Len(adjacency[t]) \in Nat
            BY <1>1, <1>2 DEF AtEdge, TypeOK
        <3> QED BY <1>1, <1>2, <1>6, <3>1 DEF StackInv
    <2>2. \A f \in Func : state'[f] = "unvisited" => cursor'[f] = 1
        BY <1>1, <1>5, <1>6 DEF StackInv
    <2>3. \A f \in Func : state'[f] = "visited" => cursor'[f] = Len(adjacency[f]) + 1
        BY <1>1, <1>5, <1>6 DEF StackInv
    <2>4. \A f \in Func :
              state'[f] = "visiting" <=> \E j \in DOMAIN stack' : stack'[j] = f
        <3>1. n + 1 \in DOMAIN stack'
            BY <1>4
        <3>2. \A f \in Func : f # g => (state'[f] = "visiting" <=> \E j \in 1 .. n : stack[j] = f)
            BY <1>1, <1>4, <1>6 DEF StackInv
        <3>3. \A f \in Func : f # g =>
                  ((\E j \in 1 .. n : stack[j] = f) <=> \E j \in DOMAIN stack' : stack'[j] = f)
            BY <1>4
        <3> QED BY <1>2, <1>4, <1>6, <3>1, <3>2, <3>3
    <2>5. \A i, j \in DOMAIN stack' : stack'[i] = stack'[j] => i = j
        <3>1. \A i, j \in 1 .. n : stack'[i] = stack'[j] => i = j
            BY <1>1, <1>4 DEF StackInv
        <3>2. \A i \in 1 .. n : stack'[i] # stack'[n + 1]
            BY <1>4, <1>5
        <3> QED BY <1>4, <3>1, <3>2
    <2> QED BY <1>1, <2>1, <2>2, <2>3, <2>4, <2>5 DEF StackInv
<1>8. EdgeInv'
    <2> SUFFICES ASSUME NEW f \in Func, NEW k \in DOMAIN adjacency[f],
                        k < cursor'[f], adjacency[f][k].line \notin indirect
                 PROVE  \/ state'[adjacency[f][k].to] = "visited"
                        \/ \E j \in DOMAIN stack' :
                              /\ j + 1 \in DOMAIN stack'
                              /\ stack'[j] = f /\ stack'[j + 1] = adjacency[f][k].to
        BY <1>1 DEF EdgeInv
    <2>1. CASE f = t /\ k = c
        <3>1. n \in DOMAIN stack' /\ n + 1 \in DOMAIN stack' /\ stack'[n] = t
            BY <1>4
        <3>2. adjacency[f][k].to = g
            BY <2>1 DEF TopEdge
        <3> QED BY <1>4, <2>1, <3>1, <3>2
    <2>2. CASE ~ (f = t /\ k = c)
        <3>1. /\ adjacency[f] \in Seq(Edge) /\ k \in Nat /\ cursor[f] \in Nat
              /\ adjacency[f][k].to \in Func
            BY <1>1, AdjacencyType
        <3>2. k < cursor[f]
            BY <1>2, <1>6, <2>2, <3>1
        <3>3. \/ state[adjacency[f][k].to] = "visited"
              \/ \E j \in 1 .. n :
                    j + 1 \in 1 .. n /\ stack[j] = f /\ stack[j + 1] = adjacency[f][k].to
            BY <1>1, <1>4, <3>2 DEF EdgeInv
        <3>4. CASE state[adjacency[f][k].to] = "visited"
            BY <1>1, <1>6, <3>1, <3>4
        <3>5. CASE \E j \in 1 .. n :
                      j + 1 \in 1 .. n /\ stack[j] = f /\ stack[j + 1] = adjacency[f][k].to
            <4>1. PICK j \in 1 .. n :
                      j + 1 \in 1 .. n /\ stack[j] = f /\ stack[j + 1] = adjacency[f][k].to
                BY <3>5
            <4>2. j \in DOMAIN stack' /\ j + 1 \in DOMAIN stack'
                BY <1>4
            <4>3. stack'[j] = f /\ stack'[j + 1] = adjacency[f][k].to
                BY <1>4, <4>1
            <4> QED BY <4>2, <4>3
        <3> QED BY <3>3, <3>4, <3>5
    <2> QED BY <2>1, <2>2
<1>9. Seen \subseteq Seen' /\ Direct' \subseteq Direct
    BY <1>1, SeenGrows
<1>10. <<t, g>> \in Seen'
    <2>1. c < cursor'[t] /\ TopEdge.line \notin indirect'
        BY <1>1, <1>2, <1>6, TopEdgeDirect
    <2>2. adjacency'[t][c].to = g /\ adjacency'[t][c].line \notin indirect'
        BY <1>1, <2>1 DEF TopEdge
    <2> QED BY <1>1, <1>2, <2>1, <2>2 DEF Seen, DirectAt
<1>11. PathInv'
    <2>1. \A i, j \in 1 .. n : i <= j => Reaches(Func, Seen', stack[i], stack[j])
        BY <1>1, <1>4, <1>9, ReachesMonotone DEF PathInv
    <2>2. \A i \in 1 .. n : Reaches(Func, Seen', stack[i], g)
        <3>1. \A i \in 1 .. n : Reaches(Func, Seen', stack[i], t)
            BY <1>4, <2>1
        <3> QED BY <1>2, <1>10, <3>1, ReachesStep
    <2>3. Reaches(Func, Seen', g, g)
        BY ReachesSelf
    <2> QED BY <1>4, <2>1, <2>2, <2>3 DEF PathInv
<1>12. IndirectInv'
    <2>1. \A f \in Func : \A k \in DOMAIN adjacency[f] : k < cursor[f] => k < cursor'[f]
        BY <1>1, <1>2 DEF TypeOK
    <2> QED BY <1>1, <1>9, <2>1, ReachesMonotone DEF IndirectInv
<1>13. DoneInv'
    BY <1>1, <1>6 DEF DoneInv
<1>14. Visited' = Visited
    BY <1>1, <1>6 DEF Visited
<1>15. Acyclic(Visited, Direct)'
    BY <1>1, <1>9, <1>14, AcyclicMonotone
<1> QED BY <1>1, <1>3, <1>7, <1>8, <1>11, <1>12, <1>13, <1>15 DEF IInv

\* A function is left.  The functions left before it do not lead to it, and its
\* own direct edges lead to functions left before it.
LEMMA LeaveIInv ==
    ASSUME IInv, Leave, TypeOK'
    PROVE  IInv'
<1> DEFINE t == Top
           n == Len(stack)
<1>1. /\ TypeOK /\ StackInv /\ EdgeInv /\ PathInv /\ IndirectInv /\ DoneInv
      /\ Acyclic(Visited, Direct)
      /\ pc = "walk" /\ pc' = "walk" /\ n > 0
      /\ cursor[t] > Len(adjacency[t])
      /\ state' = [state EXCEPT ![t] = "visited"]
      /\ stack' = SubSeq(stack, 1, n - 1)
      /\ UNCHANGED <<body, scanned, adjacency, cursor, root, indirect>>
    BY DEF IInv, Leave
<1>2. /\ n \in Nat \ {0} /\ DOMAIN stack = 1 .. n /\ DOMAIN stack' = 1 .. n - 1
      /\ stack[n] = t /\ t \in Func
      /\ \A j \in 1 .. n - 1 : stack'[j] = stack[j] /\ stack[j] \in Func
    BY <1>1 DEF TypeOK, Top
<1>3. ScanInv'
    BY <1>1, WalkScanInv
<1>4. state[t] = "visiting" /\ cursor[t] = Len(adjacency[t]) + 1
    <2>1. state[t] = "visiting" /\ cursor[t] <= Len(adjacency[t]) + 1
        BY <1>1, <1>2 DEF StackInv
    <2>2. cursor[t] \in Nat /\ Len(adjacency[t]) \in Nat
        BY <1>1, <1>2 DEF TypeOK
    <2> QED BY <1>1, <2>1, <2>2
<1>5. \A f \in Func : state'[f] = IF f = t THEN "visited" ELSE state[f]
    BY <1>1, <1>2 DEF TypeOK
<1>6. \A j \in 1 .. n - 1 : stack[j] # t
    BY <1>1, <1>2 DEF StackInv
<1>7. StackInv'
    <2>1. \A f \in Func :
              state'[f] = "visiting" <=> \E j \in DOMAIN stack' : stack'[j] = f
        <3>1. \A f \in Func : f # t =>
                  ((\E j \in 1 .. n : stack[j] = f) <=> \E j \in 1 .. n - 1 : stack[j] = f)
            BY <1>2
        <3>2. \A f \in Func : state[f] = "visiting" <=> \E j \in 1 .. n : stack[j] = f
            BY <1>1, <1>2 DEF StackInv
        <3>3. \A f \in Func : (\E j \in 1 .. n - 1 : stack[j] = f)
                                <=> \E j \in DOMAIN stack' : stack'[j] = f
            BY <1>2
        <3>4. \A f \in Func : f # t =>
                  (state'[f] = "visiting" <=> \E j \in DOMAIN stack' : stack'[j] = f)
            BY <1>5, <3>1, <3>2, <3>3
        <3>5. state'[t] = "visited" /\ ~ \E j \in DOMAIN stack' : stack'[j] = t
            BY <1>2, <1>5, <1>6
        <3> QED BY <3>4, <3>5
    <2>2. \A i, j \in DOMAIN stack' : stack'[i] = stack'[j] => i = j
        BY <1>1, <1>2 DEF StackInv
    <2>3. \A f \in Func : state'[f] = "visited" => cursor[f] = Len(adjacency[f]) + 1
        BY <1>1, <1>4, <1>5 DEF StackInv
    <2>4. \A f \in Func : state'[f] = "unvisited" => cursor[f] = 1
        BY <1>1, <1>5 DEF StackInv
    <2> QED BY <1>1, <2>1, <2>2, <2>3, <2>4 DEF StackInv
<1>8. EdgeInv'
    <2> SUFFICES ASSUME NEW f \in Func, NEW k \in DOMAIN adjacency[f],
                        k < cursor[f], adjacency[f][k].line \notin indirect
                 PROVE  \/ state'[adjacency[f][k].to] = "visited"
                        \/ \E j \in DOMAIN stack' :
                              /\ j + 1 \in DOMAIN stack'
                              /\ stack'[j] = f /\ stack'[j + 1] = adjacency[f][k].to
        BY <1>1 DEF EdgeInv
    <2>1. adjacency[f][k].to \in Func
        BY <1>1, AdjacencyType
    <2>2. CASE state[adjacency[f][k].to] = "visited"
        BY <1>5, <2>1, <2>2
    <2>3. CASE \E j \in 1 .. n :
                  j + 1 \in 1 .. n /\ stack[j] = f /\ stack[j + 1] = adjacency[f][k].to
        <3>1. PICK j \in 1 .. n :
                  j + 1 \in 1 .. n /\ stack[j] = f /\ stack[j + 1] = adjacency[f][k].to
            BY <2>3
        <3>2. CASE j + 1 = n
            BY <1>2, <1>5, <2>1, <3>1, <3>2
        <3>3. CASE j + 1 # n
            <4>1. j \in 1 .. n - 1 /\ j + 1 \in 1 .. n - 1
                <5>1. j \in Int /\ n \in Int /\ j >= 1 /\ j + 1 <= n
                    BY <1>2, <3>1
                <5> QED BY <3>3, <5>1
            <4> QED BY <1>2, <3>1, <4>1
        <3> QED BY <3>2, <3>3
    <2> QED BY <1>1, <1>2, <2>2, <2>3 DEF EdgeInv
<1>9. Seen' = Seen /\ Direct' = Direct
    BY <1>1 DEF Seen, Direct, DirectAt
<1>10. PathInv'
    BY <1>1, <1>2, <1>9 DEF PathInv
<1>11. IndirectInv'
    BY <1>1, <1>9 DEF IndirectInv
<1>12. DoneInv'
    BY <1>1, <1>5 DEF DoneInv
<1>13. Visited' = Visited \cup {t} /\ t \notin Visited
    BY <1>2, <1>4, <1>5 DEF Visited
<1>14. \A a \in Visited \cup {t} : <<a, t>> \notin Direct
    <2> SUFFICES ASSUME NEW a \in Visited \cup {t}, <<a, t>> \in Direct
                 PROVE  FALSE
        OBVIOUS
    <2>1. a \in Func /\ cursor[a] = Len(adjacency[a]) + 1
        BY <1>1, <1>2, <1>4 DEF StackInv, Visited
    <2>2. PICK k \in DOMAIN adjacency[a] : DirectAt(a, k, t)
        BY DEF Direct
    <2>3. k < cursor[a]
        BY <1>1, <2>1, <2>2 DEF TypeOK
    <2>4. PICK j \in 1 .. n : j + 1 \in 1 .. n /\ stack[j] = a /\ stack[j + 1] = t
        BY <1>1, <1>2, <1>4, <2>1, <2>2, <2>3 DEF EdgeInv, DirectAt
    <2>5. j + 1 = n
        <3>1. n \in DOMAIN stack /\ j + 1 \in DOMAIN stack /\ stack[n] = stack[j + 1]
            BY <1>2, <2>4
        <3> QED BY <1>1, <3>1 DEF StackInv
    <2>6. state[a] = "visiting" /\ a # t
        BY <1>1, <1>2, <1>6, <2>1, <2>4, <2>5 DEF StackInv
    <2> QED BY <2>6 DEF Visited
<1>15. Acyclic(Visited, Direct)'
    BY <1>1, <1>9, <1>13, <1>14, AcyclicExtend
<1> QED BY <1>1, <1>3, <1>7, <1>8, <1>10, <1>11, <1>12, <1>15 DEF IInv

\* The outer loop ends and the function returns.
LEMMA ReturnIInv ==
    ASSUME IInv, Return, TypeOK'
    PROVE  IInv'
<1>1. /\ StackInv /\ EdgeInv /\ PathInv /\ IndirectInv /\ DoneInv
      /\ Acyclic(Visited, Direct)
      /\ pc = "walk" /\ pc' = "done" /\ stack = <<>> /\ root > N
      /\ UNCHANGED <<body, scanned, adjacency, state, stack, cursor, root, indirect>>
    BY DEF IInv, Return
<1>2. ScanInv'
    BY <1>1, WalkScanInv
<1>3. Seen' = Seen /\ Direct' = Direct /\ Visited' = Visited
    BY <1>1 DEF Seen, Direct, DirectAt, Visited
<1>4. StackInv' /\ EdgeInv' /\ PathInv' /\ IndirectInv'
    BY <1>1, <1>3 DEF StackInv, EdgeInv, PathInv, IndirectInv
<1>5. DoneInv'
    BY <1>1 DEF DoneInv
<1> QED BY <1>1, <1>2, <1>3, <1>4, <1>5 DEF IInv

\* A step that changes nothing.
LEMMA StutterIInv ==
    ASSUME IInv, UNCHANGED vars
    PROVE  IInv'
<1>1. UNCHANGED <<body, pc, scanned, adjacency, state, stack, cursor, root, indirect>>
    BY DEF vars
<1>2. TypeOK' /\ (pc = "scan" => Untouched)'
    BY <1>1 DEF IInv, TypeOK, Untouched
<1>3. ScanInv'
    BY <1>1 DEF IInv, ScanInv, Past, EdgeAt
<1>4. Seen' = Seen /\ Direct' = Direct /\ Visited' = Visited
    BY <1>1 DEF Seen, Direct, DirectAt, Visited
<1>5. StackInv' /\ EdgeInv' /\ PathInv' /\ IndirectInv' /\ DoneInv'
    BY <1>1, <1>4 DEF IInv, StackInv, EdgeInv, PathInv, IndirectInv, DoneInv
<1> QED BY <1>2, <1>3, <1>4, <1>5 DEF IInv

\* IInv is inductive.
THEOREM Invariance == Spec => []IInv
<1>1. IInv /\ [Next]_vars => IInv'
    <2> SUFFICES ASSUME IInv, [Next]_vars PROVE IInv'
        OBVIOUS
    <2>1. TypeOK'
        BY NextTypeOK DEF IInv
    <2> QED BY <2>1, ScanInstIInv, ScanNextFunctionIInv, ScanEndIInv, VisitRootIInv,
               SkipRootIInv, DescendIInv, BackEdgeIInv, CrossEdgeIInv, LeaveIInv,
               ReturnIInv, StutterIInv
            DEF Next, Finished
<1> QED BY InitIInv, <1>1, PTL DEF Spec

(***************************************************************************)
(* What the walk returns.                                                  *)
(***************************************************************************)

\* After the walk a direct call of the program is a direct edge of the graph,
\* and the other way round for the edges looked at.
LEMMA DirectCallsAreEdges ==
    ASSUME IInv, pc = "done"
    PROVE  DirectCalls(indirect) \subseteq Direct /\ Seen \subseteq DirectCalls(indirect)
<1>1. /\ TypeOK /\ ScanInv /\ scanned[1] > N
    BY DEF IInv, ScanInv
<1>2. \A f \in Func : \A i \in DOMAIN body[f] : Past(f, i)
    BY <1>1, NAssumption DEF Past, TypeOK, Func
<1>3. DirectCalls(indirect) \subseteq Direct
    <2> SUFFICES ASSUME NEW e \in DirectCalls(indirect) PROVE e \in Direct
        OBVIOUS
    <2>1. e \in Func \X Func /\ e[1] \in Func
        BY DEF DirectCalls
    <2>2. PICK i \in DOMAIN body[e[1]] :
              /\ IsEdge(body[e[1]][i]) /\ body[e[1]][i].symbol = e[2]
              /\ <<e[1], i>> \notin indirect
        BY DEF DirectCalls
    <2>3. PICK k \in DOMAIN adjacency[e[1]] : adjacency[e[1]][k] = EdgeAt(e[1], i)
        BY <1>1, <1>2, <2>1, <2>2 DEF ScanInv
    <2>4. DirectAt(e[1], k, e[2])
        BY <2>2, <2>3 DEF DirectAt, EdgeAt
    <2> QED BY <2>1, <2>4 DEF Direct
<1>4. Seen \subseteq DirectCalls(indirect)
    <2> SUFFICES ASSUME NEW e \in Seen PROVE e \in DirectCalls(indirect)
        OBVIOUS
    <2>1. e \in Func \X Func /\ e[1] \in Func
        BY DEF Seen
    <2>2. PICK k \in DOMAIN adjacency[e[1]] : DirectAt(e[1], k, e[2])
        BY DEF Seen
    <2>3. PICK i \in DOMAIN body[e[1]] :
              IsEdge(body[e[1]][i]) /\ adjacency[e[1]][k] = EdgeAt(e[1], i)
        BY <1>1, <2>1, <2>2 DEF ScanInv
    <2>4. body[e[1]][i].symbol = e[2] /\ <<e[1], i>> \notin indirect
        BY <2>2, <2>3 DEF DirectAt, EdgeAt
    <2> QED BY <2>1, <2>3, <2>4 DEF DirectCalls
<1> QED BY <1>3, <1>4

\* The lines returned break every cycle of native calls: the calls that stay
\* direct are acyclic, whatever the program.
THEOREM DirectCallsAcyclic == Spec => []NoDirectCycle
<1>1. IInv => NoDirectCycle
    <2> SUFFICES ASSUME IInv, pc = "done"
                 PROVE  Acyclic(Func, DirectCalls(indirect))
        BY DEF NoDirectCycle
    <2>1. DirectCalls(indirect) \subseteq Direct
        BY DirectCallsAreEdges
    <2>2. CASE root > N /\ stack = <<>>
        <3>1. \A f \in Func : f < root
            BY <2>2, NAssumption DEF IInv, TypeOK, Func
        <3>2. \A f \in Func : state[f] = "visited"
            BY <2>2, <3>1 DEF IInv, DoneInv, StackInv, TypeOK
        <3>3. Visited = Func
            BY <3>2 DEF Visited
        <3> QED BY <2>1, <3>3, AcyclicMonotone DEF IInv
    <2>3. CASE \A f \in Func : adjacency[f] = <<>>
        <3>1. Direct = {}
            BY <2>3 DEF Direct
        <3> QED BY <2>1, <3>1 DEF Acyclic
    <2> QED BY <2>2, <2>3 DEF IInv, DoneInv
<1> QED BY Invariance, <1>1, PTL

\* The lines returned are irredundant: direct calls lead from the target of each
\* of them back to its function.
THEOREM IndirectionNeeded == Spec => []EveryIndirectionNeeded
<1>1. IInv => EveryIndirectionNeeded
    <2> SUFFICES ASSUME IInv, pc = "done", NEW l \in indirect
                 PROVE  /\ IsEdge(body[l[1]][l[2]])
                        /\ Reaches(Func, DirectCalls(indirect), body[l[1]][l[2]].symbol, l[1])
        BY DEF EveryIndirectionNeeded
    <2>1. PICK f \in Func : \E k \in DOMAIN adjacency[f] :
              adjacency[f][k].line = l /\ Reaches(Func, Seen, adjacency[f][k].to, f)
        BY DEF IInv, IndirectInv
    <2>2. PICK k \in DOMAIN adjacency[f] :
              adjacency[f][k].line = l /\ Reaches(Func, Seen, adjacency[f][k].to, f)
        BY <2>1
    <2>3. PICK i \in DOMAIN body[f] :
              IsEdge(body[f][i]) /\ adjacency[f][k] = EdgeAt(f, i)
        BY <2>2 DEF IInv, ScanInv
    <2>4. l = <<f, i>> /\ adjacency[f][k].to = body[f][i].symbol
        BY <2>2, <2>3 DEF EdgeAt
    <2>5. Reaches(Func, DirectCalls(indirect), adjacency[f][k].to, f)
        BY <2>2, DirectCallsAreEdges, ReachesMonotone
    <2> QED BY <2>3, <2>4, <2>5
<1> QED BY Invariance, <1>1, PTL

=============================================================================
