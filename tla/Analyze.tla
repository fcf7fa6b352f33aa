------------------------------- MODULE Analyze ---------------------------------
(***************************************************************************)
(* Function discovery: internal/asm/analyze.go.                            *)
(*                                                                         *)
(* The source is a sequence of nodes, one per line.  A first pass collects *)
(* candidates from `.size' directives and `Begin function' comments, a     *)
(* second finds the label of each and merges candidates of one label, and  *)
(* analyze makes functions of them.  The body of a function is a slice of  *)
(* the nodes of the program, not a copy: a node of two bodies is shared.   *)
(***************************************************************************)
EXTENDS Integers, Sequences

CONSTANTS
    Sources,            \* the inputs considered
    TrimPrefix(_),      \* a name without one leading underscore
    AddPrefix(_),       \* a name with one more
    GoName(_),          \* the Go name of a source symbol: trimmed, sanitized
    NativeName(_)       \* the name of its TEXT symbol

NoName == "none"

(***************************************************************************)
(* A node has a kind and a name; an instruction and a line of data may     *)
(* also refer to a symbol, ref.  The kinds are                             *)
(*   globl, size            directives that name a symbol                  *)
(*   type                   the same, with isFunction or an object         *)
(*   begin                  the comment `Begin function'                   *)
(*   label, inst, synthetic, data, align, comment, other                   *)
(***************************************************************************)
SourceNode ==
    [kind : {"globl", "size", "type", "begin", "label", "inst", "synthetic", "data", "align",
             "comment", "other"},
     name : STRING, ref : STRING, isFunction : BOOLEAN, known : BOOLEAN, op : STRING,
     operand : STRING, offset : Int, prefix : BOOLEAN, regs : SUBSET STRING, sets : BOOLEAN]

\* A line of the companion file; see module ControlFlow.
Declaration ==
    [kind : STRING, name : STRING, args : Nat, results : Nat, slots : BOOLEAN]

ASSUME SourcesAssumption ==
    \A s \in Sources : s.nodes \in Seq(SourceNode) /\ s.decls \in Seq(Declaration)

ASSUME PrefixAssumption ==
    \A s \in Sources : \A p \in DOMAIN s.nodes :
        TrimPrefix(AddPrefix(s.nodes[p].name)) = s.nodes[p].name

VARIABLES
    source,     \* the input: nodes, the lines, and decls, the companion file
    nodes,      \* the lines as they have been rewritten so far
    phase,      \* the stage of the conversion
    i,          \* what the stage has come to
    exported,   \* names with a .globl seen so far
    order,      \* candidates in order of discovery
    found,      \* candidates with their labels, merged
    funcs       \* the functions: name, first and last line, export

discovery == <<exported, order, found, funcs>>

Lines == source.nodes

-----------------------------------------------------------------------------
\* The kind of a symbol, as the last .type directive for it has it.
KindOf(key) ==
    LET T == {p \in DOMAIN nodes : nodes[p].kind = "type" /\ TrimPrefix(nodes[p].name) = key}
    IN  IF T = {} THEN NoName
        ELSE IF nodes[CHOOSE p \in T : \A q \in T : q <= p].isFunction THEN "function" ELSE "object"

Candidate(name, end) ==
    [name |-> name, end |-> end, export |-> TrimPrefix(name) \in exported]

\* Known candidates get a later end, and are exported once one of them is.
Merge(known, c) ==
    [known EXCEPT !.end = IF c.end > 0 THEN c.end ELSE @, !.export = @ \/ c.export]

\* add: the key of a candidate is its trimmed name.
Add(name, end) ==
    LET Same == {k \in DOMAIN order : TrimPrefix(order[k].name) = TrimPrefix(name)}
        c == Candidate(name, end)
    IN  order' = IF Same = {} THEN Append(order, c)
                 ELSE [k \in DOMAIN order |-> IF k \in Same THEN Merge(order[k], c) ELSE order[k]]

FirstLabel(name) ==
    LET P == {p \in DOMAIN nodes : nodes[p].kind = "label" /\ nodes[p].name = name}
    IN  IF P = {} THEN 0 ELSE CHOOSE p \in P : \A q \in P : p <= q

\* findLabelIndex; 0 when there is none.
FindLabel(name) ==
    IF FirstLabel(name) > 0 THEN FirstLabel(name)
    ELSE IF FirstLabel(AddPrefix(name)) > 0 THEN FirstLabel(AddPrefix(name))
    ELSE FirstLabel(TrimPrefix(name))

\* Wrong variant: the line after the last counts as part of the body.
FunctionEndPast(k) ==
    IF found[k].end > found[k].label THEN found[k].end
    ELSE IF k < Len(found) /\ found[k + 1].label > 0 THEN found[k + 1].label
    ELSE Len(nodes) + 2

\* functionEnd, the line after the body.
FunctionEnd(k) ==
    IF found[k].end > found[k].label THEN found[k].end
    ELSE IF k < Len(found) /\ found[k + 1].label > 0 THEN found[k + 1].label
    ELSE Len(nodes) + 1

Body(k) == funcs[k].first .. funcs[k].last

-----------------------------------------------------------------------------
AnalyzeInit ==
    /\ source \in Sources
    /\ nodes = source.nodes
    /\ exported = {}
    /\ order = <<>>
    /\ found = <<>>
    /\ funcs = <<>>

Scanning == phase = "scan" /\ i <= Len(nodes)

ScanGlobl ==
    /\ Scanning /\ nodes[i].kind = "globl"
    /\ exported' = exported \cup {TrimPrefix(nodes[i].name)}
    /\ i' = i + 1
    /\ UNCHANGED <<source, nodes, phase, order, found, funcs>>

ScanSize ==
    /\ Scanning /\ nodes[i].kind = "size" /\ KindOf(TrimPrefix(nodes[i].name)) # "object"
    /\ Add(nodes[i].name, i)
    /\ i' = i + 1
    /\ UNCHANGED <<source, nodes, phase, exported, found, funcs>>

\* The comment has the name as it is in C, the label has the platform's prefix.
ScanBegin ==
    /\ Scanning /\ nodes[i].kind = "begin"
    /\ Add(AddPrefix(nodes[i].name), 0)
    /\ i' = i + 1
    /\ UNCHANGED <<source, nodes, phase, exported, found, funcs>>

ScanOther ==
    /\ Scanning
    /\ nodes[i].kind \notin {"globl", "begin"}
    /\ nodes[i].kind = "size" => KindOf(TrimPrefix(nodes[i].name)) = "object"
    /\ i' = i + 1
    /\ UNCHANGED <<source, nodes, phase, discovery>>

EndFindFunctions ==
    /\ phase = "scan" /\ i > Len(nodes)
    /\ phase' = "bounds"
    /\ i' = 1
    /\ UNCHANGED <<source, nodes, discovery>>

\* Wrong variant: every candidate is a function of its own.
SameLabelNever(label) == {}

SameLabel(label) == {k \in DOMAIN found : label > 0 /\ found[k].label = label}

FindBounds ==
    /\ phase = "bounds" /\ i <= Len(order)
    /\ LET label == FindLabel(order[i].name)
           Same == SameLabel(label)
       IN  found' = IF Same = {}
                    THEN Append(found, [name |-> order[i].name, end |-> order[i].end,
                                        export |-> order[i].export, label |-> label])
                    ELSE [k \in DOMAIN found |->
                            IF k \in Same THEN Merge(found[k], order[i]) ELSE found[k]]
    /\ i' = i + 1
    /\ UNCHANGED <<source, nodes, phase, exported, order, funcs>>

EndBounds ==
    /\ phase = "bounds" /\ i > Len(order)
    /\ phase' = "analyze"
    /\ i' = 1
    /\ UNCHANGED <<source, nodes, discovery>>

\* Whether the name of candidate k is taken.
Taken(k) ==
    \E m \in DOMAIN funcs :
        \/ funcs[m].name = GoName(found[k].name)
        \/ NativeName(funcs[m].name) = NativeName(GoName(found[k].name))

MakeFunction ==
    /\ phase = "analyze" /\ i <= Len(found) /\ ~ Taken(i)
    /\ funcs' = Append(funcs, [name |-> GoName(found[i].name), first |-> found[i].label + 1,
                               last |-> FunctionEnd(i) - 1, export |-> found[i].export])
    /\ i' = i + 1
    /\ UNCHANGED <<source, nodes, phase, exported, order, found>>

RejectName ==
    /\ phase = "analyze" /\ i <= Len(found) /\ Taken(i)
    /\ phase' = "failed"
    /\ UNCHANGED <<source, nodes, i, discovery>>

AnalyzeNext ==
    \/ ScanGlobl \/ ScanSize \/ ScanBegin \/ ScanOther \/ EndFindFunctions
    \/ FindBounds \/ EndBounds \/ MakeFunction \/ RejectName

-----------------------------------------------------------------------------
(***************************************************************************)
(* What the source means: the functions are the symbols that .size names,  *)
(* unless they are objects; in a source without .size, those of the        *)
(* comments.                                                               *)
(***************************************************************************)
SymbolsOf(lines) ==
    LET Sized == {p \in DOMAIN lines : lines[p].kind = "size"}
    IN  IF Sized = {} THEN {AddPrefix(lines[p].name) : p \in {q \in DOMAIN lines : lines[q].kind = "begin"}}
        ELSE {lines[p].name : p \in {q \in Sized :
                \A r \in DOMAIN lines : lines[r].kind = "type" /\ lines[r].name = lines[q].name
                                            => lines[r].isFunction}}

LabelsOfFunctions(lines) ==
    {p \in DOMAIN lines : lines[p].kind = "label" /\ lines[p].name \in SymbolsOf(lines)}

\* The label of the function that line p belongs to.
Owner(lines, p) ==
    LET L == LabelsOfFunctions(lines)
    IN  {q \in L : q < p /\ \A r \in L : r < p => r <= q}

FunctionLabels == LabelsOfFunctions(Lines)

(***************************************************************************)
(* What compilers do that discovery relies on.  A mark is a line that      *)
(* tells of a function: a .size, or a comment, which has the C name.       *)
(***************************************************************************)
Sizes(lines) == {p \in DOMAIN lines : lines[p].kind = "size"}
FunctionSizes(lines) == {p \in Sizes(lines) : lines[p].name \in SymbolsOf(lines)}
Begins(lines) == {p \in DOMAIN lines : lines[p].kind = "begin"}
Marks(lines) == FunctionSizes(lines) \cup Begins(lines)

\* The name of the candidate, and that of the label: .size is for ELF, where
\* symbols have no prefix.
Spelled(lines, p) == IF lines[p].kind = "begin" THEN AddPrefix(lines[p].name) ELSE lines[p].name
Symbol(lines, p) == IF Sizes(lines) = {} THEN AddPrefix(lines[p].name) ELSE lines[p].name

\* Names: the types of a symbol agree with its .size, each function has a label,
\* the only one of its name; and no two functions, or a function and another
\* symbol, are told apart by an underscore alone.
WellNamed(lines) ==
    LET Labels == {p \in DOMAIN lines : lines[p].kind = "label"}
        Same(p, q) == TrimPrefix(Spelled(lines, p)) = TrimPrefix(Spelled(lines, q))
    IN  /\ \A p \in Sizes(lines), r \in DOMAIN lines :
             lines[r].kind = "type" /\ TrimPrefix(lines[r].name) = TrimPrefix(lines[p].name)
                 => (lines[r].isFunction <=> lines[p].name \in SymbolsOf(lines))
        /\ \A p \in Marks(lines) : Symbol(lines, p) \in SymbolsOf(lines)
        /\ \A name \in SymbolsOf(lines) : \E q \in Labels : lines[q].name = name
        /\ \A q \in LabelsOfFunctions(lines), r \in Labels : lines[q].name = lines[r].name => q = r
        /\ \A p \in Begins(lines), q \in Labels :
             Sizes(lines) # {} => lines[q].name \notin {AddPrefix(lines[p].name), AddPrefix(AddPrefix(lines[p].name))}
        /\ \A p \in Marks(lines), r \in Marks(lines) : Same(p, r) => Symbol(lines, p) = Symbol(lines, r)
        /\ \A p \in Marks(lines), q \in LabelsOfFunctions(lines) :
             GoName(Spelled(lines, p)) \in {lines[q].name, GoName(lines[q].name)} => Symbol(lines, p) = lines[q].name

\* Positions: one .size ends the code of a function; without, the comments come in
\* the order of the functions.  A .globl comes before the marks of its symbol.
WellPlaced(lines) ==
    /\ \A p \in FunctionSizes(lines), q \in LabelsOfFunctions(lines) :
         lines[p].name = lines[q].name =>
             /\ q \in Owner(lines, p)
             /\ \A r \in DOMAIN lines :
                  lines[r].kind \in {"inst", "synthetic"} /\ r > p => q \notin Owner(lines, r)
    /\ \A p \in FunctionSizes(lines), r \in FunctionSizes(lines) : lines[p].name = lines[r].name => p = r
    /\ Sizes(lines) = {} =>
         \A p \in Begins(lines), r \in Begins(lines), q \in LabelsOfFunctions(lines), s \in LabelsOfFunctions(lines) :
             p < r /\ lines[q].name = Symbol(lines, p) /\ lines[s].name = Symbol(lines, r) => q <= s
    /\ \A p \in DOMAIN lines, r \in Marks(lines) :
         lines[p].kind = "globl" /\ TrimPrefix(lines[p].name) = TrimPrefix(Spelled(lines, r))
             => p < r /\ lines[p].name = Symbol(lines, r)

Laid(lines) == WellNamed(lines) /\ WellPlaced(lines)

\* The lines of the function with the label q.
BodyOf(lines, q) ==
    {p \in DOMAIN lines \ LabelsOfFunctions(lines) :
        /\ q \in Owner(lines, p)
        /\ \A s \in FunctionSizes(lines) : lines[s].name = lines[q].name => p < s}

Discovered == phase \notin {"companion", "scan", "bounds", "analyze", "failed"}

Exported == {Lines[p].name : p \in {q \in DOMAIN Lines : Lines[q].kind = "globl"}}

\* Every function has a body of its own, which its names lead to; a body has
\* lines of its function alone and all instructions of it; and the functions
\* whose labels .globl names are those that are exported.
BodiesOwnTheirCode ==
    Discovered =>
        /\ \A q \in FunctionLabels : \E k \in DOMAIN funcs : funcs[k].first = q + 1
        /\ \A q \in FunctionLabels, k \in DOMAIN funcs :
             funcs[k].name \in {Lines[q].name, GoName(Lines[q].name)} => funcs[k].first = q + 1
        /\ \A k \in DOMAIN funcs : funcs[k].export <=> Lines[funcs[k].first - 1].name \in Exported
        /\ \A k \in DOMAIN funcs : \A p \in Body(k) :
             p \notin FunctionLabels /\ funcs[k].first - 1 \in Owner(Lines, p)
        /\ \A k \in DOMAIN funcs, p \in DOMAIN Lines :
             /\ Lines[p].kind \in {"inst", "synthetic"} /\ funcs[k].first - 1 \in Owner(Lines, p)
             => p \in Body(k)
=============================================================================
