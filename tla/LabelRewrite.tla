------------------------------ MODULE LabelRewrite ------------------------------
(***************************************************************************)
(* RewriteLabelsGlobal of internal/asm/rewrite.go.                         *)
(*                                                                         *)
(* The labels of a body get names that begin with that of the function.    *)
(* One pass over all bodies collects them, a second renames labels and     *)
(* references in place.  A body sees its own labels first, then those of   *)
(* the program that only one body defines.                                 *)
(***************************************************************************)
EXTENDS Analyze

CONSTANTS
    Scoped(_, _),           \* the new name of a label of a function
    IsDataLabel(_),         \* labels of the compiler's constant pools
    IsRelocationLabel(_)    \* labels for the linker alone

VARIABLES
    f,      \* the function whose body the stage is in; i is the line
    local   \* the labels found: function, name and new name

-----------------------------------------------------------------------------
\* The first line of body k behind p that the test of a data label looks at.
Follower(k, p) ==
    {q \in p + 1 .. funcs[k].last :
        \A r \in p + 1 .. q : nodes[r].kind \in {"comment", "align"} <=> r < q}

\* Known are the directives of the list in isDataLabelAt.
IsDataLabelAt(k, p) ==
    \/ IsDataLabel(nodes[p].name)
    \/ \E q \in Follower(k, p) : nodes[q].kind = "data" /\ nodes[q].known

IsLocal(k, p) ==
    nodes[p].kind = "label" /\ ~ IsDataLabelAt(k, p) /\ ~ IsRelocationLabel(nodes[p].name)

\* definitions[name]
Definitions(name) == {d \in local : d.name = name}

\* Wrong variant: any function's label will do.
ResolveAnywhere(k, name) == {d.to : d \in Definitions(name)}

\* resolve: the new name of a reference in body k; none when the name is no
\* label of a body, several when it is ambiguous.
Resolve(k, name) ==
    LET Own == {d \in Definitions(name) : d.fn = k}
    IN  {d.to : d \in IF Own # {} THEN Own ELSE Definitions(name)}

\* Two definitions count even when their new names agree.
Ambiguous(k, name) ==
    /\ \A d \in Definitions(name) : d.fn # k
    /\ \E d, e \in Definitions(name) : d # e

-----------------------------------------------------------------------------
InBody == f <= Len(funcs) /\ i \in Body(f)

LabelsInit == f = 0 /\ local = {}

StartLabels ==
    /\ phase = "analyze" /\ i > Len(found) /\ funcs # <<>>
    /\ phase' = "define"
    /\ f' = 1
    /\ i' = funcs[1].first
    /\ UNCHANGED <<source, nodes, discovery, local>>

DefineLabel ==
    /\ phase = "define" /\ InBody /\ IsLocal(f, i)
    /\ \A d \in local : ~ (d.fn = f /\ d.name = nodes[i].name)
    /\ local' = local \cup {[fn |-> f, name |-> nodes[i].name, to |-> Scoped(funcs[f].name, nodes[i].name)]}
    /\ i' = i + 1
    /\ UNCHANGED <<source, nodes, phase, discovery, f>>

RejectLabel ==
    /\ phase = "define" /\ InBody /\ IsLocal(f, i)
    /\ \E d \in local : d.fn = f /\ d.name = nodes[i].name
    /\ phase' = "failed"
    /\ UNCHANGED <<source, nodes, i, discovery, f, local>>

RenameLabel ==
    /\ phase = "rename" /\ InBody /\ IsLocal(f, i)
    /\ \E d \in local : d.fn = f /\ d.name = nodes[i].name
    /\ nodes' = [nodes EXCEPT ![i].name =
                    (CHOOSE d \in local : d.fn = f /\ d.name = nodes[i].name).to]
    /\ i' = i + 1
    /\ UNCHANGED <<source, phase, discovery, f, local>>

\* An operand that names a symbol, of an instruction; data is left alone.
RenameReference ==
    /\ phase = "rename" /\ InBody /\ nodes[i].kind = "inst"
    /\ ~ Ambiguous(f, nodes[i].ref)
    /\ \E to \in Resolve(f, nodes[i].ref) : nodes' = [nodes EXCEPT ![i].ref = to]
    /\ i' = i + 1
    /\ UNCHANGED <<source, phase, discovery, f, local>>

RejectReference ==
    /\ phase = "rename" /\ InBody /\ nodes[i].kind = "inst"
    /\ Ambiguous(f, nodes[i].ref)
    /\ phase' = "failed"
    /\ UNCHANGED <<source, nodes, i, discovery, f, local>>

SkipNode ==
    /\ phase \in {"define", "rename"} /\ InBody
    /\ \/ phase = "define" /\ ~ IsLocal(f, i)
       \/ /\ phase = "rename"
          /\ IsLocal(f, i) => \A d \in local : ~ (d.fn = f /\ d.name = nodes[i].name)
          /\ nodes[i].kind = "inst" => Definitions(nodes[i].ref) = {}
    /\ i' = i + 1
    /\ UNCHANGED <<source, nodes, phase, discovery, f, local>>

\* On to the next body; after the last one, the second pass.
NextBody ==
    /\ phase \in {"define", "rename"} /\ f <= Len(funcs) /\ i \notin Body(f)
    /\ IF f < Len(funcs) THEN f' = f + 1 /\ i' = funcs[f + 1].first /\ UNCHANGED phase
       ELSE IF phase = "define" THEN f' = 1 /\ i' = funcs[1].first /\ phase' = "rename"
       ELSE f' = f + 1 /\ i' = 1 /\ phase' = "renamed"
    /\ UNCHANGED <<source, nodes, discovery, local>>

LabelsNext ==
    \/ StartLabels \/ DefineLabel \/ RejectLabel \/ RenameLabel \/ RenameReference
    \/ RejectReference \/ SkipNode \/ NextBody

-----------------------------------------------------------------------------
\* The labels a reference at line p may mean in the source: labels are known
\* in the whole file, and a body's own come first where a name is used twice.
Meaning(p) ==
    LET All == {q \in DOMAIN Lines : Lines[q].kind = "label" /\ Lines[q].name = Lines[p].ref}
        Own == {q \in All : \E k \in DOMAIN funcs : p \in Body(k) /\ q \in Body(k)}
    IN  IF Own # {} THEN Own ELSE All

Renamed == phase \notin {"companion", "scan", "bounds", "analyze", "define", "rename", "failed"}

\* A reference still spells the label it meant, in code and in data, and none of
\* its body that it did not mean.  No two labels of one body share a name.
NamesAgree ==
    Renamed =>
        /\ \A p \in DOMAIN Lines, q \in DOMAIN Lines :
             Lines[p].kind \in {"inst", "data"} /\ q \in Meaning(p) => nodes[p].ref = nodes[q].name
        /\ \A k \in DOMAIN funcs : \A p, q \in Body(k) :
             nodes[p].kind = "inst" /\ nodes[q].kind = "label" /\ nodes[p].ref = nodes[q].name => q \in Meaning(p)
        /\ \A k \in DOMAIN funcs : \A p, q \in Body(k) :
             nodes[p].kind = "label" /\ nodes[q].kind = "label" /\ p # q => nodes[p].name # nodes[q].name

(***************************************************************************)
(* What compilers do that renaming relies on.  Renaming is of the labels   *)
(* of functions that are not of data.                                      *)
(***************************************************************************)
DataFollows(lines, p) ==
    \E q \in DOMAIN lines :
        /\ q > p /\ lines[q].kind = "data" /\ lines[q].known
        /\ \A r \in p + 1 .. q - 1 : lines[r].kind \in {"comment", "align"}

LocalLabels(lines) ==
    {r \in DOMAIN lines :
        /\ lines[r].kind = "label" /\ \E q \in Owner(lines, r) : r \in BodyOf(lines, q)
        /\ ~ IsDataLabel(lines[r].name) /\ ~ DataFollows(lines, r) /\ ~ IsRelocationLabel(lines[r].name)}

\* The names that a label can get, by the name that its function has got.
NewNames(lines, r) ==
    {Scoped(GoName(Spelled(lines, p)), lines[r].name) :
        p \in {m \in Marks(lines) : \E q \in Owner(lines, r) : Symbol(lines, m) = lines[q].name}}

\* New names are new and tell labels apart that had different ones.  Local labels
\* share no name with others, and only the code of functions refers to them; the
\* other labels of a function have different names.
NamesApart(lines) ==
    LET Local == LocalLabels(lines)
        Others == {p \in DOMAIN lines : lines[p].kind = "label"} \ Local
    IN  /\ \A r \in Local, s \in Local :
             NewNames(lines, r) \cap NewNames(lines, s) # {} => lines[r].name = lines[s].name
        /\ \A r \in Local, p \in DOMAIN lines : {lines[p].name, lines[p].ref} \cap NewNames(lines, r) = {}
        /\ \A r \in Local, s \in Others : lines[r].name # lines[s].name
        /\ \A r \in Local, p \in DOMAIN lines :
             lines[p].kind = "data" \/ (lines[p].kind = "inst" /\ Owner(lines, p) = {}) => lines[p].ref # lines[r].name
        /\ \A q \in LabelsOfFunctions(lines) : \A r, s \in Others \cap BodyOf(lines, q) :
             lines[r].name = lines[s].name => r = s
=============================================================================
