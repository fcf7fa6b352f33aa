----------------------------- MODULE ControlFlowProofs -----------------------------
(***************************************************************************)
(* For every source and companion file: the entries are attached all       *)
(* together or not at all, and every line and function that a stage looks  *)
(* at is one of the source.  For every source laid out and named as        *)
(* compilers do it: the functions found are those of the source, each with *)
(* its own lines; references mean what they meant once labels have new     *)
(* names; a leaf that Go enters stays in its body; and the run of the      *)
(* output keeps to that of the source, instruction by instruction with the *)
(* same calls open (Together), where what is read in the scratch register  *)
(* is what the source left there (Kept).                                   *)
(***************************************************************************)
EXTENDS ControlFlow, NumberLemmas, SequenceTheorems, TLAPS

\* The stages before the entries are looked at.
Early == {"companion", "scan", "bounds", "analyze", "define", "rename"}

\* A function certified so far was asked for and may have an entry.
Promised(k) ==
    /\ k \in DOMAIN funcs /\ funcs[k].export /\ Certified(k)
    /\ \E e \in entries : funcs[k].name = e.name

(***************************************************************************)
(* The inductive invariant.  EntriesAllOrNone relates the wrappers to the  *)
(* entries; what makes it inductive is what is known of the functions that *)
(* are certified but have no wrapper yet, and that no entry, function or   *)
(* instruction changes once the first of them is.                          *)
(***************************************************************************)
IInv ==
    /\ phase \in Early => pending = {} /\ direct = {}
    /\ \A k \in pending : Promised(k)
    /\ direct # {} => direct = pending /\ Waiting = {} /\ phase # "renamed"

-----------------------------------------------------------------------------
\* Nothing that the invariant speaks of changes, and no stage is undone.
Settled ==
    /\ UNCHANGED <<nodes, funcs, entries, pending, direct>>
    /\ phase' \notin Early \cup {"renamed"} \/ phase' = phase

\* Whether a function is certified, and what waits, depends on these alone.
LEMMA SameFunctions ==
    ASSUME UNCHANGED <<nodes, funcs>>
    PROVE  /\ \A k : Certified(k)' = Certified(k)
           /\ \A e : Named(e)' = Named(e)
<1>1. nodes' = nodes /\ funcs' = funcs
  OBVIOUS
<1> QED
  BY <1>1 DEF Certified, CertifiedLine, CertifiedBranch, CodeOf, InstOf, Body, LabelsOf, Named

LEMMA SettledKeeps ==
    ASSUME IInv, Settled
    PROVE  IInv'
<1>1. nodes' = nodes /\ funcs' = funcs /\ entries' = entries /\ pending' = pending /\ direct' = direct
  BY DEF Settled
<1>2. /\ \A k : Certified(k)' = Certified(k)
      /\ \A e : Named(e)' = Named(e)
  BY <1>1, SameFunctions
<1>3. \A k \in pending' : Promised(k)'
  BY <1>1, <1>2 DEF IInv, Promised
<1>4. Waiting' = Waiting
  BY <1>1, <1>2 DEF Waiting
<1>5. phase' \in Early => pending' = {} /\ direct' = {}
  BY <1>1 DEF IInv, Settled
<1>6. direct' # {} => direct' = pending' /\ Waiting' = {} /\ phase' # "renamed"
  BY <1>1, <1>4 DEF IInv, Settled
<1> QED
  BY <1>3, <1>5, <1>6 DEF IInv

\* Before the entries are looked at there is nothing to keep.
LEMMA EarlyKeeps ==
    ASSUME IInv, phase \in Early, UNCHANGED <<pending, direct>>
    PROVE  IInv'
<1>1. pending' = {} /\ direct' = {}
  BY DEF IInv
<1> QED
  BY <1>1 DEF IInv

LEMMA CertifyKeeps ==
    ASSUME IInv, Certify
    PROVE  IInv'
<1>1. /\ nodes' = nodes /\ funcs' = funcs /\ entries' = entries /\ direct' = direct
      /\ phase' = phase /\ phase = "renamed"
  BY DEF Certify, passes, discovery
<1>2. PICK e \in Waiting, k \in DOMAIN funcs : Attachable(e, k) /\ pending' = pending \cup {k}
  BY DEF Certify
<1>3. \A m : Certified(m)' = Certified(m)
  BY <1>1, SameFunctions
<1>4. Promised(k)
  <2>1. e \in entries
    BY DEF Waiting
  <2> QED
    BY <1>2, <2>1 DEF Promised, Attachable, Named
<1>5. \A m \in pending' : Promised(m)'
  <2>1. \A m \in pending' : Promised(m)
    BY <1>2, <1>4 DEF IInv
  <2> QED
    BY <1>1, <1>3, <2>1 DEF Promised
<1>6. direct' = {} /\ phase' \notin Early
  BY <1>1 DEF IInv, Early
<1> QED
  BY <1>5, <1>6 DEF IInv

LEMMA AttachKeeps ==
    ASSUME IInv, Attach
    PROVE  IInv'
<1>1. /\ nodes' = nodes /\ funcs' = funcs /\ entries' = entries /\ pending' = pending
      /\ direct' = pending /\ phase' = "scratch" /\ Waiting = {}
  BY DEF Attach, passes, discovery
<1>2. /\ \A k : Certified(k)' = Certified(k)
      /\ \A e : Named(e)' = Named(e)
  BY <1>1, SameFunctions
<1>3. \A k \in pending' : Promised(k)'
  BY <1>1, <1>2 DEF IInv, Promised
<1>4. Waiting' = {}
  BY <1>1, <1>2 DEF Waiting
<1> QED
  BY <1>1, <1>3, <1>4 DEF IInv, Early

-----------------------------------------------------------------------------
\* Reading the companion file, finding functions and renaming labels come
\* before the entries.
LEMMA BeforeEntries ==
    ASSUME DeclareEntry \/ IgnoreDeclaration \/ RejectDeclaration \/ EndCompanion
             \/ Passes \/ NoFunctions
    PROVE  phase \in Early /\ UNCHANGED <<pending, direct>>
<1>1. CASE DeclareEntry \/ IgnoreDeclaration \/ RejectDeclaration \/ EndCompanion \/ NoFunctions
  BY <1>1 DEF DeclareEntry, IgnoreDeclaration, RejectDeclaration, EndCompanion, NoFunctions,
     Declarations, Fail, GoOn, Early
<1>2. CASE Passes
  <2>1. CASE AnalyzeNext
    BY <1>2, <2>1 DEF Passes, AnalyzeNext, ScanGlobl, ScanSize, ScanBegin, ScanOther, Scanning,
       EndFindFunctions, FindBounds, EndBounds, MakeFunction, RejectName, Early
  <2>2. CASE LabelsNext
    BY <1>2, <2>2 DEF Passes, LabelsNext, StartLabels, DefineLabel, RejectLabel, RenameLabel,
       RenameReference, RejectReference, SkipNode, NextBody, Early
  <2> QED
    BY <1>2, <2>1, <2>2 DEF Passes
<1> QED
  BY <1>1, <1>2

\* Validating, encoding and running leave functions and entries as they are.
LEMMA AfterEntries ==
    ASSUME \/ RejectEntry \/ AcceptScratch \/ RejectScratch \/ AcceptControl \/ RejectControl
           \/ EncodeCode \/ EncodeError \/ EmitLabel \/ EmitNothing \/ EmitNextFunction
           \/ Enter \/ Run
    PROVE  Settled
<1>1. CASE RejectEntry \/ AcceptScratch \/ RejectScratch \/ AcceptControl \/ RejectControl
  BY <1>1 DEF RejectEntry, AcceptScratch, RejectScratch, AcceptControl, RejectControl, Fail, GoOn,
     passes, discovery, Settled, Early
<1>2. CASE EncodeCode \/ EncodeError \/ EmitLabel \/ EmitNothing \/ EmitNextFunction
  BY <1>2 DEF EncodeCode, EncodeError, EmitLabel, EmitNothing, EmitNextFunction, Emit, Fail,
     passes, discovery, Settled, Early
<1>3. CASE Enter \/ Run
  BY <1>3 DEF Enter, Run, Unmoved, discovery, Settled, Early
<1> QED
  BY <1>1, <1>2, <1>3

\* The strengthened invariant holds throughout a conversion.
THEOREM Invariance == Spec => []IInv
<1>1. Init => IInv
  BY DEF Init, IInv
<1>2. IInv /\ [Next]_vars => IInv'
  <2> SUFFICES ASSUME IInv, [Next]_vars PROVE IInv'
    OBVIOUS
  <2>1. CASE DeclareEntry \/ IgnoreDeclaration \/ RejectDeclaration \/ EndCompanion
               \/ Passes \/ NoFunctions
    BY <2>1, BeforeEntries, EarlyKeeps
  <2>2. CASE Certify
    BY <2>2, CertifyKeeps
  <2>3. CASE Attach
    BY <2>3, AttachKeeps
  <2>4. CASE \/ RejectEntry \/ AcceptScratch \/ RejectScratch \/ AcceptControl \/ RejectControl
             \/ EncodeCode \/ EncodeError \/ EmitLabel \/ EmitNothing \/ EmitNextFunction
             \/ Enter \/ Run
    BY <2>4, AfterEntries, SettledKeeps
  <2>5. CASE UNCHANGED vars
    <3>1. Settled
      BY <2>5 DEF vars, discovery, Settled
    <3> QED
      BY <3>1, SettledKeeps
  <2> QED
    BY <2>1, <2>2, <2>3, <2>4, <2>5 DEF Next
<1> QED
  BY <1>1, <1>2, PTL DEF Spec

\* Whatever the source and its companion file: once a function has a wrapper,
\* every entry asked for has one, nothing else has, and each function with one
\* is exported and passed the certification.
THEOREM EntriesTogether == Spec => []EntriesAllOrNone
<1>1. IInv => EntriesAllOrNone
  <2> SUFFICES ASSUME IInv, direct # {}
               PROVE  /\ {funcs[k].name : k \in direct} = {e.name : e \in entries}
                      /\ \A k \in direct : funcs[k].export /\ Certified(k)
    BY DEF EntriesAllOrNone
  <2>1. direct = pending /\ Waiting = {}
    BY DEF IInv
  <2>2. \A k \in direct : funcs[k].export /\ Certified(k) /\ \E e \in entries : funcs[k].name = e.name
    BY <2>1 DEF IInv, Promised
  <2>3. ASSUME NEW e \in entries PROVE \E k \in direct : funcs[k].name = e.name
    BY <2>1 DEF Waiting, Named
  <2> QED
    BY <2>2, <2>3
<1> QED
  BY <1>1, Invariance, PTL
-----------------------------------------------------------------------------
(***************************************************************************)
(* The types.  What TypeOK says of lines and functions rests on how many   *)
(* candidates there can be when a line has been read: no more than lines.  *)
(***************************************************************************)
N == Len(Lines)
Candidates(S) == [name : S, end : 0 .. N, export : BOOLEAN]
Bounds(S) == [name : S, end : 0 .. N, export : BOOLEAN, label : 0 .. N]
Functions(S) == [name : S, first : 1 .. N + 1, last : 0 .. N, export : BOOLEAN]

Finding == {"companion", "scan", "bounds", "analyze"}
Stages == Finding \cup {"define", "rename", "renamed", "scratch", "control", "encode", "ready",
                       "run", "done", "failed"}

Reading ==
    /\ source \in Sources /\ phase \in Stages
    /\ DOMAIN nodes = 1 .. N
    /\ phase \in Finding => nodes = Lines
    /\ i \in 1 .. N + 1 \/ (phase \in {"companion", "failed"} /\ i \in 1 .. Len(source.decls) + 1)

Discovery ==
    /\ \E S : order \in Seq(Candidates(S))
    /\ \E S : found \in Seq(Bounds(S))
    /\ \E S : funcs \in Seq(Functions(S))
    /\ phase = "companion" => order = <<>>
    /\ phase \in {"companion", "scan"} => found = <<>>
    /\ phase = "scan" => Len(order) < i
    /\ phase = "bounds" => Len(found) < i
    /\ Len(order) <= N /\ Len(found) <= N
    /\ phase \notin Finding \cup {"done", "failed"} => funcs # <<>>

Rewriting ==
    /\ f \in 0 .. Len(funcs) + 1
    /\ phase \in {"define", "rename", "encode"} => f \in 1 .. Len(funcs)
    /\ phase \in Finding => local = {} /\ f = 0
    /\ \A d \in local : d.fn \in DOMAIN funcs

Emitted ==
    /\ \E S : text \in Seq(S)
    /\ phase = "encode" => Len(text) = f
    /\ phase \in Finding => text = <<>>
    /\ Len(text) <= Len(funcs)
    /\ indirect \subseteq 1 .. N
    /\ leaf # 0 => phase = "run" /\ leaf \in direct

TInv == Reading /\ Discovery /\ Rewriting /\ Emitted

-----------------------------------------------------------------------------
LEMMA SourceFacts ==
    ASSUME Reading
    PROVE  /\ Lines \in Seq(SourceNode) /\ N \in Nat /\ DOMAIN Lines = 1 .. N
           /\ Len(source.decls) \in Nat /\ i \in Nat
           /\ phase \in Finding => Len(nodes) = N
<1>1. source.nodes \in Seq(SourceNode) /\ source.decls \in Seq(Declaration)
  BY SourcesAssumption DEF Reading
<1>2. Len(source.nodes) \in Nat /\ DOMAIN source.nodes = 1 .. Len(source.nodes) /\ Len(source.decls) \in Nat
  BY <1>1, LenProperties
<1> QED
  BY <1>1, <1>2 DEF Lines, N, Reading

\* Lengths of what has been found.
LEMMA FoundFacts ==
    ASSUME Reading, Discovery
    PROVE  /\ Len(order) \in Nat /\ DOMAIN order = 1 .. Len(order)
           /\ Len(found) \in Nat /\ DOMAIN found = 1 .. Len(found)
           /\ Len(funcs) \in Nat /\ DOMAIN funcs = 1 .. Len(funcs)
           /\ funcs # <<>> => Len(funcs) >= 1
           /\ \A k \in DOMAIN order : order[k].end \in 0 .. N /\ order[k].export \in BOOLEAN
           /\ \A k \in DOMAIN found : found[k].end \in 0 .. N /\ found[k].label \in 0 .. N
                                         /\ found[k].export \in BOOLEAN
           /\ \A k \in DOMAIN funcs : funcs[k].first \in 1 .. N + 1 /\ funcs[k].last \in 0 .. N
                                         /\ Body(k) \subseteq 1 .. N
<1>1. PICK S : order \in Seq(Candidates(S))
  BY DEF Discovery
<1>2. PICK T : found \in Seq(Bounds(T))
  BY DEF Discovery
<1>3. PICK U : funcs \in Seq(Functions(U))
  BY DEF Discovery
<1>4. /\ Len(order) \in Nat /\ DOMAIN order = 1 .. Len(order) /\ \A k \in DOMAIN order : order[k] \in Candidates(S)
  BY <1>1, LenProperties, ElementOfSeq
<1>5. /\ Len(found) \in Nat /\ DOMAIN found = 1 .. Len(found) /\ \A k \in DOMAIN found : found[k] \in Bounds(T)
  BY <1>2, LenProperties, ElementOfSeq
<1>6. /\ Len(funcs) \in Nat /\ DOMAIN funcs = 1 .. Len(funcs) /\ \A k \in DOMAIN funcs : funcs[k] \in Functions(U)
  BY <1>3, LenProperties, ElementOfSeq
<1>7. funcs # <<>> => Len(funcs) >= 1
  BY <1>3, <1>6, EmptySeq
<1>8. N \in Nat
  BY SourceFacts
<1> QED
  BY <1>4, <1>5, <1>6, <1>7, <1>8 DEF Candidates, Bounds, Functions, Body

LEMMA MergeFacts ==
    ASSUME NEW S, NEW T, NEW c \in Candidates(T)
    PROVE  /\ \A known \in Candidates(S) : Merge(known, c) \in Candidates(S)
           /\ \A known \in Bounds(S) : Merge(known, c) \in Bounds(S)
<1>1. ASSUME NEW known \in Candidates(S) PROVE Merge(known, c) \in Candidates(S)
  BY DEF Merge, Candidates
<1>2. ASSUME NEW known \in Bounds(S) PROVE Merge(known, c) \in Bounds(S)
  BY DEF Merge, Candidates, Bounds
<1> QED
  BY <1>1, <1>2

\* One candidate more, or one that is known changed.
LEMMA AddFacts ==
    ASSUME Reading, Discovery, NEW name, NEW end \in 0 .. N, Add(name, end)
    PROVE  /\ \E S : order' \in Seq(Candidates(S))
           /\ Len(order') <= Len(order) + 1
<1> DEFINE Same == {k \in DOMAIN order : TrimPrefix(order[k].name) = TrimPrefix(name)}
           c == Candidate(name, end)
<1>1. PICK S : order \in Seq(Candidates(S))
  BY DEF Discovery
<1>2. /\ Len(order) \in Nat /\ DOMAIN order = 1 .. Len(order)
      /\ \A k \in DOMAIN order : order[k] \in Candidates(S)
  BY <1>1, LenProperties, ElementOfSeq
<1>3. c \in Candidates({name}) /\ c \in Candidates(S \cup {name})
  BY DEF Candidate, Candidates
<1>4. order' = IF Same = {} THEN Append(order, c)
               ELSE [k \in DOMAIN order |-> IF k \in Same THEN Merge(order[k], c) ELSE order[k]]
  BY DEF Add
<1> HIDE DEF Same, c
<1>5. CASE Same = {}
  <2>1. order \in Seq(Candidates(S \cup {name}))
    <3>1. Candidates(S) \subseteq Candidates(S \cup {name})
      BY DEF Candidates
    <3> QED
      BY <1>1, <3>1, SeqMonotonic
  <2>2. order' \in Seq(Candidates(S \cup {name})) /\ Len(order') = Len(order) + 1
    BY <1>3, <1>4, <1>5, <2>1, AppendProperties
  <2> QED
    BY <1>2, <2>2
<1>6. CASE Same # {}
  <2>1. \A k \in DOMAIN order : Merge(order[k], c) \in Candidates(S)
    BY <1>2, <1>3, MergeFacts
  <2> DEFINE g == [k \in DOMAIN order |-> IF k \in Same THEN Merge(order[k], c) ELSE order[k]]
  <2>2. g \in [1 .. Len(order) -> Candidates(S)]
    BY <1>2, <2>1
  <2>3. order' = g
    BY <1>4, <1>6
  <2> HIDE DEF g
  <2>4. g \in Seq(Candidates(S)) /\ Len(g) = Len(order)
    BY <1>2, <2>2
  <2> QED
    BY <1>2, <2>3, <2>4
<1> QED
  BY <1>5, <1>6

\* The label found is a line.
LEMMA LabelFacts ==
    ASSUME Reading, NEW name
    PROVE  FindLabel(name) \in 0 .. N
<1>1. ASSUME NEW x PROVE FirstLabel(x) \in 0 .. N
  <2> DEFINE P == {p \in DOMAIN nodes : nodes[p].kind = "label" /\ nodes[p].name = x}
  <2>1. P \subseteq 1 .. N /\ N \in Nat
    BY SourceFacts DEF Reading
  <2>2. CASE P = {}
    BY <2>1, <2>2 DEF FirstLabel
  <2>3. CASE P # {}
    <3>1. \E p \in P : \A q \in P : p <= q
      <4>1. P \in SUBSET Nat
        BY <2>1
      <4> QED
        BY <2>3, <4>1, LeastNatural
    <3>2. (CHOOSE p \in P : \A q \in P : p <= q) \in P
      BY <3>1
    <3> QED
      BY <2>1, <2>3, <3>2 DEF FirstLabel
  <2> QED
    BY <2>2, <2>3
<1> QED
  BY <1>1 DEF FindLabel

-----------------------------------------------------------------------------
\* The parts of the invariant that a step leaves alone.
LEMMA DiscoveryStays ==
    ASSUME Discovery, UNCHANGED <<source, discovery>>, phase' \notin Finding,
           phase' \notin {"done", "failed"} => funcs # <<>>
    PROVE  Discovery'
<1>1. order' = order /\ found' = found /\ funcs' = funcs /\ N' = N
  BY DEF discovery, N, Lines
<1>2. /\ phase' # "companion" /\ phase' # "scan" /\ phase' # "bounds"
  BY DEF Finding
<1>3. \A S : Candidates(S)' = Candidates(S) /\ Bounds(S)' = Bounds(S) /\ Functions(S)' = Functions(S)
  BY <1>1 DEF Candidates, Bounds, Functions
<1> QED
  BY <1>1, <1>2, <1>3 DEF Discovery

LEMMA RewritingStays ==
    ASSUME Rewriting, UNCHANGED <<f, local, discovery>>,
           phase' \in Finding => phase \in Finding,
           phase' \in {"define", "rename", "encode"} => phase' = phase
    PROVE  Rewriting'
BY DEF Rewriting, discovery

LEMMA EmittedStays ==
    ASSUME Emitted, UNCHANGED <<source, text, indirect, leaf>>, direct' = direct \/ phase # "run",
           Len(funcs') >= Len(funcs), Len(funcs) \in Nat, Len(funcs') \in Nat,
           phase' \in Finding => phase \in Finding,
           phase' = "encode" => phase = "encode" /\ f' = f,
           phase = "run" => phase' = "run"
    PROVE  Emitted'
<1>1. N' = N
  BY DEF N, Lines
<1>2. PICK S : text \in Seq(S)
  BY DEF Emitted
<1>3. Len(text) \in Nat
  BY <1>2, LenProperties
<1> QED
  BY <1>1, <1>2, <1>3 DEF Emitted

\* A step that gives up changes the stage alone.
LEMMA FailingKeeps ==
    ASSUME TInv, phase # "run", phase' = "failed",
           UNCHANGED <<source, i, nodes, discovery, f, local, direct, indirect, text, leaf>>
    PROVE  TInv'
<1>1. Reading'
  <2>1. phase' \notin Finding /\ phase' \in Stages
    BY DEF Finding, Stages
  <2> QED
    BY <2>1 DEF TInv, Reading, N, Lines
<1>2. Discovery'
  <2>1. phase' \notin Finding
    BY DEF Finding
  <2> QED
    BY <2>1, DiscoveryStays DEF TInv
<1>3. Rewriting'
  <2>1. phase' \notin Finding /\ phase' \notin {"define", "rename", "encode"}
    BY DEF Finding
  <2> QED
    BY <2>1, RewritingStays DEF TInv
<1>4. Emitted'
  <2>1. phase' \notin Finding /\ phase' # "encode" /\ funcs' = funcs
    BY DEF Finding, discovery
  <2>2. Len(funcs) \in Nat /\ Len(funcs) >= Len(funcs)
    BY FoundFacts DEF TInv
  <2> QED
    BY <2>1, <2>2, EmittedStays DEF TInv
<1> QED
  BY <1>1, <1>2, <1>3, <1>4 DEF TInv

-----------------------------------------------------------------------------
\* The stages of discovery find nothing that the later parts look at.
LEMMA FindingKeeps ==
    ASSUME TInv, UNCHANGED <<source, nodes, f, local, direct, indirect, text, leaf>>,
           phase \in Finding, phase' \in Finding, Len(funcs') >= Len(funcs), Len(funcs') \in Nat,
           i' \in 1 .. N + 1 \/ (phase' = "companion" /\ i' \in 1 .. Len(source.decls) + 1),
           Discovery'
    PROVE  TInv'
<1>1. Reading'
  <2>1. N' = N
    BY DEF N, Lines
  <2> QED
    BY <2>1 DEF TInv, Reading, Lines, Stages
<1>2. Rewriting'
  <2>1. phase' \notin {"define", "rename", "encode"}
    BY DEF Finding
  <2> QED
    BY <2>1 DEF TInv, Rewriting
<1>3. Emitted'
  <2>1. phase' # "encode" /\ phase # "run"
    BY DEF Finding
  <2>2. Len(funcs) \in Nat
    BY FoundFacts DEF TInv
  <2> QED
    BY <2>1, <2>2, EmittedStays DEF TInv
<1> QED
  BY <1>1, <1>2, <1>3 DEF TInv

LEMMA ScanKeeps ==
    ASSUME TInv, AnalyzeNext, UNCHANGED <<f, local, entries, pending, direct, indirect, text, machine>>,
           phase \in {"scan", "bounds"}
    PROVE  TInv'
<1>1. /\ N \in Nat /\ nodes = Lines /\ Len(nodes) = N /\ i \in 1 .. N + 1 /\ N' = N
      /\ DOMAIN nodes = 1 .. N
  <2>1. source' = source
    BY DEF AnalyzeNext, ScanGlobl, ScanSize, ScanBegin, ScanOther, EndFindFunctions, FindBounds,
       EndBounds, MakeFunction, RejectName
  <2> QED
    BY <2>1, SourceFacts DEF TInv, Reading, Finding, N, Lines
<1>2. \A S : Candidates(S)' = Candidates(S) /\ Bounds(S)' = Bounds(S) /\ Functions(S)' = Functions(S)
  BY <1>1 DEF Candidates, Bounds, Functions
<1>3. PICK S : order \in Seq(Candidates(S))
  BY DEF TInv, Discovery
<1>4. PICK T : found \in Seq(Bounds(T))
  BY DEF TInv, Discovery
<1>5. Len(order) \in Nat /\ Len(found) \in Nat /\ Len(funcs) \in Nat
  BY FoundFacts DEF TInv
<1> DEFINE Kept == UNCHANGED <<source, nodes, f, local, direct, indirect, text, leaf, funcs>>
<1>6. ASSUME Kept, phase' \in Finding, i' \in 1 .. N + 1, Discovery' PROVE TInv'
  <2>1. Len(funcs') >= Len(funcs)
    BY <1>5, <1>6
  <2>2. phase \in Finding
    BY DEF Finding
  <2> QED
    BY <1>5, <1>6, <2>1, <2>2, FindingKeeps
<1>7. CASE ScanSize \/ ScanBegin
  <2>1. Scanning /\ Kept /\ UNCHANGED <<phase, found>> /\ i' = i + 1
    BY <1>7 DEF ScanSize, ScanBegin, machine
  <2>2. i \in 1 .. N /\ phase = "scan"
    BY <1>1, <2>1 DEF Scanning
  <2>3. PICK name : \E end \in 0 .. N : Add(name, end)
    <3>1. i \in 0 .. N /\ 0 \in 0 .. N
      BY <1>1, <2>2
    <3>2. CASE ScanSize
      <4>1. Add(nodes[i].name, i)
        BY <3>2 DEF ScanSize
      <4> QED
        BY <3>1, <4>1
    <3>3. CASE ScanBegin
      <4>1. Add(AddPrefix(nodes[i].name), 0)
        BY <3>3 DEF ScanBegin
      <4> QED
        BY <3>1, <4>1
    <3> QED
      BY <1>7, <3>2, <3>3
  <2>4. (\E U : order' \in Seq(Candidates(U))) /\ Len(order') <= Len(order) + 1
    BY <2>3, AddFacts DEF TInv
  <2>5. PICK U : order' \in Seq(Candidates(U))
    BY <2>4
  <2>6. Len(order') \in Nat
    BY <2>5, LenProperties
  <2>7. Discovery'
    BY <1>1, <1>2, <1>4, <1>5, <2>1, <2>2, <2>4, <2>5, <2>6 DEF TInv, Discovery, Finding
  <2> QED
    BY <1>1, <1>6, <2>1, <2>2, <2>7 DEF Finding
<1>8. CASE ScanGlobl \/ ScanOther
  <2>1. Scanning /\ Kept /\ UNCHANGED <<phase, found, order>> /\ i' = i + 1
    BY <1>8 DEF ScanGlobl, ScanOther, machine, discovery
  <2>2. i \in 1 .. N /\ phase = "scan"
    BY <1>1, <2>1 DEF Scanning
  <2>7. Discovery'
    BY <1>1, <1>2, <1>4, <1>5, <2>1, <2>2 DEF TInv, Discovery, Finding
  <2> QED
    BY <1>1, <1>6, <2>1, <2>2, <2>7 DEF Finding
<1>9. CASE EndFindFunctions
  <2>1. /\ Kept /\ UNCHANGED <<found, order>> /\ i' = 1
        /\ phase = "scan" /\ phase' = "bounds"
    BY <1>9 DEF EndFindFunctions, machine, discovery
  <2>2. found = <<>> /\ Len(found) = 0
    BY <2>1, EmptySeq DEF TInv, Discovery
  <2>7. Discovery'
    BY <1>1, <1>2, <1>4, <1>5, <2>1, <2>2 DEF TInv, Discovery, Finding
  <2> QED
    BY <1>1, <1>6, <2>1, <2>2, <2>7 DEF Finding
<1>10. CASE EndBounds
  <2>1. /\ Kept /\ UNCHANGED <<found, order>> /\ i' = 1
        /\ phase = "bounds" /\ phase' = "analyze"
    BY <1>10 DEF EndBounds, machine, discovery
  <2>7. Discovery'
    BY <1>1, <1>2, <1>4, <1>5, <2>1 DEF TInv, Discovery, Finding
  <2> QED
    BY <1>1, <1>6, <2>1, <2>7 DEF Finding
<1>11. CASE FindBounds
  <2>1. /\ Kept /\ UNCHANGED <<phase, order>> /\ i' = i + 1
        /\ phase = "bounds" /\ i \in 1 .. Len(order) /\ i <= N
    BY <1>1, <1>5, <1>11 DEF FindBounds, machine, TInv, Discovery
  <2> DEFINE label == FindLabel(order[i].name)
             Same == SameLabel(label)
             b == [name |-> order[i].name, end |-> order[i].end, export |-> order[i].export,
                   label |-> label]
             g == [k \in DOMAIN found |-> IF k \in Same THEN Merge(found[k], order[i]) ELSE found[k]]
  <2>2. found' = IF Same = {} THEN Append(found, b) ELSE g
    BY <1>11 DEF FindBounds
  <2>3. order[i] \in Candidates(S)
    BY <1>3, <2>1, ElementOfSeq
  <2>4. label \in 0 .. N
    BY LabelFacts DEF TInv
  <2> HIDE DEF label, Same
  <2> DEFINE W == T \cup {order[i].name}
  <2>5. b \in Bounds(W)
    BY <2>3, <2>4 DEF Bounds, Candidates
  <2>6. found \in Seq(Bounds(W))
    <3>1. Bounds(T) \subseteq Bounds(W)
      BY DEF Bounds
    <3> QED
      BY <1>4, <3>1, SeqMonotonic
  <2>7. /\ DOMAIN found = 1 .. Len(found)
        /\ \A k \in DOMAIN found : found[k] \in Bounds(W)
    BY <2>6, LenProperties, ElementOfSeq
  <2>8. g \in [1 .. Len(found) -> Bounds(W)]
    <3>1. \A k \in DOMAIN found : Merge(found[k], order[i]) \in Bounds(W)
      BY <2>3, <2>7, MergeFacts
    <3> QED
      BY <2>7, <3>1
  <2> HIDE DEF g, b, W
  <2>9. /\ Append(found, b) \in Seq(Bounds(W)) /\ Len(Append(found, b)) = Len(found) + 1
    BY <2>5, <2>6, AppendProperties
  <2>10. g \in Seq(Bounds(W)) /\ Len(g) = Len(found)
    BY <1>5, <2>8
  <2>11. found' \in Seq(Bounds(W)) /\ Len(found') <= Len(found) + 1 /\ Len(found') \in Nat
    BY <1>5, <2>2, <2>9, <2>10
  <2>12. Discovery'
    BY <1>1, <1>2, <1>3, <1>5, <2>1, <2>11 DEF TInv, Discovery, Finding
  <2> QED
    BY <1>1, <1>6, <2>1, <2>12 DEF Finding
<1> QED
  BY <1>7, <1>8, <1>9, <1>10, <1>11 DEF AnalyzeNext, MakeFunction, RejectName

\* The body of a function is a range of lines.
LEMMA MakeFunctionKeeps ==
    ASSUME TInv, MakeFunction, UNCHANGED <<f, local, entries, pending, direct, indirect, text, machine>>
    PROVE  TInv'
<1>1. /\ phase = "analyze" /\ phase' = "analyze" /\ i \in 1 .. Len(found) /\ i' = i + 1
      /\ UNCHANGED <<source, nodes, order, found, leaf>>
  BY SourceFacts, FoundFacts DEF MakeFunction, TInv, Reading, machine
<1>2. N \in Nat /\ nodes = Lines /\ Len(nodes) = N /\ N' = N
  BY <1>1, SourceFacts DEF TInv, Reading, Finding, N, Lines
<1>3. /\ Len(order) \in Nat /\ Len(found) \in Nat /\ Len(funcs) \in Nat
      /\ DOMAIN found = 1 .. Len(found) /\ Len(found) <= N
      /\ \A k \in DOMAIN found : found[k].end \in 0 .. N /\ found[k].label \in 0 .. N
                                    /\ found[k].export \in BOOLEAN
  BY FoundFacts DEF TInv, Discovery
<1>4. PICK U : funcs \in Seq(Functions(U))
  BY DEF TInv, Discovery
<1> DEFINE g == [name |-> GoName(found[i].name), first |-> found[i].label + 1,
                 last |-> FunctionEnd(i) - 1, export |-> found[i].export]
           W == U \cup {GoName(found[i].name)}
<1>5. FunctionEnd(i) - 1 \in 0 .. N
  <2>1. i < Len(found) => i + 1 \in DOMAIN found
    BY <1>1, <1>3
  <2> QED
    BY <1>1, <1>2, <1>3, <2>1, SMTT(40) DEF FunctionEnd
<1>6. g \in Functions(W)
  BY <1>1, <1>2, <1>3, <1>5 DEF Functions
<1>7. funcs \in Seq(Functions(W))
  <2>1. Functions(U) \subseteq Functions(W)
    BY DEF Functions
  <2> QED
    BY <1>4, <2>1, SeqMonotonic
<1>8. funcs' = Append(funcs, g)
  BY DEF MakeFunction
<1> HIDE DEF g, W
<1>9. funcs' \in Seq(Functions(W)) /\ Len(funcs') = Len(funcs) + 1
  BY <1>6, <1>7, <1>8, AppendProperties
<1>10. \A S : Candidates(S)' = Candidates(S) /\ Bounds(S)' = Bounds(S) /\ Functions(S)' = Functions(S)
  BY <1>2 DEF Candidates, Bounds, Functions
<1>11. Discovery'
  BY <1>1, <1>2, <1>9, <1>10 DEF TInv, Discovery, Finding
<1>12. UNCHANGED <<source, nodes, f, local, direct, indirect, text, leaf>>
  BY <1>1
<1>13. phase \in Finding /\ phase' \in Finding
  BY <1>1 DEF Finding
<1>14. i' \in 1 .. N + 1 /\ Len(funcs') \in Nat /\ Len(funcs') >= Len(funcs)
  BY <1>1, <1>3, <1>2, <1>9
<1> QED
  BY <1>11, <1>12, <1>13, <1>14, FindingKeeps

LEMMA AnalyzeKeeps ==
    ASSUME TInv, AnalyzeNext, UNCHANGED <<f, local, entries, pending, direct, indirect, text, machine>>
    PROVE  TInv'
<1>1. CASE phase \in {"scan", "bounds"}
  BY <1>1, ScanKeeps
<1>2. CASE MakeFunction
  BY <1>2, MakeFunctionKeeps
<1>3. CASE RejectName
  <2>1. /\ phase # "run" /\ phase' = "failed"
        /\ UNCHANGED <<source, i, nodes, discovery, f, local, direct, indirect, text, leaf>>
    BY <1>3 DEF RejectName, machine
  <2> QED
    BY <2>1, FailingKeeps
<1>4. phase \in {"scan", "bounds"} \/ MakeFunction \/ RejectName
  BY DEF AnalyzeNext, ScanGlobl, ScanSize, ScanBegin, ScanOther, Scanning, EndFindFunctions,
     FindBounds, EndBounds
<1> QED
  BY <1>1, <1>2, <1>3, <1>4

\* The companion file is read before anything is found.
LEMMA CompanionKeeps ==
    ASSUME TInv, DeclareEntry \/ IgnoreDeclaration \/ RejectDeclaration \/ EndCompanion
    PROVE  TInv'
<1>1. phase = "companion" /\ UNCHANGED <<source, nodes, discovery, f, local, direct, indirect, text, leaf>>
  BY DEF DeclareEntry, IgnoreDeclaration, RejectDeclaration, EndCompanion, Declarations, Fail, GoOn,
     passes, machine
<1>2. /\ N \in Nat /\ N' = N /\ Len(source.decls) \in Nat /\ i \in Nat /\ Len(funcs) \in Nat
      /\ order = <<>> /\ Len(order) = 0 /\ Len(found) \in Nat /\ i >= 1
  <2>1. order = <<>> /\ Len(order) = 0
    BY <1>1, EmptySeq DEF TInv, Discovery
  <2>2. i >= 1
    BY SourceFacts DEF TInv, Reading
  <2> QED
    BY <1>1, <2>1, <2>2, SourceFacts, FoundFacts DEF TInv, N, Lines
<1>3. CASE RejectDeclaration
  <2>1. phase # "run" /\ phase' = "failed" /\ i' = i
    BY <1>1, <1>3 DEF RejectDeclaration, Fail
  <2> QED
    BY <1>1, <2>1, FailingKeeps
<1>4. CASE DeclareEntry \/ IgnoreDeclaration \/ EndCompanion
  <2>1. /\ phase' \in {"companion", "scan"}
        /\ phase' = "scan" => i' = 1
        /\ phase' = "companion" => i \in 1 .. Len(source.decls) /\ i' = i + 1
    BY <1>1, <1>2, <1>4 DEF DeclareEntry, IgnoreDeclaration, EndCompanion, Declarations, GoOn
  <2>2. \A S : Candidates(S)' = Candidates(S) /\ Bounds(S)' = Bounds(S) /\ Functions(S)' = Functions(S)
    BY <1>2 DEF Candidates, Bounds, Functions
  <2>3. Discovery'
    <3>1. found = <<>>
      BY <1>1 DEF TInv, Discovery
    <3> QED
      BY <1>1, <1>2, <2>1, <2>2, <3>1 DEF TInv, Discovery, discovery, Finding
  <2>4. i' \in 1 .. N + 1 \/ (phase' = "companion" /\ i' \in 1 .. Len(source.decls) + 1)
    BY <1>2, <2>1
  <2>5. phase \in Finding /\ phase' \in Finding /\ Len(funcs') >= Len(funcs) /\ Len(funcs') \in Nat
    BY <1>1, <1>2, <2>1 DEF Finding, discovery
  <2> QED
    BY <1>1, <2>3, <2>4, <2>5, FindingKeeps
<1> QED
  BY <1>3, <1>4

-----------------------------------------------------------------------------
\* After discovery the functions stay as they are.
LEMMA LaterKeeps ==
    ASSUME TInv, UNCHANGED <<source, discovery, text, indirect, leaf>>,
           direct' = direct \/ phase # "run", phase = "run" => phase' = "run",
           phase' \in Stages \ Finding, phase' \notin {"done", "failed"} => funcs # <<>>,
           phase' = "encode" => phase = "encode" /\ f' = f,
           DOMAIN nodes' = 1 .. N, i' \in 1 .. N + 1, Rewriting'
    PROVE  TInv'
<1>1. N' = N /\ funcs' = funcs
  BY DEF N, Lines, discovery
<1>2. Reading'
  BY <1>1 DEF TInv, Reading
<1>3. Discovery'
  BY DiscoveryStays DEF TInv
<1>4. Emitted'
  <2>1. Len(funcs) \in Nat /\ Len(funcs') >= Len(funcs)
    BY <1>1, FoundFacts DEF TInv
  <2> QED
    BY <1>1, <2>1, EmittedStays DEF TInv
<1> QED
  BY <1>2, <1>3, <1>4 DEF TInv

LEMMA LabelsKeep ==
    ASSUME TInv, LabelsNext, UNCHANGED <<direct, indirect, text, machine>>
    PROVE  TInv'
<1>1. /\ UNCHANGED <<source, discovery, text, indirect, leaf, direct, funcs>>
      /\ phase \in {"analyze", "define", "rename"} /\ phase \in Stages
  <2>1. UNCHANGED <<text, indirect, leaf, direct>>
    BY DEF machine
  <2>2. UNCHANGED <<source, discovery>> /\ phase \in {"analyze", "define", "rename"}
    BY DEF LabelsNext, StartLabels, DefineLabel, RejectLabel, RenameLabel, RenameReference,
       RejectReference, SkipNode, NextBody
  <2>3. funcs' = funcs
    BY <2>2 DEF discovery
  <2>4. phase \in Stages
    BY <2>2 DEF Stages, Finding
  <2> QED
    BY <2>1, <2>2, <2>3, <2>4
<1>2. /\ N \in Nat /\ i \in 1 .. N + 1 /\ DOMAIN nodes = 1 .. N
      /\ Len(funcs) \in Nat /\ DOMAIN funcs = 1 .. Len(funcs)
      /\ funcs # <<>> => Len(funcs) >= 1
      /\ \A k \in DOMAIN funcs : funcs[k].first \in 1 .. N + 1 /\ Body(k) \subseteq 1 .. N
  BY <1>1, SourceFacts, FoundFacts DEF TInv, Reading
<1>3. phase \in {"define", "rename"} => f \in DOMAIN funcs /\ funcs # <<>>
  BY <1>1, <1>2 DEF TInv, Rewriting, Discovery, Finding
<1>4. CASE RejectLabel \/ RejectReference
  <2>1. /\ phase # "run" /\ phase' = "failed"
        /\ UNCHANGED <<source, i, nodes, discovery, f, local, direct, indirect, text, leaf>>
    BY <1>1, <1>4 DEF RejectLabel, RejectReference
  <2> QED
    BY <2>1, FailingKeeps
<1>5. ASSUME phase' \in Stages \ Finding, phase' # "encode", funcs # <<>>, DOMAIN nodes' = 1 .. N,
             i' \in 1 .. N + 1, Rewriting'
      PROVE  TInv'
  <2>1. phase # "run"
    BY <1>1
  <2> QED
    BY <1>1, <1>5, <2>1, LaterKeeps
<1>6. CASE StartLabels
  <2>1. /\ phase' = "define" /\ f' = 1 /\ i' = funcs[1].first /\ funcs # <<>>
        /\ UNCHANGED <<nodes, local>>
    BY <1>6 DEF StartLabels
  <2>2. Rewriting'
    BY <1>1, <1>2, <2>1 DEF TInv, Rewriting, Finding
  <2> QED
    BY <1>2, <1>5, <2>1, <2>2 DEF Stages, Finding
<1>7. CASE DefineLabel
  <2>1. /\ phase = "define" /\ UNCHANGED <<phase, f, nodes>> /\ i \in Body(f) /\ i' = i + 1
        /\ local' = local \cup {[fn |-> f, name |-> nodes[i].name, to |-> Scoped(funcs[f].name, nodes[i].name)]}
    BY <1>7 DEF DefineLabel, InBody
  <2>2. Rewriting'
    BY <1>1, <1>2, <1>3, <2>1 DEF TInv, Rewriting, Finding
  <2> QED
    BY <1>2, <1>3, <1>5, <2>1, <2>2 DEF Stages, Finding
<1>8. CASE RenameLabel \/ RenameReference \/ SkipNode
  <2>1. /\ phase \in {"define", "rename"} /\ UNCHANGED <<phase, f, local>> /\ i \in Body(f) /\ i' = i + 1
        /\ DOMAIN nodes' = DOMAIN nodes
    BY <1>8 DEF RenameLabel, RenameReference, SkipNode, InBody
  <2>2. Rewriting'
    BY <1>1, <1>2, <1>3, <2>1 DEF TInv, Rewriting, Finding
  <2> QED
    BY <1>2, <1>3, <1>5, <2>1, <2>2 DEF Stages, Finding
<1>9. CASE NextBody
  <2>1. /\ phase \in {"define", "rename"} /\ UNCHANGED <<local, nodes>>
        /\ \/ f < Len(funcs) /\ f' = f + 1 /\ i' = funcs[f + 1].first /\ phase' = phase
           \/ f' = 1 /\ i' = funcs[1].first /\ phase' = "rename"
           \/ f' = f + 1 /\ i' = 1 /\ phase' = "renamed"
    BY <1>9 DEF NextBody
  <2>2. Rewriting'
    BY <1>1, <1>2, <1>3, <2>1 DEF TInv, Rewriting, Finding
  <2>3. i' \in 1 .. N + 1
    <3>1. f < Len(funcs) => f + 1 \in DOMAIN funcs
      BY <1>2, <1>3, <2>1
    <3>2. 1 \in DOMAIN funcs
      BY <1>2, <1>3, <2>1
    <3> QED
      BY <1>2, <2>1, <3>1, <3>2
  <2>4. phase' \in Stages \ Finding /\ phase' # "encode"
    BY <2>1 DEF Stages, Finding
  <2> QED
    BY <1>2, <1>3, <1>5, <2>1, <2>2, <2>3, <2>4
<1> QED
  BY <1>4, <1>6, <1>7, <1>8, <1>9 DEF LabelsNext

-----------------------------------------------------------------------------
\* The stages that give up, and those that only decide.
LEMMA RejectionsKeep ==
    ASSUME TInv, RejectEntry \/ RejectScratch \/ RejectControl \/ EncodeError
    PROVE  TInv'
<1>1. Fail /\ phase # "run"
  BY DEF RejectEntry, RejectScratch, RejectControl, EncodeError, Encoding
<1>2. /\ phase' = "failed"
      /\ UNCHANGED <<source, i, nodes, discovery, f, local, direct, indirect, text, leaf>>
  BY <1>1 DEF Fail, passes, machine
<1> QED
  BY <1>1, <1>2, FailingKeeps

\* What is known after discovery of the place a stage has come to.
LEMMA PlaceFacts ==
    ASSUME TInv, phase \notin Finding
    PROVE  /\ N \in Nat /\ Len(funcs) \in Nat /\ DOMAIN funcs = 1 .. Len(funcs) /\ DOMAIN nodes = 1 .. N
           /\ phase # "failed" => i \in 1 .. N + 1
           /\ phase \notin {"done", "failed"} => funcs # <<>> /\ 1 \in DOMAIN funcs
           /\ phase \in {"define", "rename", "encode"} => f \in DOMAIN funcs
           /\ \A k \in DOMAIN funcs : funcs[k].first \in 1 .. N + 1 /\ Body(k) \subseteq 1 .. N
<1>1. Reading /\ Discovery /\ phase # "companion"
  BY DEF TInv, Finding
<1>2. DOMAIN nodes = 1 .. N /\ (phase # "failed" => i \in 1 .. N + 1)
  BY <1>1 DEF Reading
<1>3. phase \notin {"done", "failed"} => funcs # <<>>
  BY <1>1 DEF Discovery
<1>4. phase \in {"define", "rename", "encode"} => f \in 1 .. Len(funcs)
  BY DEF TInv, Rewriting
<1> QED
  BY <1>1, <1>2, <1>3, <1>4, SourceFacts, FoundFacts

LEMMA DecisionsKeep ==
    ASSUME TInv, NoFunctions \/ Certify \/ Attach \/ AcceptScratch \/ EmitNothing
    PROVE  TInv'
<1>1. /\ UNCHANGED <<source, nodes, discovery, f, local, text, indirect, leaf>>
      /\ phase # "run"
  BY DEF NoFunctions, Certify, Attach, AcceptScratch, EmitNothing, GoOn, passes, machine, Encoding
<1>2. /\ phase' \in {"done", "failed", "renamed", "scratch", "control", "encode"}
      /\ phase' = "encode" => phase = "encode"
      /\ phase' \notin {"done", "failed"} => phase \in {"renamed", "scratch", "encode"}
  BY DEF NoFunctions, Certify, Attach, AcceptScratch, EmitNothing, GoOn, passes, machine, Encoding
<1>3. i' = 1 \/ (phase \in {"renamed", "scratch"} /\ i' = i) \/ (phase = "encode" /\ i \in Body(f) /\ i' = i + 1)
  BY DEF NoFunctions, Certify, Attach, AcceptScratch, EmitNothing, GoOn, Encoding, InBody
<1>4. phase' \in Stages \ Finding /\ (phase' \notin {"done", "failed"} => funcs # <<>>)
  <2>1. phase' \notin {"done", "failed"} => phase \notin Finding \cup {"done", "failed"}
    BY <1>2 DEF Finding
  <2> QED
    BY <1>2, <2>1 DEF Stages, Finding, TInv, Discovery
<1>5. i' \in 1 .. N + 1 /\ DOMAIN nodes' = 1 .. N
  <2>1. DOMAIN nodes = 1 .. N /\ N \in Nat
    BY SourceFacts DEF TInv, Reading
  <2>2. phase \in {"renamed", "scratch", "encode"} => phase \notin Finding /\ phase # "failed"
    BY DEF Finding
  <2>3. phase = "encode" => Body(f) \subseteq 1 .. N
    BY <2>2, PlaceFacts
  <2> QED
    BY <1>1, <1>3, <2>1, <2>2, <2>3, PlaceFacts
<1>6. Rewriting'
  BY <1>1, <1>2, <1>4, RewritingStays DEF TInv
<1> QED
  BY <1>1, <1>2, <1>4, <1>5, <1>6, LaterKeeps

-----------------------------------------------------------------------------
\* The text has a part for every function that encoding has come to.
LEMMA EmittingKeeps ==
    ASSUME TInv, phase \in {"control", "encode"}, phase' \in {"encode", "ready"},
           UNCHANGED <<source, nodes, discovery, local, direct, leaf>>,
           i' \in 1 .. N + 1, f' \in 1 .. Len(funcs), \E S : text' \in Seq(S), Len(text') = f',
           indirect' \subseteq 1 .. N
    PROVE  TInv'
<1>1. N' = N /\ funcs' = funcs
  BY DEF N, Lines, discovery
<1>2. phase \notin Finding /\ phase' \notin Finding /\ phase' \in Stages
  BY DEF Finding, Stages
<1>3. /\ N \in Nat /\ Len(funcs) \in Nat /\ DOMAIN nodes = 1 .. N
      /\ funcs # <<>> /\ leaf = 0
  BY <1>2, PlaceFacts DEF TInv, Emitted
<1>4. Reading'
  BY <1>1, <1>2, <1>3 DEF TInv, Reading
<1>5. Discovery'
  BY <1>2, <1>3, DiscoveryStays DEF TInv
<1>6. Rewriting'
  BY <1>1, <1>2, <1>3 DEF TInv, Rewriting
<1>7. Emitted'
  BY <1>1, <1>2, <1>3 DEF Emitted
<1> QED
  BY <1>4, <1>5, <1>6, <1>7 DEF TInv

LEMMA AcceptControlKeeps ==
    ASSUME TInv, AcceptControl
    PROVE  TInv'
<1>1. /\ phase = "control" /\ phase' = "encode" /\ f' = 1 /\ i' = funcs[1].first
      /\ text' = <<<<>>>> /\ indirect' \subseteq Edges
      /\ UNCHANGED <<source, nodes, discovery, local, direct, leaf>>
  BY DEF AcceptControl, machine
<1>2. /\ N \in Nat /\ Len(funcs) \in Nat /\ DOMAIN funcs = 1 .. Len(funcs)
      /\ 1 \in DOMAIN funcs
      /\ \A k \in DOMAIN funcs : funcs[k].first \in 1 .. N + 1 /\ Body(k) \subseteq 1 .. N
  BY <1>1, PlaceFacts DEF Finding
<1>3. Edges \subseteq 1 .. N
  BY <1>2 DEF Edges, InstOf
<1>4. text' \in Seq({<<>>}) /\ Len(text') = 1
  BY <1>1
<1> QED
  BY <1>1, <1>2, <1>3, <1>4, EmittingKeeps

LEMMA EmitKeeps ==
    ASSUME TInv, EncodeCode \/ EmitLabel
    PROVE  TInv'
<1>1. /\ phase = "encode" /\ i \in Body(f)
      /\ \E item : Emit(item)
  BY DEF EncodeCode, EmitLabel, Encoding, InBody
<1>2. PICK item : Emit(item)
  BY <1>1
<1>3. /\ phase' = "encode" /\ text' = [text EXCEPT ![f] = Append(@, item)] /\ i' = i + 1 /\ f' = f
      /\ UNCHANGED <<source, nodes, discovery, local, direct, leaf, indirect>>
  BY <1>1, <1>2 DEF Emit, passes, machine
<1>4. /\ N \in Nat /\ Len(funcs) \in Nat /\ DOMAIN funcs = 1 .. Len(funcs) /\ f \in DOMAIN funcs
      /\ Body(f) \subseteq 1 .. N
  BY <1>1, PlaceFacts DEF Finding
<1>5. PICK S : text \in Seq(S)
  BY DEF TInv, Emitted
<1> DEFINE more == Append(text[f], item)
           T == S \cup {more}
<1>6. Len(text) = f /\ indirect \subseteq 1 .. N
  BY <1>1 DEF TInv, Emitted
<1>7. text \in Seq(T) /\ more \in T
  BY <1>5, SeqMonotonic
<1>8. text' = [text EXCEPT ![f] = more]
  BY <1>3
<1> HIDE DEF more, T
<1>9. text' \in Seq(T) /\ Len(text') = Len(text)
  BY <1>4, <1>6, <1>7, <1>8, ExceptSeq
<1> QED
  BY <1>1, <1>3, <1>4, <1>6, <1>9, EmittingKeeps

LEMMA EmitNextFunctionKeeps ==
    ASSUME TInv, EmitNextFunction
    PROVE  TInv'
<1>1. /\ phase = "encode" /\ UNCHANGED <<source, nodes, discovery, local, direct, leaf, indirect>>
      /\ IF f < Len(funcs)
         THEN f' = f + 1 /\ i' = funcs[f + 1].first /\ text' = Append(text, <<>>) /\ phase' = "encode"
         ELSE phase' = "ready" /\ UNCHANGED <<f, i, text>>
  BY DEF EmitNextFunction, machine
<1>2. /\ N \in Nat /\ Len(funcs) \in Nat /\ DOMAIN funcs = 1 .. Len(funcs) /\ f \in DOMAIN funcs
      /\ i \in 1 .. N + 1
      /\ \A k \in DOMAIN funcs : funcs[k].first \in 1 .. N + 1
  BY <1>1, PlaceFacts DEF Finding
<1>3. PICK S : text \in Seq(S)
  BY DEF TInv, Emitted
<1>4. Len(text) = f /\ indirect \subseteq 1 .. N
  BY <1>1 DEF TInv, Emitted
<1>5. CASE f < Len(funcs)
  <2>1. text' \in Seq(S \cup {<<>>}) /\ Len(text') = f + 1
    <3>1. text \in Seq(S \cup {<<>>})
      BY <1>3, SeqMonotonic
    <3> QED
      BY <1>1, <1>4, <1>5, <3>1, AppendProperties
  <2>2. f + 1 \in DOMAIN funcs
    BY <1>2, <1>5
  <2> QED
    BY <1>1, <1>2, <1>4, <1>5, <2>1, <2>2, EmittingKeeps
<1>6. CASE ~ (f < Len(funcs))
  BY <1>1, <1>2, <1>3, <1>4, <1>6, EmittingKeeps
<1> QED
  BY <1>5, <1>6

LEMMA RunningKeeps ==
    ASSUME TInv, Enter \/ Run
    PROVE  TInv'
<1>1. /\ phase \in {"ready", "run"} /\ phase' = "run"
      /\ UNCHANGED <<source, nodes, i, f, local, direct, indirect, text, order, found, funcs>>
      /\ leaf' # 0 => leaf' \in direct
  BY DEF Enter, Run, Unmoved, discovery, TInv, Emitted
<1>2. N' = N /\ phase \notin Finding /\ phase' \notin Finding /\ phase' \in Stages
  BY <1>1 DEF N, Lines, Finding, Stages
<1>3. Reading'
  BY <1>1, <1>2 DEF TInv, Reading
<1>4. Discovery'
  <2>1. \A S : Candidates(S)' = Candidates(S) /\ Bounds(S)' = Bounds(S) /\ Functions(S)' = Functions(S)
    BY <1>2 DEF Candidates, Bounds, Functions
  <2>2. funcs # <<>>
    BY <1>1, <1>2 DEF TInv, Discovery
  <2> QED
    BY <1>1, <1>2, <2>1, <2>2 DEF TInv, Discovery
<1>5. Rewriting'
  BY <1>1, <1>2 DEF TInv, Rewriting
<1>6. Emitted'
  BY <1>1, <1>2 DEF TInv, Emitted
<1> QED
  BY <1>3, <1>4, <1>5, <1>6 DEF TInv

LEMMA InitTypes == Init => TInv
<1> SUFFICES ASSUME Init PROVE TInv
  OBVIOUS
<1>1. /\ source \in Sources /\ nodes = Lines /\ phase = "companion" /\ i = 1 /\ f = 0
      /\ order = <<>> /\ found = <<>> /\ funcs = <<>> /\ text = <<>> /\ local = {}
      /\ indirect = {} /\ leaf = 0
  BY DEF Init, AnalyzeInit, LabelsInit, Lines
<1>2. /\ Lines \in Seq(SourceNode) /\ source.decls \in Seq(Declaration)
  BY <1>1, SourcesAssumption DEF Lines
<1>3. /\ N \in Nat /\ DOMAIN Lines = 1 .. N /\ Len(source.decls) \in Nat
  BY <1>2, LenProperties DEF N
<1>4. Reading
  BY <1>1, <1>3 DEF Reading, Stages, Finding
<1>5. Len(<<>>) = 0 /\ \A S : <<>> \in Seq(S)
  BY EmptySeq
<1>6. Discovery
  BY <1>1, <1>3, <1>5 DEF Discovery, Finding
<1>7. Rewriting /\ Emitted
  BY <1>1, <1>3, <1>5 DEF Rewriting, Emitted, Finding
<1> QED
  BY <1>4, <1>6, <1>7 DEF TInv

LEMMA StutterTypes ==
    ASSUME TInv, UNCHANGED vars
    PROVE  TInv'
<1>1. /\ UNCHANGED <<source, nodes, phase, i, f, local, direct, indirect, text, leaf>>
      /\ UNCHANGED <<order, found, funcs>>
  BY DEF vars, machine, discovery
<1>2. N' = N
  BY <1>1 DEF N, Lines
<1>3. \A S : Candidates(S)' = Candidates(S) /\ Bounds(S)' = Bounds(S) /\ Functions(S)' = Functions(S)
  BY <1>2 DEF Candidates, Bounds, Functions
<1>4. Reading' /\ Rewriting' /\ Emitted'
  BY <1>1, <1>2 DEF TInv, Reading, Rewriting, Emitted, Lines
<1>5. Discovery'
  BY <1>1, <1>2, <1>3 DEF TInv, Discovery
<1> QED
  BY <1>4, <1>5 DEF TInv

LEMMA StepTypes == TInv /\ [Next]_vars => TInv'
<1> SUFFICES ASSUME TInv, [Next]_vars PROVE TInv'
  OBVIOUS
<1>1. CASE DeclareEntry \/ IgnoreDeclaration \/ RejectDeclaration \/ EndCompanion
  BY <1>1, CompanionKeeps
<1>2. CASE Passes
  <2>1. UNCHANGED <<entries, pending, direct, indirect, text, machine>>
    BY <1>2 DEF Passes
  <2>2. CASE AnalyzeNext /\ UNCHANGED <<f, local>>
    BY <2>1, <2>2, AnalyzeKeeps
  <2>3. CASE LabelsNext
    BY <2>1, <2>3, LabelsKeep
  <2> QED
    BY <1>2, <2>2, <2>3 DEF Passes
<1>3. CASE NoFunctions \/ Certify \/ Attach \/ AcceptScratch \/ EmitNothing
  BY <1>3, DecisionsKeep
<1>4. CASE RejectEntry \/ RejectScratch \/ RejectControl \/ EncodeError
  BY <1>4, RejectionsKeep
<1>5. CASE AcceptControl
  BY <1>5, AcceptControlKeeps
<1>6. CASE EncodeCode \/ EmitLabel
  BY <1>6, EmitKeeps
<1>7. CASE EmitNextFunction
  BY <1>7, EmitNextFunctionKeeps
<1>8. CASE Enter \/ Run
  BY <1>8, RunningKeeps
<1>9. CASE UNCHANGED vars
  BY <1>9, StutterTypes
<1> QED
  BY <1>1, <1>2, <1>3, <1>4, <1>5, <1>6, <1>7, <1>8, <1>9 DEF Next

\* Every line and function that a stage looks at is one of the source, at
\* every step of every conversion.
THEOREM ControlFlowTypes == Spec => []TypeOK
<1>1. Spec => []TInv
  BY InitTypes, StepTypes, PTL DEF Spec
<1>2. TInv /\ IInv => TypeOK
  <2> SUFFICES ASSUME TInv, IInv PROVE TypeOK
    OBVIOUS
  <2>1. /\ DOMAIN Lines = 1 .. N /\ N = Len(Lines)
        /\ \A k \in DOMAIN funcs : funcs[k].first \in 1 .. N + 1 /\ funcs[k].last \in 0 .. N
    BY SourceFacts, FoundFacts DEF TInv, N
  <2>2. direct \subseteq pending /\ pending \subseteq DOMAIN funcs
    BY DEF IInv, Promised
  <2>3. phase \in {"companion", "scan", "bounds", "analyze", "define", "rename", "renamed",
                   "scratch", "control", "encode", "ready", "run", "done", "failed"}
    BY DEF TInv, Reading, Stages, Finding
  <2> QED
    BY <2>1, <2>2, <2>3 DEF TypeOK, TInv, Reading, Rewriting, Emitted
<1> QED
  BY <1>1, <1>2, Invariance, PTL

-----------------------------------------------------------------------------
\* Renaming changes names and references alone.
OnlyNames ==
    \A p \in DOMAIN Lines : \E n, r : nodes[p] = [Lines[p] EXCEPT !.name = n, !.ref = r]

LEMMA NodeFacts ==
    ASSUME TInv, OnlyNames, NEW p \in DOMAIN Lines
    PROVE  /\ p \in DOMAIN nodes
           /\ nodes[p].kind = Lines[p].kind /\ nodes[p].op = Lines[p].op
           /\ nodes[p].operand = Lines[p].operand /\ nodes[p].offset = Lines[p].offset
           /\ nodes[p].regs = Lines[p].regs /\ nodes[p].known = Lines[p].known
           /\ nodes[p].sets = Lines[p].sets
<1>1. /\ Lines \in Seq(SourceNode) /\ DOMAIN Lines = 1 .. N /\ DOMAIN nodes = 1 .. N
    BY SourceFacts DEF TInv, Reading
<1>2. Lines[p] \in SourceNode
    BY <1>1, ElementOfSeq DEF N
<1>3. PICK n, r : nodes[p] = [Lines[p] EXCEPT !.name = n, !.ref = r]
    BY DEF OnlyNames
<1> QED
    BY ONLY <1>1, <1>2, <1>3, p \in DOMAIN Lines DEF SourceNode

\* The lines keep all but their names.
LEMMA NamesOnly ==
    ASSUME TInv, OnlyNames, [Next]_vars
    PROVE  OnlyNames'
<1>1. Lines \in Seq(SourceNode) /\ DOMAIN Lines = 1 .. N /\ DOMAIN nodes = 1 .. N
    BY SourceFacts DEF TInv, Reading
<1>2. source' = source /\ (nodes' = nodes \/ RenameLabel \/ RenameReference)
    <2>1. CASE Passes
        <3>1. CASE AnalyzeNext
            BY <3>1 DEF AnalyzeNext, ScanGlobl, ScanSize, ScanBegin, ScanOther, EndFindFunctions, FindBounds,
               EndBounds, MakeFunction, RejectName
        <3>2. CASE LabelsNext
            BY <3>2 DEF LabelsNext, StartLabels, DefineLabel, RejectLabel, RenameLabel, RenameReference,
               RejectReference, SkipNode, NextBody
        <3> QED BY <2>1, <3>1, <3>2 DEF Passes
    <2>2. CASE DeclareEntry \/ IgnoreDeclaration \/ RejectDeclaration \/ EndCompanion \/ NoFunctions
                 \/ Certify \/ RejectEntry \/ Attach
        BY <2>2 DEF DeclareEntry, IgnoreDeclaration, RejectDeclaration, EndCompanion, NoFunctions, Certify,
           RejectEntry, Attach, Fail, GoOn, passes
    <2>3. CASE AcceptScratch \/ RejectScratch \/ AcceptControl \/ RejectControl
        BY <2>3 DEF AcceptScratch, RejectScratch, AcceptControl, RejectControl, Fail, GoOn, passes
    <2>4. CASE EncodeCode \/ EncodeError \/ EmitLabel \/ EmitNothing \/ EmitNextFunction
        BY <2>4 DEF EncodeCode, EncodeError, EmitLabel, EmitNothing, EmitNextFunction, Emit, Fail, passes
    <2>5. CASE Enter \/ Run \/ UNCHANGED vars
        BY <2>5 DEF Enter, Run, Unmoved, vars
    <2> QED BY <2>1, <2>2, <2>3, <2>4, <2>5 DEF Next
<1>3. Lines' = Lines
    BY <1>2 DEF Lines
<1>4. \E n : (RenameLabel => nodes' = [nodes EXCEPT ![i].name = n])
               /\ (RenameReference => nodes' = [nodes EXCEPT ![i].ref = n])
    <2>1. RenameLabel => \E n : nodes' = [nodes EXCEPT ![i].name = n]
        BY DEF RenameLabel
    <2>2. RenameReference => \E n : nodes' = [nodes EXCEPT ![i].ref = n]
        BY DEF RenameReference
    <2>3. ~ (RenameLabel /\ RenameReference)
        BY DEF RenameLabel, RenameReference, IsLocal
    <2> QED BY <2>1, <2>2, <2>3
<1>5. ASSUME NEW p \in DOMAIN Lines PROVE \E n, r : nodes'[p] = [Lines[p] EXCEPT !.name = n, !.ref = r]
    <2>1. PICK n, r : nodes[p] = [Lines[p] EXCEPT !.name = n, !.ref = r]
        BY <1>5 DEF OnlyNames
    <2>2. Lines[p] \in SourceNode /\ p \in DOMAIN nodes
        BY <1>1, <1>5, ElementOfSeq DEF N
    <2>3. PICK m : (RenameLabel => nodes' = [nodes EXCEPT ![i].name = m])
               /\ (RenameReference => nodes' = [nodes EXCEPT ![i].ref = m])
        BY <1>4
    <2>4. CASE nodes'[p] = nodes[p]
        BY <2>1, <2>4
    <2>5. CASE RenameLabel /\ p = i
        <3>1. nodes'[p] = [nodes[p] EXCEPT !.name = m]
            BY <2>2, <2>3, <2>5
        <3>2. nodes'[p] = [Lines[p] EXCEPT !.name = m, !.ref = r]
            BY ONLY <2>1, <2>2, <3>1 DEF SourceNode
        <3> QED BY <3>2
    <2>6. CASE RenameReference /\ p = i
        <3>1. nodes'[p] = [nodes[p] EXCEPT !.ref = m]
            BY <2>2, <2>3, <2>6
        <3>2. nodes'[p] = [Lines[p] EXCEPT !.name = n, !.ref = m]
            BY ONLY <2>1, <2>2, <3>1 DEF SourceNode
        <3> QED BY <3>2
    <2>7. p = i \/ nodes'[p] = nodes[p]
        BY <1>2, <2>2, <2>3
    <2> QED BY <1>2, <2>4, <2>5, <2>6, <2>7
<1>6. ASSUME NEW p \in DOMAIN Lines' PROVE \E n, r : nodes'[p] = [Lines'[p] EXCEPT !.name = n, !.ref = r]
    <2>1. PICK n, r : nodes'[p] = [Lines[p] EXCEPT !.name = n, !.ref = r]
        BY ONLY <1>3, <1>5, <1>6, Zenon
    <2> QED BY ONLY <1>3, <2>1, Zenon
<1> QED BY ONLY <1>6, Zenon DEF OnlyNames

\* A line has one owner.
LEMMA OneOwner ==
    ASSUME NEW lines, DOMAIN lines \subseteq Nat, NEW p, NEW q \in Owner(lines, p), NEW r \in Owner(lines, p)
    PROVE  q = r
<1>1. /\ q \in DOMAIN lines /\ r \in DOMAIN lines /\ q <= r /\ r <= q
    BY DEF Owner, LabelsOfFunctions
<1>2. q \in Nat /\ r \in Nat
    BY <1>1
<1> QED BY <1>1, <1>2

-----------------------------------------------------------------------------
(***************************************************************************)
(* Discovery.  Of a source that is laid out as compilers do it (Laid),     *)
(* every mark leads to the label of its function, and what the passes make *)
(* of the marks so far is known at every step.                             *)
(***************************************************************************)
Target(p) == CHOOSE q \in FunctionLabels : Lines[q].name = Symbol(Lines, p)
Key(p) == TrimPrefix(Spelled(Lines, p))

LEMMA LaidFacts ==
    ASSUME Laid(Lines)
    PROVE  /\ \A p \in Sizes(Lines), r \in DOMAIN Lines :
                Lines[r].kind = "type" /\ TrimPrefix(Lines[r].name) = TrimPrefix(Lines[p].name)
                    => (Lines[r].isFunction <=> Lines[p].name \in SymbolsOf(Lines))
           /\ \A p \in Marks(Lines) : Symbol(Lines, p) \in SymbolsOf(Lines)
           /\ \A name \in SymbolsOf(Lines) : \E q \in FunctionLabels : Lines[q].name = name
           /\ \A q \in FunctionLabels, r \in DOMAIN Lines :
                Lines[r].kind = "label" /\ Lines[q].name = Lines[r].name => q = r
           /\ \A p \in Begins(Lines), r \in DOMAIN Lines : Sizes(Lines) # {} /\ Lines[r].kind = "label" =>
                Lines[r].name # AddPrefix(Lines[p].name) /\ Lines[r].name # AddPrefix(AddPrefix(Lines[p].name))
           /\ \A p \in Marks(Lines), r \in Marks(Lines) : Key(p) = Key(r) => Symbol(Lines, p) = Symbol(Lines, r)
           /\ \A p \in Marks(Lines), q \in FunctionLabels :
                GoName(Spelled(Lines, p)) \in {Lines[q].name, GoName(Lines[q].name)}
                    => Symbol(Lines, p) = Lines[q].name
<1> DEFINE Labels == {p \in DOMAIN Lines : Lines[p].kind = "label"}
           Same(p, q) == TrimPrefix(Spelled(Lines, p)) = TrimPrefix(Spelled(Lines, q))
<1>1. /\ \A p \in Sizes(Lines), r \in DOMAIN Lines :
             Lines[r].kind = "type" /\ TrimPrefix(Lines[r].name) = TrimPrefix(Lines[p].name)
                 => (Lines[r].isFunction <=> Lines[p].name \in SymbolsOf(Lines))
      /\ \A p \in Marks(Lines) : Symbol(Lines, p) \in SymbolsOf(Lines)
      /\ \A name \in SymbolsOf(Lines) : \E q \in Labels : Lines[q].name = name
      /\ \A q \in LabelsOfFunctions(Lines), r \in Labels : Lines[q].name = Lines[r].name => q = r
      /\ \A p \in Begins(Lines), q \in Labels :
             Sizes(Lines) # {} => Lines[q].name \notin {AddPrefix(Lines[p].name), AddPrefix(AddPrefix(Lines[p].name))}
      /\ \A p \in Marks(Lines), r \in Marks(Lines) : Same(p, r) => Symbol(Lines, p) = Symbol(Lines, r)
      /\ \A p \in Marks(Lines), q \in LabelsOfFunctions(Lines) :
             GoName(Spelled(Lines, p)) \in {Lines[q].name, GoName(Lines[q].name)} => Symbol(Lines, p) = Lines[q].name
    BY DEF Laid, WellNamed
<1>2. \A q \in Labels : Lines[q].name \in SymbolsOf(Lines) => q \in FunctionLabels
    BY DEF FunctionLabels, LabelsOfFunctions
<1> QED BY ONLY <1>1, <1>2 DEF FunctionLabels, Key

\* A mark leads to one label.
LEMMA TargetFacts ==
    ASSUME Laid(Lines), NEW p \in Marks(Lines)
    PROVE  /\ Target(p) \in FunctionLabels /\ Lines[Target(p)].name = Symbol(Lines, p)
           /\ \A q \in FunctionLabels : Lines[q].name = Symbol(Lines, p) => q = Target(p)
<1>1. \E q \in FunctionLabels : Lines[q].name = Symbol(Lines, p)
    BY LaidFacts
<1>2. Target(p) \in FunctionLabels /\ Lines[Target(p)].name = Symbol(Lines, p)
    BY <1>1 DEF Target
<1>3. \A q \in FunctionLabels : q \in DOMAIN Lines /\ Lines[q].kind = "label"
    BY DEF FunctionLabels, LabelsOfFunctions
<1> QED BY <1>2, <1>3, LaidFacts

\* Every function has a mark that spells its label.
LEMMA MarkOfLabel ==
    ASSUME NEW q \in FunctionLabels
    PROVE  /\ \E p \in Marks(Lines) : Spelled(Lines, p) = Lines[q].name /\ Symbol(Lines, p) = Lines[q].name
           /\ Sizes(Lines) # {} => \E p \in FunctionSizes(Lines) : Lines[p].name = Lines[q].name
<1>1. Lines[q].name \in SymbolsOf(Lines)
    BY DEF FunctionLabels, LabelsOfFunctions
<1>2. CASE Sizes(Lines) = {}
    <2>1. PICK p \in Begins(Lines) : Lines[q].name = AddPrefix(Lines[p].name)
        BY <1>1, <1>2 DEF SymbolsOf, Sizes, Begins
    <2> QED BY <1>2, <2>1 DEF Spelled, Symbol, Marks, Begins
<1>3. CASE Sizes(Lines) # {}
    <2>1. PICK p \in Sizes(Lines) : Lines[q].name = Lines[p].name
        BY <1>1, <1>3 DEF SymbolsOf, Sizes
    <2>2. p \in FunctionSizes(Lines) /\ Lines[p].kind # "begin"
        BY <1>1, <2>1 DEF FunctionSizes, Sizes
    <2> QED BY <1>3, <2>1, <2>2 DEF Spelled, Symbol, Marks
<1> QED BY <1>2, <1>3

\* A set of lines has a last one.
LEMMA LastLine ==
    ASSUME NEW n \in Nat, NEW T, T \subseteq 1 .. n, T # {}
    PROVE  \E x \in T : \A y \in T : y <= x
<1> DEFINE U == {n - x : x \in T}
<1>1. U \in SUBSET Nat /\ U # {}
    <2>1. \A x \in T : n - x \in Nat
        OBVIOUS
    <2> QED BY <2>1
<1>2. PICK u \in U : \A v \in U : u <= v
    BY <1>1, LeastNatural
<1>3. PICK x \in T : u = n - x
    BY <1>2
<1>4. ASSUME NEW y \in T PROVE y <= x
    <2>1. n - y \in U
        OBVIOUS
    <2>2. u <= n - y
        BY <1>2, <2>1
    <2> QED BY <1>3, <2>2
<1> QED BY <1>4

LEMMA FirstLabelFacts ==
    ASSUME Reading, nodes = Lines, NEW name
    PROVE  /\ (\A r \in DOMAIN Lines : Lines[r].kind = "label" => Lines[r].name # name) => FirstLabel(name) = 0
           /\ \A q \in DOMAIN Lines :
                /\ Lines[q].kind = "label" /\ Lines[q].name = name
                /\ \A r \in DOMAIN Lines : Lines[r].kind = "label" /\ Lines[r].name = name => r = q
                => FirstLabel(name) = q
<1> DEFINE P == {p \in DOMAIN nodes : nodes[p].kind = "label" /\ nodes[p].name = name}
<1>1. FirstLabel(name) = IF P = {} THEN 0 ELSE CHOOSE p \in P : \A q \in P : p <= q
    BY DEF FirstLabel
<1>2. ASSUME NEW q \in DOMAIN Lines, Lines[q].kind = "label", Lines[q].name = name,
             \A r \in DOMAIN Lines : Lines[r].kind = "label" /\ Lines[r].name = name => r = q
      PROVE  FirstLabel(name) = q
    <2>1. P = {q}
        BY <1>2
    <2>2. q \in Nat
        BY SourceFacts
    <2>3. FirstLabel(name) = CHOOSE p \in {q} : \A r \in {q} : p <= r
        BY <1>1, <2>1
    <2> QED BY <2>2, <2>3
<1> QED BY <1>1, <1>2

\* The code finds the label that a mark leads to, however the mark spells it.
LEMMA MarksLead ==
    ASSUME Reading, nodes = Lines, Laid(Lines), NEW p \in Marks(Lines)
    PROVE  FindLabel(Spelled(Lines, p)) = Target(p) /\ Target(p) \in 1 .. N
<1>1. /\ Target(p) \in FunctionLabels /\ Target(p) \in DOMAIN Lines /\ Lines[Target(p)].kind = "label"
      /\ Lines[Target(p)].name = Symbol(Lines, p)
      /\ \A r \in DOMAIN Lines : Lines[r].kind = "label" /\ Lines[r].name = Symbol(Lines, p) => r = Target(p)
    BY TargetFacts, LaidFacts DEF FunctionLabels, LabelsOfFunctions
<1>2. Target(p) \in 1 .. N /\ N \in Nat
    BY <1>1, SourceFacts
<1>3. FirstLabel(Symbol(Lines, p)) = Target(p)
    BY <1>1, FirstLabelFacts
<1>4. CASE Spelled(Lines, p) = Symbol(Lines, p)
    BY <1>2, <1>3, <1>4 DEF FindLabel
<1>5. CASE Spelled(Lines, p) # Symbol(Lines, p)
    <2>1. /\ Sizes(Lines) # {} /\ p \in Begins(Lines) /\ p \in DOMAIN Lines
          /\ Symbol(Lines, p) = Lines[p].name /\ Spelled(Lines, p) = AddPrefix(Lines[p].name)
        BY <1>5 DEF Spelled, Symbol, Marks, Begins, FunctionSizes, Sizes
    <2>2. FirstLabel(Spelled(Lines, p)) = 0 /\ FirstLabel(AddPrefix(Spelled(Lines, p))) = 0
        BY <2>1, LaidFacts, FirstLabelFacts
    <2>3. TrimPrefix(Spelled(Lines, p)) = Symbol(Lines, p)
        BY <2>1, PrefixAssumption DEF Reading, Lines
    <2> QED BY <1>2, <1>3, <2>2, <2>3 DEF FindLabel
<1> QED BY <1>4, <1>5

\* By the last .type of its key, a .size is of a function or of an object.
LEMMA SizesOfFunctions ==
    ASSUME Reading, nodes = Lines, Laid(Lines), NEW p \in Sizes(Lines)
    PROVE  KindOf(TrimPrefix(nodes[p].name)) # "object" <=> p \in FunctionSizes(Lines)
<1> DEFINE key == TrimPrefix(nodes[p].name)
           T == {r \in DOMAIN nodes : nodes[r].kind = "type" /\ TrimPrefix(nodes[r].name) = key}
<1>1. p \in DOMAIN Lines
    BY DEF Sizes
<1>2. \A r \in T : nodes[r].isFunction <=> Lines[p].name \in SymbolsOf(Lines)
    BY LaidFacts
<1>3. KindOf(key) = IF T = {} THEN NoName
                    ELSE IF nodes[CHOOSE r \in T : \A q \in T : q <= r].isFunction THEN "function" ELSE "object"
    BY DEF KindOf
<1>4. p \in FunctionSizes(Lines) <=> Lines[p].name \in SymbolsOf(Lines)
    BY DEF FunctionSizes
<1>5. CASE T = {}
    <2>1. Lines[p].name \in SymbolsOf(Lines)
        <3>1. ASSUME NEW r \in DOMAIN Lines, Lines[r].kind = "type", Lines[r].name = Lines[p].name PROVE FALSE
            <4>1. r \in T
                BY <3>1
            <4> QED BY <1>5, <4>1
        <3>2. Sizes(Lines) # {}
            OBVIOUS
        <3> QED BY <1>1, <3>1, <3>2 DEF SymbolsOf, Sizes
    <2> QED BY <1>3, <1>4, <1>5, <2>1 DEF NoName
<1>6. CASE T # {}
    <2> DEFINE last == CHOOSE r \in T : \A q \in T : q <= r
    <2>1. T \subseteq 1 .. N /\ N \in Nat
        BY SourceFacts
    <2>2. last \in T
        <3>1. \E r \in T : \A q \in T : q <= r
            BY <1>6, <2>1, LastLine
        <3> QED BY <3>1
    <2>3. nodes[last].isFunction <=> Lines[p].name \in SymbolsOf(Lines)
        BY <1>2, <2>2
    <2> HIDE DEF T, last
    <2> QED BY <1>3, <1>4, <1>6, <2>3 DEF last
<1> QED BY <1>5, <1>6

-----------------------------------------------------------------------------
Heard(n) ==
    exported = {TrimPrefix(Lines[g].name) : g \in {q \in DOMAIN Lines : q < n /\ Lines[q].kind = "globl"}}

\* What .globl says of a key, in all lines.
GloblKey(key) == \E g \in DOMAIN Lines : Lines[g].kind = "globl" /\ TrimPrefix(Lines[g].name) = key

\* A candidate made of marks before line n.
Listing(n, c) ==
    /\ \E p \in Marks(Lines) : p < n /\ c.name = Spelled(Lines, p)
    /\ c.export <=> GloblKey(TrimPrefix(c.name))
    /\ c.end # 0 => c.end \in FunctionSizes(Lines) /\ Key(c.end) = TrimPrefix(c.name)
    /\ \A p \in FunctionSizes(Lines) : p < n /\ Key(p) = TrimPrefix(c.name) => c.end # 0

\* All marks before line n have their candidates, in the order of the functions.
Listed(n) ==
    /\ \A p \in Marks(Lines) : p < n => \E k \in DOMAIN order : TrimPrefix(order[k].name) = Key(p)
    /\ \A k \in DOMAIN order : Listing(n, order[k])
    /\ Sizes(Lines) = {} =>
         \A k \in DOMAIN order, m \in DOMAIN order :
            k < m => FindLabel(order[k].name) <= FindLabel(order[m].name)

\* A candidate with its label, made of those before k.
Bounding(n, b) ==
    /\ \E k \in DOMAIN order : k < n /\ b.name = order[k].name /\ b.label = FindLabel(order[k].name)
    /\ b.end # 0 => \E k \in DOMAIN order : b.end = order[k].end /\ b.label = FindLabel(order[k].name)
    /\ \A k \in DOMAIN order : k < n /\ b.label = FindLabel(order[k].name) /\ order[k].end # 0 => b.end # 0
    /\ b.export <=> \E k \in DOMAIN order : k < n /\ b.label = FindLabel(order[k].name) /\ order[k].export

Bounded(n) ==
    /\ \A k \in DOMAIN order : k < n => \E m \in DOMAIN found : found[m].label = FindLabel(order[k].name)
    /\ \A m \in DOMAIN found : Bounding(n, found[m])
    /\ \A m \in DOMAIN found, r \in DOMAIN found : m # r => found[m].label # found[r].label
    /\ Sizes(Lines) = {} =>
         \A m \in DOMAIN found, r \in DOMAIN found : m < r => found[m].label < found[r].label

Made(n) ==
    /\ Len(funcs) = n - 1
    /\ \A k \in DOMAIN funcs :
         /\ k \in DOMAIN found
         /\ funcs[k] = [name |-> GoName(found[k].name), first |-> found[k].label + 1,
                        last |-> FunctionEnd(k) - 1, export |-> found[k].export]

\* Neither the lines nor the labels they lead to change.
LEMMA LinesStay ==
    ASSUME UNCHANGED <<source, nodes>>
    PROVE  /\ Lines' = Lines /\ N' = N /\ Marks(Lines)' = Marks(Lines) /\ Laid(Lines)' = Laid(Lines)
           /\ \A name : FindLabel(name)' = FindLabel(name)
           /\ \A p : Key(p)' = Key(p) /\ Spelled(Lines, p)' = Spelled(Lines, p)
           /\ FunctionLabels' = FunctionLabels
           /\ \A key : GloblKey(key)' = GloblKey(key)
           /\ \A n, c : Listing(n, c)' = Listing(n, c)
<1>1. Lines' = Lines /\ nodes' = nodes
    BY DEF Lines
<1>2. \A name : FindLabel(name)' = FindLabel(name)
    BY <1>1 DEF FindLabel, FirstLabel
<1>3. \A p : Key(p)' = Key(p) /\ Spelled(Lines, p)' = Spelled(Lines, p)
    BY <1>1 DEF Key
<1>4. \A key : GloblKey(key)' = GloblKey(key)
    BY <1>1 DEF GloblKey
<1>5. \A n, c : Listing(n, c)' = Listing(n, c)
    BY <1>1, <1>3, <1>4 DEF Listing
<1> QED BY <1>1, <1>2, <1>3, <1>4, <1>5 DEF N, FunctionLabels

\* Candidates that a mark at line n is not about.
LEMMA ListingGoesOn ==
    ASSUME NEW n \in Nat, NEW c, Listing(n, c), Marks(Lines) \subseteq Nat,
           n \in Marks(Lines) => Key(n) # TrimPrefix(c.name)
    PROVE  Listing(n + 1, c)
<1>1. \A p \in Marks(Lines) : p < n + 1 <=> p < n \/ p = n
    OBVIOUS
<1>2. FunctionSizes(Lines) \subseteq Marks(Lines)
    BY DEF Marks
<1>3. PICK p \in Marks(Lines) : p < n /\ c.name = Spelled(Lines, p)
    BY DEF Listing
<1>4. p < n + 1
    BY <1>1, <1>3
<1> QED BY <1>1, <1>2, <1>3, <1>4 DEF Listing

\* A mark is added to the candidates.
LEMMA ListMark ==
    ASSUME TInv, Laid(Lines), phase = "scan", nodes = Lines, i \in Marks(Lines), Heard(i), Listed(i),
           UNCHANGED <<source, nodes>>, i' = i + 1,
           NEW end, end = (IF i \in FunctionSizes(Lines) THEN i ELSE 0),
           Add(Spelled(Lines, i), end)
    PROVE  Listed(i)'
<1> DEFINE name == Spelled(Lines, i)
           key == Key(i)
           c == Candidate(name, end)
           Same == {k \in DOMAIN order : TrimPrefix(order[k].name) = key}
<1>1. /\ i \in Nat /\ N \in Nat /\ DOMAIN Lines = 1 .. N /\ Marks(Lines) \subseteq 1 .. N /\ i # 0
      /\ FunctionSizes(Lines) \subseteq Marks(Lines)
    <2>1. Marks(Lines) \subseteq DOMAIN Lines /\ FunctionSizes(Lines) \subseteq Marks(Lines)
        BY DEF Marks, FunctionSizes, Sizes, Begins
    <2> QED BY <2>1, SourceFacts DEF TInv
<1>2. /\ order' = IF Same = {} THEN Append(order, c)
                  ELSE [k \in DOMAIN order |-> IF k \in Same THEN Merge(order[k], c) ELSE order[k]]
      /\ TrimPrefix(name) = key
    BY DEF Add, Key
<1>3. c.name = name /\ c.end = end /\ c.export = (key \in exported)
    BY <1>2 DEF Candidate
<1>4. key \in exported <=> GloblKey(key)
    <2>1. ASSUME NEW g \in DOMAIN Lines, Lines[g].kind = "globl", TrimPrefix(Lines[g].name) = key
          PROVE  g < i
        BY <2>1 DEF Laid, WellPlaced, Key
    <2> QED BY <2>1 DEF GloblKey, Heard
<1>5. end # 0 => end \in FunctionSizes(Lines) /\ end = i /\ Key(end) = key
    OBVIOUS
<1>6. i \in FunctionSizes(Lines) => end # 0
    BY <1>1
<1> HIDE DEF name, key, c
<1>7. ASSUME NEW d, d.name = name, d.export <=> GloblKey(key), d.end = end,
             \A k \in DOMAIN order : TrimPrefix(order[k].name) # key
      PROVE  Listing(i + 1, d)
    <2>1. i < i + 1 /\ d.name = Spelled(Lines, i)
        BY <1>1, <1>7 DEF name
    <2>2. ASSUME NEW p \in FunctionSizes(Lines), p < i + 1, Key(p) = TrimPrefix(d.name) PROVE d.end # 0
        <3>1. p = i
            <4>1. ~ p < i
                BY <1>1, <1>2, <1>7, <2>2 DEF Listed
            <4> QED BY <1>1, <2>2, <4>1
        <3> QED BY <1>6, <1>7, <3>1
    <2> QED BY <1>2, <1>5, <1>7, <2>1, <2>2 DEF Listing
<1>8. ASSUME NEW k \in Same
      PROVE  Listing(i + 1, Merge(order[k], c)) /\ Merge(order[k], c).name = order[k].name
    <2>1. /\ order[k].end \in 0 .. N /\ order[k].export \in BOOLEAN
          /\ TrimPrefix(order[k].name) = key /\ Listing(i, order[k])
        BY FoundFacts DEF TInv, Listed
    <2>2. PICK S : order \in Seq(Candidates(S))
        BY DEF TInv, Discovery
    <2>3. order[k] \in Candidates(S)
        BY <2>2, ElementOfSeq, FoundFacts DEF TInv
    <2> DEFINE d == Merge(order[k], c)
    <2>4. /\ d.name = order[k].name
          /\ d.end = IF end > 0 THEN end ELSE order[k].end
          /\ d.export <=> order[k].export \/ key \in exported
        BY <1>3, <2>3 DEF Merge, Candidates
    <2> HIDE DEF d
    <2>5. d.export <=> GloblKey(key)
        BY <1>4, <2>1, <2>4 DEF Listing
    <2>6. end \in 0 .. N
        BY <1>1
    <2>7. d.end # 0 => d.end \in FunctionSizes(Lines) /\ Key(d.end) = key
        BY <1>5, <2>1, <2>4, <2>6 DEF Listing
    <2>8. ASSUME NEW p \in FunctionSizes(Lines), p < i + 1, Key(p) = key PROVE d.end # 0
        <3>1. CASE p = i
            BY <1>6, <2>4, <2>6, <2>8, <3>1
        <3>2. CASE p < i
            <4>1. order[k].end # 0
                BY <2>1, <2>8, <3>2 DEF Listing
            <4> QED BY <2>1, <2>4, <2>6, <4>1
        <3> QED BY <1>1, <2>8, <3>1, <3>2
    <2>9. \E p \in Marks(Lines) : p < i + 1 /\ d.name = Spelled(Lines, p)
        <3>1. PICK p \in Marks(Lines) : p < i /\ order[k].name = Spelled(Lines, p)
            BY <2>1 DEF Listing
        <3> QED BY <1>1, <2>4, <3>1
    <2> QED BY <2>1, <2>4, <2>5, <2>7, <2>8, <2>9 DEF Listing, d
<1>9. ASSUME NEW k \in DOMAIN order, k \notin Same PROVE Listing(i + 1, order[k])
    <2>1. Key(i) # TrimPrefix(order[k].name) /\ Listing(i, order[k])
        BY <1>9 DEF key, Listed
    <2>2. Marks(Lines) \subseteq Nat
        BY <1>1
    <2> QED BY <1>1, <2>1, <2>2, ListingGoesOn
<1>10. /\ \A n, d : Listing(n, d)' = Listing(n, d)
       /\ \A x : FindLabel(x)' = FindLabel(x)
       /\ Lines' = Lines /\ \A p : Key(p)' = Key(p)
    BY LinesStay
<1>11. CASE Same = {}
    <2>1. /\ DOMAIN order' = 1 .. Len(order) + 1 /\ order'[Len(order) + 1] = c
          /\ \A k \in DOMAIN order : k \in DOMAIN order' /\ order'[k] = order[k]
          /\ Len(order) \in Nat /\ DOMAIN order = 1 .. Len(order)
        <3>1. PICK S : order \in Seq(Candidates(S))
            BY DEF TInv, Discovery
        <3>2. order' = Append(order, c)
            BY <1>2, <1>11
        <3>3. Len(order) \in Nat /\ DOMAIN order = 1 .. Len(order)
            BY FoundFacts DEF TInv
        <3>4. /\ DOMAIN Append(order, c) = 1 .. Len(order) + 1
              /\ Append(order, c)[Len(order) + 1] = c
              /\ \A k \in 1 .. Len(order) : Append(order, c)[k] = order[k]
            <4>1. order \in Seq(Candidates(S) \cup {c})
                BY <3>1, SeqMonotonic
            <4> QED BY <4>1, <3>3, AppendProperties, LenProperties
        <3> QED BY <3>2, <3>3, <3>4
    <2>2. \A k \in DOMAIN order' : k \in DOMAIN order \/ k = Len(order) + 1
        BY <2>1
    <2>3. Listing(i + 1, c)
        BY <1>3, <1>4, <1>7, <1>11
    <2>4. \A k \in DOMAIN order' : Listing(i + 1, order'[k])
        BY <1>9, <1>11, <2>1, <2>2, <2>3
    <2>5. ASSUME NEW p \in Marks(Lines), p < i + 1
          PROVE  \E k \in DOMAIN order' : TrimPrefix(order'[k].name) = Key(p)
        <3>1. CASE p = i
            BY <1>2, <1>3, <2>1, <3>1 DEF key
        <3>2. CASE p < i
            <4>1. PICK k \in DOMAIN order : TrimPrefix(order[k].name) = Key(p)
                BY <3>2 DEF Listed
            <4> QED BY <2>1, <4>1
        <3> QED BY <1>1, <2>5, <3>1, <3>2
    <2>6. ASSUME Sizes(Lines) = {}, NEW k \in DOMAIN order PROVE FindLabel(order[k].name) <= FindLabel(c.name)
        <3>1. PICK p \in Marks(Lines) : p < i /\ order[k].name = Spelled(Lines, p)
            BY DEF Listed, Listing
        <3>2. p \in Begins(Lines) /\ i \in Begins(Lines)
            BY <2>6 DEF Marks, FunctionSizes
        <3>3. FindLabel(order[k].name) = Target(p) /\ FindLabel(c.name) = Target(i)
            BY <1>3, <3>1, MarksLead DEF TInv, name
        <3>4. /\ Target(p) \in FunctionLabels /\ Lines[Target(p)].name = Symbol(Lines, p)
              /\ Target(i) \in FunctionLabels /\ Lines[Target(i)].name = Symbol(Lines, i)
            BY TargetFacts
        <3>5. Target(p) <= Target(i)
            BY <2>6, <3>1, <3>2, <3>4 DEF Laid, WellPlaced, FunctionLabels
        <3> QED BY <3>3, <3>5
    <2>7. ASSUME Sizes(Lines) = {}, NEW k \in DOMAIN order', NEW m \in DOMAIN order', k < m
          PROVE  FindLabel(order'[k].name) <= FindLabel(order'[m].name)
        <3>1. k \in DOMAIN order
            BY <2>1, <2>7
        <3>2. CASE m \in DOMAIN order
            BY <2>1, <2>7, <3>1, <3>2 DEF Listed
        <3>3. CASE m = Len(order) + 1
            BY <2>1, <2>6, <2>7, <3>1, <3>3
        <3> QED BY <2>2, <3>2, <3>3
    <2>8. \A k \in DOMAIN order' : Listing(i, order[k])'
        BY <1>10, <2>4
    <2> QED BY ONLY <1>10, <2>5, <2>7, <2>8, i' = i + 1 DEF Listed
<1>12. CASE Same # {}
    <2>1. /\ DOMAIN order' = DOMAIN order
          /\ \A k \in DOMAIN order : order'[k] = IF k \in Same THEN Merge(order[k], c) ELSE order[k]
        BY <1>2, <1>12
    <2>2. \A k \in DOMAIN order : order'[k].name = order[k].name /\ Listing(i + 1, order'[k])
        BY <1>8, <1>9, <2>1
    <2>3. ASSUME NEW p \in Marks(Lines), p < i + 1
          PROVE  \E k \in DOMAIN order : TrimPrefix(order'[k].name) = Key(p)
        <3>1. CASE p = i
            BY <1>12, <2>2, <3>1 DEF key
        <3>2. CASE p < i
            BY <2>2, <3>2 DEF Listed
        <3> QED BY <1>1, <2>3, <3>1, <3>2
    <2>4. Sizes(Lines) = {} => \A k \in DOMAIN order, m \in DOMAIN order :
             k < m => FindLabel(order'[k].name) <= FindLabel(order'[m].name)
        BY <2>2 DEF Listed
    <2>5. \A k \in DOMAIN order' : Listing(i, order[k])'
        BY <1>10, <2>1, <2>2
    <2> QED BY ONLY <1>10, <2>1, <2>3, <2>4, <2>5, i' = i + 1 DEF Listed
<1> QED BY <1>11, <1>12

\* A line that is no mark leaves the candidates as they are.
LEMMA ListNothing ==
    ASSUME TInv, phase \in Finding, i \notin Marks(Lines), Listed(i), UNCHANGED <<source, nodes, order>>, i' = i + 1
    PROVE  Listed(i)'
<1>1. /\ i \in Nat /\ Marks(Lines) \subseteq Nat
    <2>1. Marks(Lines) \subseteq DOMAIN Lines
        BY DEF Marks, FunctionSizes, Sizes, Begins
    <2> QED BY <2>1, SourceFacts DEF TInv
<1>2. /\ \A n, d : Listing(n, d)' = Listing(n, d)
      /\ \A x : FindLabel(x)' = FindLabel(x)
      /\ Lines' = Lines /\ \A p : Key(p)' = Key(p)
    BY LinesStay
<1>3. \A k \in DOMAIN order : Listing(i + 1, order[k])
    BY <1>1, ListingGoesOn DEF Listed
<1>4. \A k \in DOMAIN order' : Listing(i, order[k])'
    BY <1>2, <1>3
<1>5. \A p \in Marks(Lines) : p < i + 1 => p < i
    BY <1>1
<1> QED BY <1>2, <1>4, <1>5 DEF Listed

\* What is known of candidates does not depend on the stage.
LEMMA ListedStays ==
    ASSUME UNCHANGED <<source, nodes, order>>
    PROVE  \A n : Listed(n)' = Listed(n)
<1>1. /\ \A n, d : Listing(n, d)' = Listing(n, d)
      /\ \A x : FindLabel(x)' = FindLabel(x)
      /\ Lines' = Lines /\ \A p : Key(p)' = Key(p)
    BY LinesStay
<1> QED BY <1>1 DEF Listed

LEMMA BoundedStays ==
    ASSUME UNCHANGED <<source, nodes, order, found>>
    PROVE  \A n : Bounded(n)' = Bounded(n)
<1>1. Lines' = Lines /\ \A x : FindLabel(x)' = FindLabel(x)
    BY LinesStay
<1>2. \A n, b : Bounding(n, b)' = Bounding(n, b)
    BY <1>1 DEF Bounding
<1> QED BY <1>1, <1>2 DEF Bounded

\* The scan: what it has heard of exports and listed of marks.
LEMMA ScanDiscovers ==
    ASSUME TInv, Laid(Lines), phase = "scan", Heard(i), Listed(i),
           ScanGlobl \/ ScanSize \/ ScanBegin \/ ScanOther
    PROVE  Heard(i)' /\ Listed(i)'
<1>1. /\ nodes = Lines /\ DOMAIN Lines = 1 .. N /\ Len(nodes) = N /\ i \in 1 .. N /\ N \in Nat
      /\ UNCHANGED <<source, nodes>> /\ i' = i + 1
    <2>1. UNCHANGED <<source, nodes>> /\ i' = i + 1 /\ Scanning
        BY DEF ScanGlobl, ScanSize, ScanBegin, ScanOther
    <2>2. nodes = Lines /\ DOMAIN Lines = 1 .. N /\ Len(nodes) = N /\ N \in Nat /\ i \in 1 .. N + 1
        BY SourceFacts DEF TInv, Reading, Finding
    <2> QED BY <2>1, <2>2 DEF Scanning
<1>2. Lines' = Lines
    BY <1>1, LinesStay
<1>3. ASSUME Lines[i].kind # "globl", exported' = exported PROVE Heard(i)'
    <2>1. {q \in DOMAIN Lines : q < i + 1 /\ Lines[q].kind = "globl"} = {q \in DOMAIN Lines : q < i /\ Lines[q].kind = "globl"}
        BY <1>1, <1>3
    <2> QED BY <1>1, <1>2, <1>3, <2>1 DEF Heard
<1>4. CASE ScanGlobl
    <2>1. exported' = exported \cup {TrimPrefix(Lines[i].name)} /\ order' = order /\ Lines[i].kind = "globl"
        BY <1>1, <1>4 DEF ScanGlobl
    <2>2. {q \in DOMAIN Lines : q < i + 1 /\ Lines[q].kind = "globl"}
            = {q \in DOMAIN Lines : q < i /\ Lines[q].kind = "globl"} \cup {i}
        BY <1>1, <2>1
    <2>3. Heard(i)'
        BY <1>1, <1>2, <2>1, <2>2 DEF Heard
    <2>4. i \notin Marks(Lines)
        BY <2>1 DEF Marks, FunctionSizes, Sizes, Begins
    <2> QED BY <1>1, <2>1, <2>3, <2>4, ListNothing DEF Finding
<1>5. CASE ScanOther
    <2>1. UNCHANGED <<exported, order>> /\ Lines[i].kind \notin {"globl", "begin"}
        BY <1>1, <1>5 DEF ScanOther, discovery
    <2>2. i \notin Marks(Lines)
        <3>1. i \notin FunctionSizes(Lines)
            <4>1. CASE i \in Sizes(Lines)
                <5>1. KindOf(TrimPrefix(nodes[i].name)) = "object"
                    BY <1>1, <1>5, <4>1 DEF ScanOther, Sizes
                <5> QED BY <1>1, <4>1, <5>1, SizesOfFunctions DEF TInv
            <4>2. CASE i \notin Sizes(Lines)
                BY <4>2 DEF FunctionSizes
            <4> QED BY <4>1, <4>2
        <3> QED BY <2>1, <3>1 DEF Marks, Begins
    <2> QED BY <1>1, <1>3, <2>1, <2>2, ListNothing DEF Finding
<1>6. CASE ScanSize
    <2>1. exported' = exported /\ Lines[i].kind = "size" /\ Add(Lines[i].name, i)
        BY <1>1, <1>6 DEF ScanSize
    <2>2. i \in FunctionSizes(Lines)
        <3>1. i \in Sizes(Lines) /\ KindOf(TrimPrefix(nodes[i].name)) # "object"
            BY <1>1, <1>6, <2>1 DEF ScanSize, Sizes
        <3> QED BY <1>1, <3>1, SizesOfFunctions DEF TInv
    <2>3. Spelled(Lines, i) = Lines[i].name /\ i \in Marks(Lines)
        BY <2>1, <2>2 DEF Spelled, Marks
    <2> QED BY <1>1, <1>3, <2>1, <2>2, <2>3, ListMark
<1>7. CASE ScanBegin
    <2>1. exported' = exported /\ Lines[i].kind = "begin" /\ Add(AddPrefix(Lines[i].name), 0)
        BY <1>1, <1>7 DEF ScanBegin
    <2>2. i \notin FunctionSizes(Lines) /\ i \in Marks(Lines) /\ Spelled(Lines, i) = AddPrefix(Lines[i].name)
        BY <1>1, <2>1 DEF FunctionSizes, Sizes, Marks, Begins, Spelled
    <2> QED BY <1>1, <1>3, <2>1, <2>2, ListMark
<1> QED BY <1>4, <1>5, <1>6, <1>7

\* The second pass: the candidate i gets its label, or joins another of that label.
LEMMA BoundDiscovers ==
    ASSUME TInv, Laid(Lines), phase = "bounds", Listed(N + 1), Bounded(i), FindBounds
    PROVE  Bounded(i)'
<1> DEFINE label == FindLabel(order[i].name)
           Same == SameLabel(label)
           b == [name |-> order[i].name, end |-> order[i].end, export |-> order[i].export, label |-> label]
<1>1. /\ i \in DOMAIN order /\ i \in Nat /\ DOMAIN order = 1 .. Len(order) /\ Len(order) \in Nat
      /\ nodes = Lines /\ UNCHANGED <<source, nodes, order>> /\ i' = i + 1
      /\ \A k \in DOMAIN order : order[k].end \in 0 .. N /\ order[k].export \in BOOLEAN
    <2>1. i <= Len(order) /\ UNCHANGED <<source, nodes, order>> /\ i' = i + 1
        BY DEF FindBounds
    <2>2. i \in 1 .. N + 1 /\ N \in Nat /\ nodes = Lines
        BY SourceFacts DEF TInv, Reading, Finding
    <2> QED BY <2>1, <2>2, FoundFacts DEF TInv
<1>2. /\ found' = IF Same = {} THEN Append(found, b)
                  ELSE [k \in DOMAIN found |-> IF k \in Same THEN Merge(found[k], order[i]) ELSE found[k]]
    BY DEF FindBounds
<1>3. label \in 1 .. N
    <2>1. PICK p \in Marks(Lines) : order[i].name = Spelled(Lines, p)
        BY <1>1 DEF Listed, Listing
    <2> QED BY <1>1, <2>1, MarksLead DEF TInv
<1>4. Same = {k \in DOMAIN found : found[k].label = label}
    <2>1. N \in Nat
        BY SourceFacts DEF TInv
    <2> QED BY <1>3, <2>1 DEF SameLabel
<1>5. \A k \in DOMAIN order : k < i + 1 <=> k < i \/ k = i
    BY <1>1
<1> HIDE DEF label, Same
<1>6. ASSUME NEW r \in DOMAIN found, r \notin Same PROVE Bounding(i + 1, found[r])
    <2>1. Bounding(i, found[r]) /\ found[r].label # label
        BY <1>4, <1>6 DEF Bounded
    <2> QED BY <1>5, <2>1 DEF Bounding, label
<1>7. ASSUME NEW r \in Same
      PROVE  Bounding(i + 1, Merge(found[r], order[i])) /\ Merge(found[r], order[i]).label = label
    <2>1. r \in DOMAIN found /\ Bounding(i, found[r]) /\ found[r].label = label
        BY <1>4 DEF Bounded
    <2>2. PICK T : found \in Seq(Bounds(T))
        BY DEF TInv, Discovery
    <2>3. found[r] \in Bounds(T)
        BY <2>1, <2>2, ElementOfSeq, FoundFacts DEF TInv
    <2> DEFINE d == Merge(found[r], order[i])
    <2>4. /\ d.name = found[r].name /\ d.label = label
          /\ d.end = IF order[i].end > 0 THEN order[i].end ELSE found[r].end
          /\ d.export <=> found[r].export \/ order[i].export
        BY <2>1, <2>3 DEF Merge, Bounds
    <2>5. order[i].end \in 0 .. N /\ N \in Nat
        BY <1>1, SourceFacts DEF TInv
    <2> HIDE DEF d
    <2>6. \E k \in DOMAIN order : k < i + 1 /\ d.name = order[k].name /\ d.label = FindLabel(order[k].name)
        BY <1>5, <2>1, <2>4 DEF Bounding
    <2>7. d.end # 0 => \E k \in DOMAIN order : d.end = order[k].end /\ d.label = FindLabel(order[k].name)
        BY <1>1, <2>1, <2>4, <2>5 DEF Bounding, label
    <2>8. \A k \in DOMAIN order : k < i + 1 /\ d.label = FindLabel(order[k].name) /\ order[k].end # 0 => d.end # 0
        BY <1>5, <2>1, <2>4, <2>5 DEF Bounding
    <2>9. d.export <=> \E k \in DOMAIN order : k < i + 1 /\ d.label = FindLabel(order[k].name) /\ order[k].export
        <3>1. found[r].export <=> \E k \in DOMAIN order : k < i /\ label = FindLabel(order[k].name) /\ order[k].export
            BY <2>1 DEF Bounding
        <3> QED BY <1>1, <1>5, <2>4, <3>1 DEF label
    <2> QED BY <2>4, <2>6, <2>7, <2>8, <2>9 DEF Bounding, d
<1>8. /\ \A x : FindLabel(x)' = FindLabel(x)
      /\ Lines' = Lines
    BY <1>1, LinesStay
<1>9. \A n, d : Bounding(n, d)' = Bounding(n, d)
    BY <1>1, <1>8 DEF Bounding
<1>10. CASE Same = {}
    <2>1. /\ DOMAIN found' = 1 .. Len(found) + 1 /\ found'[Len(found) + 1] = b
          /\ \A k \in DOMAIN found : k \in DOMAIN found' /\ found'[k] = found[k]
          /\ Len(found) \in Nat /\ DOMAIN found = 1 .. Len(found)
        <3>1. PICK S : found \in Seq(Bounds(S))
            BY DEF TInv, Discovery
        <3>2. found' = Append(found, b)
            BY <1>2, <1>10
        <3>3. Len(found) \in Nat /\ DOMAIN found = 1 .. Len(found)
            BY FoundFacts DEF TInv
        <3>4. /\ DOMAIN Append(found, b) = 1 .. Len(found) + 1
              /\ Append(found, b)[Len(found) + 1] = b
              /\ \A k \in 1 .. Len(found) : Append(found, b)[k] = found[k]
            <4>1. found \in Seq(Bounds(S) \cup {b})
                BY <3>1, SeqMonotonic
            <4> QED BY <4>1, <3>3, AppendProperties, LenProperties
        <3> QED BY <3>2, <3>3, <3>4
    <2>2. \A k \in DOMAIN found' : k \in DOMAIN found \/ k = Len(found) + 1
        BY <2>1
    <2>3. \A k \in DOMAIN found : found[k].label # label
        BY <1>4, <1>10
    <2>4. \A k \in DOMAIN order : k < i => FindLabel(order[k].name) # label
        BY <2>3 DEF Bounded
    <2>5. b.name = order[i].name /\ b.end = order[i].end /\ b.export = order[i].export /\ b.label = label
        OBVIOUS
    <2> HIDE DEF b
    <2>6. Bounding(i + 1, b)
        BY <1>1, <1>5, <2>4, <2>5 DEF Bounding, label
    <2>7. \A k \in DOMAIN found' : Bounding(i + 1, found'[k])
        BY <1>6, <1>10, <2>1, <2>2, <2>6
    <2>8. \A k \in DOMAIN order : k < i + 1 => \E m \in DOMAIN found' : found'[m].label = FindLabel(order[k].name)
        <3>1. ASSUME NEW k \in DOMAIN order, k < i PROVE \E m \in DOMAIN found' : found'[m].label = FindLabel(order[k].name)
            BY <2>1, <3>1 DEF Bounded
        <3>2. found'[Len(found) + 1].label = FindLabel(order[i].name) /\ Len(found) + 1 \in DOMAIN found'
            BY <2>1, <2>5 DEF label
        <3> QED BY <1>5, <3>1, <3>2
    <2>9. \A m \in DOMAIN found', r \in DOMAIN found' : m # r => found'[m].label # found'[r].label
        BY <2>1, <2>2, <2>3, <2>5 DEF Bounded
    <2>10. ASSUME Sizes(Lines) = {}, NEW m \in DOMAIN found', NEW r \in DOMAIN found', m < r
           PROVE  found'[m].label < found'[r].label
        <3>1. m \in DOMAIN found
            BY <2>1, <2>10
        <3>2. CASE r \in DOMAIN found
            BY <2>1, <2>10, <3>1, <3>2 DEF Bounded
        <3>3. CASE r = Len(found) + 1
            <4>1. PICK k \in DOMAIN order : k < i /\ found[m].label = FindLabel(order[k].name)
                BY <3>1 DEF Bounded, Bounding
            <4>2. found[m].label <= label
                BY <1>1, <2>10, <4>1 DEF Listed, label
            <4>3. found[m].label \in Nat
                BY <3>1, FoundFacts DEF TInv
            <4> QED BY <1>3, <2>1, <2>3, <2>5, <3>1, <3>3, <4>2, <4>3
        <3> QED BY <2>2, <3>2, <3>3
    <2>11. \A k \in DOMAIN found' : Bounding(i, found[k])'
        BY <1>1, <1>9, <2>7
    <2> QED BY ONLY <1>1, <1>8, <2>8, <2>9, <2>10, <2>11 DEF Bounded
<1>11. CASE Same # {}
    <2>1. /\ DOMAIN found' = DOMAIN found
          /\ \A k \in DOMAIN found : found'[k] = IF k \in Same THEN Merge(found[k], order[i]) ELSE found[k]
        BY <1>2, <1>11
    <2>2. \A k \in DOMAIN found : found'[k].label = found[k].label /\ Bounding(i + 1, found'[k])
        BY <1>4, <1>6, <1>7, <2>1
    <2>3. \A k \in DOMAIN order : k < i + 1 => \E m \in DOMAIN found' : found'[m].label = FindLabel(order[k].name)
        <3>1. ASSUME NEW k \in DOMAIN order, k < i PROVE \E m \in DOMAIN found' : found'[m].label = FindLabel(order[k].name)
            BY <2>1, <2>2, <3>1 DEF Bounded
        <3>2. \E m \in DOMAIN found' : found'[m].label = FindLabel(order[i].name)
            BY <1>4, <1>11, <2>1, <2>2 DEF label
        <3> QED BY <1>5, <3>1, <3>2
    <2>4. \A m \in DOMAIN found', r \in DOMAIN found' : m # r => found'[m].label # found'[r].label
        BY <2>1, <2>2 DEF Bounded
    <2>5. Sizes(Lines) = {} => \A m \in DOMAIN found', r \in DOMAIN found' : m < r => found'[m].label < found'[r].label
        BY <2>1, <2>2 DEF Bounded
    <2>6. \A k \in DOMAIN found' : Bounding(i, found[k])'
        BY <1>1, <1>9, <2>1, <2>2
    <2> QED BY ONLY <1>1, <1>8, <2>3, <2>4, <2>5, <2>6 DEF Bounded
<1> QED BY <1>10, <1>11

-----------------------------------------------------------------------------
LEMMA KeyTarget ==
    ASSUME Laid(Lines), NEW p \in Marks(Lines), NEW r \in Marks(Lines), Key(p) = Key(r)
    PROVE  Target(p) = Target(r)
BY LaidFacts, TargetFacts

\* What has been found when all candidates have their labels.
LEMMA FoundAll ==
    ASSUME TInv, Laid(Lines), nodes = Lines, Listed(N + 1), Bounded(N + 1)
    PROVE  /\ \A q \in FunctionLabels : \E m \in DOMAIN found : found[m].label = q
           /\ \A m \in DOMAIN found :
                /\ \E p \in Marks(Lines) : found[m].name = Spelled(Lines, p) /\ found[m].label = Target(p)
                /\ found[m].end # 0 => found[m].end \in FunctionSizes(Lines) /\ Target(found[m].end) = found[m].label
                /\ Sizes(Lines) # {} => found[m].end # 0
                /\ found[m].export <=> Lines[found[m].label].name \in Exported
<1>1. /\ N \in Nat /\ DOMAIN Lines = 1 .. N /\ Marks(Lines) \subseteq 1 .. N
      /\ FunctionSizes(Lines) \subseteq Marks(Lines)
    <2>1. Marks(Lines) \subseteq DOMAIN Lines /\ FunctionSizes(Lines) \subseteq Marks(Lines)
        BY DEF Marks, FunctionSizes, Sizes, Begins
    <2> QED BY <2>1, SourceFacts DEF TInv
<1>2. \A k \in DOMAIN order : k < N + 1 /\ order[k].end \in 0 .. N
    <2>1. Len(order) <= N /\ DOMAIN order = 1 .. Len(order) /\ Len(order) \in Nat
        BY FoundFacts DEF TInv, Discovery
    <2> QED BY <1>1, <2>1, FoundFacts DEF TInv
<1>3. \A p \in Marks(Lines) : p < N + 1
    BY <1>1
<1>4. ASSUME NEW k \in DOMAIN order
      PROVE  \E p \in Marks(Lines) : /\ order[k].name = Spelled(Lines, p) /\ Key(p) = TrimPrefix(order[k].name)
                                     /\ FindLabel(order[k].name) = Target(p)
    <2>1. PICK p \in Marks(Lines) : order[k].name = Spelled(Lines, p)
        BY DEF Listed, Listing
    <2> QED BY <2>1, MarksLead DEF TInv, Key
<1>5. ASSUME NEW p \in Marks(Lines)
      PROVE  \E k \in DOMAIN order : TrimPrefix(order[k].name) = Key(p) /\ FindLabel(order[k].name) = Target(p)
    <2>1. PICK k \in DOMAIN order : TrimPrefix(order[k].name) = Key(p)
        BY <1>3 DEF Listed
    <2>2. PICK r \in Marks(Lines) : Key(r) = TrimPrefix(order[k].name) /\ FindLabel(order[k].name) = Target(r)
        BY <1>4
    <2> QED BY <2>1, <2>2, KeyTarget
<1>6. ASSUME NEW q \in FunctionLabels PROVE \E m \in DOMAIN found : found[m].label = q
    <2>1. PICK p \in Marks(Lines) : Symbol(Lines, p) = Lines[q].name
        BY MarkOfLabel
    <2>2. Target(p) = q
        BY <2>1, TargetFacts
    <2>3. PICK k \in DOMAIN order : FindLabel(order[k].name) = Target(p)
        BY <1>5
    <2> QED BY <1>2, <2>2, <2>3 DEF Bounded
<1>7. ASSUME NEW m \in DOMAIN found
      PROVE  /\ \E p \in Marks(Lines) : found[m].name = Spelled(Lines, p) /\ found[m].label = Target(p)
             /\ found[m].end # 0 => found[m].end \in FunctionSizes(Lines) /\ Target(found[m].end) = found[m].label
             /\ Sizes(Lines) # {} => found[m].end # 0
             /\ found[m].export <=> Lines[found[m].label].name \in Exported
    <2>1. Bounding(N + 1, found[m])
        BY DEF Bounded
    <2> DEFINE b == found[m]
               q == b.label
    <2>2. PICK p \in Marks(Lines) : b.name = Spelled(Lines, p) /\ q = Target(p)
        <3>1. PICK k \in DOMAIN order : b.name = order[k].name /\ b.label = FindLabel(order[k].name)
            BY <2>1 DEF Bounding
        <3> QED BY <1>4, <3>1
    <2>3. q \in FunctionLabels
        BY <2>2, TargetFacts
    <2>4. ASSUME b.end # 0 PROVE b.end \in FunctionSizes(Lines) /\ Target(b.end) = q
        <3>1. PICK k \in DOMAIN order : b.end = order[k].end /\ q = FindLabel(order[k].name)
            BY <2>1, <2>4 DEF Bounding
        <3>2. b.end \in FunctionSizes(Lines) /\ Key(b.end) = TrimPrefix(order[k].name)
            BY <2>4, <3>1 DEF Listed, Listing
        <3>3. PICK r \in Marks(Lines) : Key(r) = TrimPrefix(order[k].name) /\ FindLabel(order[k].name) = Target(r)
            BY <1>4
        <3> QED BY <1>1, <3>1, <3>2, <3>3, KeyTarget
    <2>5. ASSUME Sizes(Lines) # {} PROVE b.end # 0
        <3>1. PICK s \in FunctionSizes(Lines) : Lines[s].name = Lines[q].name
            BY <2>3, <2>5, MarkOfLabel
        <3>2. Target(s) = q
            BY <1>1, <2>3, <2>5, <3>1, TargetFacts DEF Symbol
        <3>3. PICK k \in DOMAIN order : TrimPrefix(order[k].name) = Key(s) /\ FindLabel(order[k].name) = q
            BY <1>1, <1>5, <3>2
        <3>4. order[k].end # 0
            BY <1>1, <1>3, <3>3 DEF Listed, Listing
        <3> QED BY <1>2, <2>1, <3>3, <3>4 DEF Bounding
    <2>6. ASSUME b.export PROVE Lines[q].name \in Exported
        <3>1. PICK k \in DOMAIN order : q = FindLabel(order[k].name) /\ order[k].export
            BY <2>1, <2>6 DEF Bounding
        <3>2. PICK g \in DOMAIN Lines : Lines[g].kind = "globl" /\ TrimPrefix(Lines[g].name) = TrimPrefix(order[k].name)
            BY <3>1 DEF Listed, Listing, GloblKey
        <3>3. PICK r \in Marks(Lines) : Key(r) = TrimPrefix(order[k].name) /\ FindLabel(order[k].name) = Target(r)
            BY <1>4
        <3>4. Lines[g].name = Symbol(Lines, r)
            BY <3>2, <3>3 DEF Laid, WellPlaced, Key
        <3>5. Lines[g].name = Lines[q].name
            BY <3>1, <3>3, <3>4, TargetFacts
        <3> QED BY <3>2, <3>5 DEF Exported
    <2>7. ASSUME Lines[q].name \in Exported PROVE b.export
        <3>1. PICK g \in DOMAIN Lines : Lines[g].kind = "globl" /\ Lines[g].name = Lines[q].name
            BY <2>7 DEF Exported
        <3>2. PICK r \in Marks(Lines) : Spelled(Lines, r) = Lines[q].name /\ Symbol(Lines, r) = Lines[q].name
            BY <2>3, MarkOfLabel
        <3>3. Target(r) = q /\ Key(r) = TrimPrefix(Lines[g].name)
            BY <2>3, <3>1, <3>2, TargetFacts DEF Key
        <3>4. PICK k \in DOMAIN order : TrimPrefix(order[k].name) = Key(r) /\ FindLabel(order[k].name) = q
            BY <1>5, <3>3
        <3>5. order[k].export
            BY <3>1, <3>3, <3>4 DEF Listed, Listing, GloblKey
        <3> QED BY <1>2, <2>1, <3>4, <3>5 DEF Bounding
    <2>8. found[m].export \in BOOLEAN
        BY FoundFacts DEF TInv
    <2> QED BY <2>2, <2>4, <2>5, <2>6, <2>7, <2>8
<1> QED BY <1>6, <1>7

\* No function's label is in the lines up to the end of another, and no code of
\* the function is behind.
LEMMA EndFacts ==
    ASSUME TInv, Laid(Lines), nodes = Lines, Listed(N + 1), Bounded(N + 1), NEW k \in DOMAIN found
    PROVE  /\ found[k].label \in FunctionLabels /\ found[k].label \in 1 .. N /\ FunctionEnd(k) \in 1 .. N + 1
           /\ \A r \in FunctionLabels : r > found[k].label => r >= FunctionEnd(k)
           /\ \A r \in DOMAIN Lines : Lines[r].kind \in {"inst", "synthetic"} /\ found[k].label \in Owner(Lines, r)
                => r < FunctionEnd(k)
           /\ FunctionEnd(k) > found[k].label
           /\ FunctionEnd(k) \in DOMAIN Lines => Lines[FunctionEnd(k)].kind \in {"size", "label"}
           /\ \/ FunctionEnd(k) \in FunctionSizes(Lines) /\ Lines[FunctionEnd(k)].name = Lines[found[k].label].name
              \/ FunctionSizes(Lines) = {} /\ FunctionEnd(k) \in FunctionLabels \cup {N + 1}
<1> DEFINE q == found[k].label
<1>1. /\ N \in Nat /\ DOMAIN Lines = 1 .. N /\ Len(nodes) = N
      /\ DOMAIN found = 1 .. Len(found) /\ Len(found) \in Nat
      /\ \A m \in DOMAIN found : found[m].label \in 0 .. N /\ found[m].end \in 0 .. N
    BY SourceFacts, FoundFacts DEF TInv
<1>2. PICK p \in Marks(Lines) : q = Target(p)
    BY FoundAll
<1>3. q \in FunctionLabels /\ q \in 1 .. N /\ Lines[q].kind = "label"
    BY <1>1, <1>2, TargetFacts DEF FunctionLabels, LabelsOfFunctions
<1>4. \A r \in FunctionLabels : r \in 1 .. N /\ Lines[r].kind = "label"
    BY <1>1 DEF FunctionLabels, LabelsOfFunctions
<1>5. CASE Sizes(Lines) # {}
    <2> DEFINE s == found[k].end
    <2>1. s \in FunctionSizes(Lines) /\ Target(s) = q
        BY <1>5, FoundAll
    <2>2. Lines[s].name = Lines[q].name /\ Lines[s].kind = "size" /\ s \in 1 .. N
        <3>1. s \in Marks(Lines)
            BY <2>1 DEF Marks
        <3> QED BY <1>1, <1>5, <2>1, <3>1, TargetFacts DEF Symbol, FunctionSizes, Sizes
    <2>3. /\ q \in Owner(Lines, s)
          /\ \A r \in DOMAIN Lines : Lines[r].kind \in {"inst", "synthetic"} /\ r > s => q \notin Owner(Lines, r)
        BY <1>3, <2>1, <2>2 DEF Laid, WellPlaced, FunctionLabels
    <2>4. q < s /\ \A r \in FunctionLabels : r < s => r <= q
        BY <2>3 DEF Owner, FunctionLabels
    <2>5. FunctionEnd(k) = s
        BY <1>1, <1>3, <2>2, <2>4 DEF FunctionEnd
    <2>6. ASSUME NEW r \in FunctionLabels, r > q PROVE r >= s
        BY <1>3, <1>4, <2>2, <2>4, <2>6
    <2>7. ASSUME NEW r \in DOMAIN Lines, Lines[r].kind \in {"inst", "synthetic"}, q \in Owner(Lines, r) PROVE r < s
        BY <1>1, <2>2, <2>3, <2>7
    <2>8. s \in 1 .. N + 1 /\ s > q
        BY <1>1, <1>3, <2>2, <2>4
    <2> HIDE DEF s
    <2> QED BY <1>3, <2>1, <2>2, <2>5, <2>6, <2>7, <2>8
<1>6. CASE Sizes(Lines) = {}
    <2>1. found[k].end = 0
        BY <1>6, FoundAll DEF FunctionSizes
    <2>2. \A m \in DOMAIN found, r \in DOMAIN found : m < r => found[m].label < found[r].label
        BY <1>6 DEF Bounded
    <2>3. ASSUME NEW r \in FunctionLabels, r > q PROVE k < Len(found) /\ r >= found[k + 1].label
        <3>1. PICK m \in DOMAIN found : found[m].label = r
            BY FoundAll
        <3>2. m > k
            BY <1>1, <2>2, <2>3, <3>1
        <3>3. k + 1 \in DOMAIN found /\ k < Len(found)
            BY <1>1, <3>2
        <3>4. m = k + 1 \/ k + 1 < m
            BY <1>1, <3>2
        <3> QED BY <1>1, <2>2, <3>1, <3>3, <3>4
    <2>4. ASSUME k < Len(found) PROVE found[k + 1].label \in FunctionLabels /\ found[k + 1].label > q
        <3>1. k + 1 \in DOMAIN found /\ k < k + 1
            BY <1>1, <2>4
        <3>2. PICK s \in Marks(Lines) : found[k + 1].label = Target(s)
            BY <3>1, FoundAll
        <3> QED BY <1>1, <2>2, <3>1, <3>2, TargetFacts
    <2> DEFINE e == IF k < Len(found) THEN found[k + 1].label ELSE N + 1
    <2>5. FunctionEnd(k) = e
        <3>1. ~ found[k].end > found[k].label
            BY <1>3, <2>1
        <3>2. k < Len(found) => found[k + 1].label > 0
            BY <1>4, <2>4
        <3> QED BY <1>1, <3>1, <3>2 DEF FunctionEnd
    <2>6. e \in 1 .. N + 1 /\ \A r \in FunctionLabels : r > q => r >= e
        BY <1>1, <1>4, <2>3, <2>4
    <2>7. ASSUME NEW r \in DOMAIN Lines, Lines[r].kind \in {"inst", "synthetic"}, q \in Owner(Lines, r) PROVE r < e
        <3>1. \A s \in FunctionLabels : s < r => s <= q
            BY <2>7 DEF Owner, FunctionLabels
        <3>2. CASE k < Len(found)
            <4>1. e \in FunctionLabels /\ e > q /\ e \in 1 .. N /\ Lines[e].kind = "label"
                BY <1>4, <2>4, <3>2
            <4>2. e # r /\ ~ e < r
                BY <1>1, <1>3, <2>7, <3>1, <4>1
            <4> QED BY <1>1, <4>1, <4>2
        <3>3. CASE ~ k < Len(found)
            BY <1>1, <3>3
        <3> QED BY <3>2, <3>3
    <2>8. e > q /\ e \in FunctionLabels \cup {N + 1} /\ FunctionSizes(Lines) = {}
        BY <1>1, <1>3, <1>6, <2>4 DEF FunctionSizes
    <2>9. e \in DOMAIN Lines => Lines[e].kind = "label"
        BY <1>1, <1>4, <2>8
    <2> HIDE DEF e
    <2> QED BY <1>3, <2>5, <2>6, <2>7, <2>8, <2>9
<1> QED BY <1>5, <1>6

\* What BodiesOwnTheirCode says, at any stage, and which lines bodies have.
BodiesRight ==
    /\ \A q \in FunctionLabels : \E k \in DOMAIN funcs : funcs[k].first = q + 1
    /\ \A q \in FunctionLabels, k \in DOMAIN funcs :
         funcs[k].name \in {Lines[q].name, GoName(Lines[q].name)} => funcs[k].first = q + 1
    /\ \A k \in DOMAIN funcs : funcs[k].export <=> Lines[funcs[k].first - 1].name \in Exported
    /\ \A k \in DOMAIN funcs : \A p \in Body(k) :
         p \notin FunctionLabels /\ funcs[k].first - 1 \in Owner(Lines, p)
    /\ \A k \in DOMAIN funcs, p \in DOMAIN Lines :
         Lines[p].kind \in {"inst", "synthetic"} /\ funcs[k].first - 1 \in Owner(Lines, p) => p \in Body(k)
    /\ \A k \in DOMAIN funcs :
         /\ funcs[k].first - 1 \in FunctionLabels /\ Body(k) = BodyOf(Lines, funcs[k].first - 1)
         /\ \E p \in Marks(Lines) : funcs[k].name = GoName(Spelled(Lines, p))
                                     /\ Symbol(Lines, p) = Lines[funcs[k].first - 1].name
         /\ funcs[k].last + 1 \in DOMAIN Lines => Lines[funcs[k].last + 1].kind \in {"size", "label"}
    /\ \A k \in DOMAIN funcs, m \in DOMAIN funcs : funcs[k].first = funcs[m].first => k = m

\* So the bodies are right once every candidate has become a function.
LEMMA BodiesFromFound ==
    ASSUME TInv, Laid(Lines), nodes = Lines, Listed(N + 1), Bounded(N + 1), Made(i), i > Len(found)
    PROVE  BodiesRight
<1>1. /\ DOMAIN funcs = DOMAIN found
      /\ \A k \in DOMAIN funcs :
           /\ funcs[k].name = GoName(found[k].name) /\ funcs[k].first = found[k].label + 1
           /\ funcs[k].last = FunctionEnd(k) - 1 /\ funcs[k].export = found[k].export
    <2>1. /\ DOMAIN funcs = 1 .. Len(funcs) /\ DOMAIN found = 1 .. Len(found)
          /\ Len(funcs) \in Nat /\ Len(found) \in Nat /\ i \in Nat
        BY SourceFacts, FoundFacts DEF TInv
    <2>2. Len(funcs) >= Len(found) /\ \A k \in DOMAIN funcs : k \in DOMAIN found
        BY <2>1 DEF Made
    <2>3. Len(funcs) = Len(found)
        <3>1. ASSUME Len(funcs) > Len(found) PROVE FALSE
            <4>1. Len(funcs) \in DOMAIN funcs
                BY <2>1, <3>1
            <4> QED BY <2>1, <2>2, <3>1, <4>1
        <3>2. \A a, b \in Nat : a >= b /\ ~ a > b => a = b
            BY ONLY TRUE
        <3> QED BY ONLY <2>1, <2>2, <3>1, <3>2, Zenon
    <2>4. DOMAIN funcs = DOMAIN found
        BY <2>1, <2>3
    <2>5. ASSUME NEW k \in DOMAIN funcs
          PROVE  /\ funcs[k].name = GoName(found[k].name) /\ funcs[k].first = found[k].label + 1
                 /\ funcs[k].last = FunctionEnd(k) - 1 /\ funcs[k].export = found[k].export
        <3>1. funcs[k] = [name |-> GoName(found[k].name), first |-> found[k].label + 1,
                          last |-> FunctionEnd(k) - 1, export |-> found[k].export]
            BY DEF Made
        <3> QED BY ONLY <3>1
    <2> QED BY <2>4, <2>5
<1>2. DOMAIN Lines = 1 .. N /\ N \in Nat /\ \A r \in FunctionLabels : r \in 1 .. N
    <2>1. \A r \in FunctionLabels : r \in DOMAIN Lines
        BY DEF FunctionLabels, LabelsOfFunctions
    <2> QED BY <2>1, SourceFacts DEF TInv
<1>3. \A q \in FunctionLabels : \E k \in DOMAIN funcs : funcs[k].first = q + 1
    BY <1>1, FoundAll
<1>4. ASSUME NEW q \in FunctionLabels, NEW k \in DOMAIN funcs,
             funcs[k].name \in {Lines[q].name, GoName(Lines[q].name)}
      PROVE  funcs[k].first = q + 1
    <2>1. PICK p \in Marks(Lines) : found[k].name = Spelled(Lines, p) /\ found[k].label = Target(p)
        BY <1>1, FoundAll
    <2>2. Symbol(Lines, p) = Lines[q].name
        BY <1>1, <1>4, <2>1, LaidFacts
    <2>3. Target(p) = q
        BY <2>2, TargetFacts
    <2> QED BY <1>1, <2>1, <2>3
<1>5. ASSUME NEW k \in DOMAIN funcs
      PROVE  /\ found[k].label = funcs[k].first - 1 /\ found[k].label \in FunctionLabels
             /\ found[k].label \in 1 .. N
             /\ funcs[k].first = found[k].label + 1 /\ funcs[k].last = FunctionEnd(k) - 1
             /\ FunctionEnd(k) \in 1 .. N + 1
    BY <1>1, <1>2, EndFacts
<1>6. \A k \in DOMAIN funcs : funcs[k].export <=> Lines[funcs[k].first - 1].name \in Exported
    BY <1>1, <1>5, FoundAll
<1>7. ASSUME NEW k \in DOMAIN funcs, NEW p \in Body(k)
      PROVE  p \notin FunctionLabels /\ funcs[k].first - 1 \in Owner(Lines, p)
    <2> DEFINE q == found[k].label
    <2>1. q < p /\ p < FunctionEnd(k) /\ p \in Int
        BY <1>2, <1>5 DEF Body
    <2>2. \A r \in FunctionLabels : r > q => r >= FunctionEnd(k)
        BY <1>1, EndFacts
    <2>3. p \notin FunctionLabels
        BY <1>2, <1>5, <2>1, <2>2
    <2>4. \A r \in FunctionLabels : r < p => r <= q
        BY <1>2, <1>5, <2>1, <2>2
    <2>5. q \in Owner(Lines, p)
        BY <1>5, <2>1, <2>4 DEF Owner, FunctionLabels
    <2> QED BY <1>5, <2>3, <2>5
<1>8. ASSUME NEW k \in DOMAIN funcs, NEW p \in DOMAIN Lines, Lines[p].kind \in {"inst", "synthetic"},
             funcs[k].first - 1 \in Owner(Lines, p)
      PROVE  p \in Body(k)
    <2>1. found[k].label \in Owner(Lines, p)
        BY <1>5, <1>8
    <2>2. p < FunctionEnd(k)
        BY <1>1, <1>8, <2>1, EndFacts
    <2>3. found[k].label < p
        BY <2>1 DEF Owner
    <2> QED BY <1>2, <1>5, <2>2, <2>3 DEF Body
<1>9. ASSUME NEW k \in DOMAIN funcs
      PROVE  /\ funcs[k].first - 1 \in FunctionLabels /\ Body(k) = BodyOf(Lines, funcs[k].first - 1)
             /\ \E p \in Marks(Lines) : funcs[k].name = GoName(Spelled(Lines, p))
                                        /\ Symbol(Lines, p) = Lines[funcs[k].first - 1].name
             /\ funcs[k].last + 1 \in DOMAIN Lines => Lines[funcs[k].last + 1].kind \in {"size", "label"}
    <2> DEFINE q == found[k].label
               e == FunctionEnd(k)
    <2>1. q = funcs[k].first - 1 /\ q \in FunctionLabels /\ q \in 1 .. N /\ e \in 1 .. N + 1 /\ funcs[k].last + 1 = e
          /\ Body(k) = q + 1 .. e - 1
        BY <1>2, <1>5 DEF Body
    <2>2. /\ e > q /\ \A r \in FunctionLabels : r > q => r >= e
          /\ e \in DOMAIN Lines => Lines[e].kind \in {"size", "label"}
          /\ \/ e \in FunctionSizes(Lines) /\ Lines[e].name = Lines[q].name
             \/ FunctionSizes(Lines) = {} /\ e \in FunctionLabels \cup {N + 1}
        BY <1>1, EndFacts
    <2> HIDE DEF q, e
    <2>3. ASSUME NEW p \in Body(k) PROVE p \in BodyOf(Lines, q)
        <3>1. p \in DOMAIN Lines /\ p < e
            BY <1>2, <2>1
        <3>2. \A s \in FunctionSizes(Lines) : Lines[s].name = Lines[q].name => s = e
            BY <2>2 DEF Laid, WellPlaced
        <3>3. p \notin FunctionLabels /\ q \in Owner(Lines, p)
            BY <1>7, <2>1
        <3> QED BY <3>1, <3>2, <3>3 DEF BodyOf, FunctionLabels
    <2>4. ASSUME NEW p \in BodyOf(Lines, q) PROVE p \in Body(k)
        <3>1. /\ p \in DOMAIN Lines /\ p \notin FunctionLabels /\ q < p
              /\ \A r \in FunctionLabels : r < p => r <= q
              /\ \A s \in FunctionSizes(Lines) : Lines[s].name = Lines[q].name => p < s
            BY DEF BodyOf, Owner, FunctionLabels
        <3>2. p < e
            <4>1. CASE e \in FunctionSizes(Lines) /\ Lines[e].name = Lines[q].name
                BY <3>1, <4>1
            <4>2. CASE e = N + 1
                BY <1>2, <3>1, <4>2
            <4>3. CASE e \in FunctionLabels
                <5>1. ~ e < p /\ e # p
                    BY <1>2, <2>1, <2>2, <3>1, <4>3
                <5> QED BY <1>2, <2>1, <3>1, <5>1
            <4> QED BY <2>2, <4>1, <4>2, <4>3
        <3> QED BY <1>2, <2>1, <3>1, <3>2
    <2>5. Body(k) = BodyOf(Lines, q)
        <3>1. Body(k) \subseteq BodyOf(Lines, q)
            BY <2>3
        <3>2. BodyOf(Lines, q) \subseteq Body(k)
            BY <2>4
        <3> QED BY <3>1, <3>2
    <2>6. \E p \in Marks(Lines) : funcs[k].name = GoName(Spelled(Lines, p)) /\ Symbol(Lines, p) = Lines[q].name
        <3>1. PICK p \in Marks(Lines) : found[k].name = Spelled(Lines, p) /\ found[k].label = Target(p)
            BY <1>1, FoundAll
        <3>2. Lines[q].name = Symbol(Lines, p)
            BY <3>1, TargetFacts DEF q
        <3> QED BY <1>1, <3>1, <3>2
    <2> QED BY <2>1, <2>2, <2>5, <2>6
<1>10. \A k \in DOMAIN funcs, m \in DOMAIN funcs : funcs[k].first = funcs[m].first => k = m
    <2>1. \A k \in DOMAIN found, m \in DOMAIN found : k # m => found[k].label # found[m].label
        BY DEF Bounded
    <2> QED BY <1>1, <1>5, <2>1
<1> QED BY <1>3, <1>4, <1>6, <1>7, <1>8, <1>9, <1>10 DEF BodiesRight

-----------------------------------------------------------------------------
(***************************************************************************)
(* What is known at every stage of discovery.                              *)
(***************************************************************************)
DInv ==
    /\ phase = "companion" => exported = {} /\ order = <<>>
    /\ phase \in {"companion", "scan", "bounds"} => funcs = <<>>
    /\ Laid(Lines) =>
         /\ phase = "scan" => Heard(i) /\ Listed(i)
         /\ phase \in {"bounds", "analyze"} => Listed(N + 1)
         /\ phase = "bounds" => Bounded(i)
         /\ phase = "analyze" => Bounded(N + 1) /\ Made(i)
         /\ Discovered => BodiesRight

\* Once functions have been found, nothing that is said of them changes.
LEMMA BodiesStay ==
    ASSUME UNCHANGED <<source, funcs>>, BodiesRight
    PROVE  BodiesRight'
<1>1. Lines' = Lines /\ funcs' = funcs
    BY DEF Lines
<1>2. \A k : Body(k)' = Body(k)
    BY <1>1 DEF Body
<1>3. Exported' = Exported /\ FunctionLabels' = FunctionLabels
    BY <1>1 DEF Exported, FunctionLabels
<1>4. \A q : BodyOf(Lines, q)' = BodyOf(Lines, q)
    BY <1>1
<1> QED BY <1>1, <1>2, <1>3, <1>4 DEF BodiesRight

LEMMA AnalyzeDiscovers ==
    ASSUME TInv, TInv', DInv, AnalyzeNext
    PROVE  DInv'
<1>1. /\ nodes = Lines /\ N \in Nat /\ i \in 1 .. N + 1 /\ Len(nodes) = N /\ DOMAIN Lines = 1 .. N
      /\ phase \in {"scan", "bounds", "analyze"}
    <2>1. phase \in {"scan", "bounds", "analyze"}
        BY DEF AnalyzeNext, ScanGlobl, ScanSize, ScanBegin, ScanOther, Scanning, EndFindFunctions, FindBounds,
           EndBounds, MakeFunction, RejectName
    <2> QED BY <2>1, SourceFacts DEF TInv, Reading, Finding
<1>2. UNCHANGED <<source, nodes>>
    BY DEF AnalyzeNext, ScanGlobl, ScanSize, ScanBegin, ScanOther, EndFindFunctions, FindBounds,
       EndBounds, MakeFunction, RejectName
<1>3. Laid(Lines)' = Laid(Lines) /\ Lines' = Lines /\ N' = N
    BY <1>2, LinesStay
<1>4. phase' \in {"scan", "bounds", "analyze", "failed"} => ~ Discovered'
    BY DEF Discovered
<1>5. CASE ScanGlobl \/ ScanSize \/ ScanBegin \/ ScanOther
    <2>1. phase = "scan" /\ phase' = "scan" /\ funcs' = funcs
        BY <1>5 DEF ScanGlobl, ScanSize, ScanBegin, ScanOther, Scanning, discovery
    <2>2. Laid(Lines) => Heard(i)' /\ Listed(i)'
        BY <1>5, <2>1, ScanDiscovers DEF DInv
    <2> QED BY <1>3, <1>4, <2>1, <2>2 DEF DInv
<1>6. CASE EndFindFunctions
    <2>1. /\ phase = "scan" /\ phase' = "bounds" /\ i = N + 1 /\ i' = 1
          /\ funcs' = funcs /\ found' = found /\ order' = order
        BY <1>1, <1>6 DEF EndFindFunctions, discovery
    <2>2. found = <<>>
        BY <2>1 DEF TInv, Discovery
    <2>3. ASSUME Laid(Lines) PROVE Listed(N + 1)' /\ Bounded(i)'
        <3>1. Listed(N + 1)
            BY <2>1, <2>3 DEF DInv
        <3>2. Listed(N + 1)'
            <4>1. \A n : Listed(n)' = Listed(n)
                BY <1>2, <2>1, ListedStays
            <4> QED BY <1>3, <3>1, <4>1 DEF Listed
        <3>3. Bounded(1)
            <4>1. DOMAIN found = {} /\ DOMAIN order \subseteq Nat \ {0}
                BY <2>2, FoundFacts DEF TInv
            <4>2. \A k \in DOMAIN order : ~ k < 1
                BY <4>1
            <4> QED BY <4>1, <4>2 DEF Bounded
        <3>4. Bounded(i)'
            <4>1. \A n : Bounded(n)' = Bounded(n)
                BY <1>2, <2>1, BoundedStays
            <4> QED BY <2>1, <3>3, <4>1 DEF Bounded
        <3> QED BY <3>2, <3>4
    <2> QED BY <1>3, <1>4, <2>1, <2>2, <2>3 DEF DInv
<1>7. CASE FindBounds
    <2>1. /\ phase = "bounds" /\ phase' = "bounds" /\ i' = i + 1 /\ i' # 1
          /\ funcs' = funcs /\ order' = order
        BY <1>1, <1>7 DEF FindBounds
    <2>2. ASSUME Laid(Lines) PROVE Listed(N + 1)' /\ Bounded(i)'
        <3>1. Listed(N + 1)
            BY <2>1, <2>2 DEF DInv
        <3>2. Listed(N + 1)'
            <4>1. \A n : Listed(n)' = Listed(n)
                BY <1>2, <2>1, ListedStays
            <4> QED BY <1>3, <3>1, <4>1 DEF Listed
        <3> QED BY <1>7, <2>1, <2>2, <3>1, <3>2, BoundDiscovers DEF DInv
    <2> QED BY <1>3, <1>4, <2>1, <2>2 DEF DInv
<1>8. CASE EndBounds
    <2>1. /\ phase = "bounds" /\ phase' = "analyze" /\ i > Len(order) /\ i' = 1
          /\ funcs' = funcs /\ order' = order /\ found' = found /\ funcs = <<>>
        BY <1>8 DEF EndBounds, discovery, DInv
    <2>2. ASSUME Laid(Lines) PROVE Listed(N + 1)' /\ Bounded(N + 1)' /\ Made(i)'
        <3>1. Listed(N + 1) /\ Bounded(i)
            BY <2>1, <2>2 DEF DInv
        <3>2. \A k \in DOMAIN order : k < i /\ k < N + 1
            <4>1. Len(order) <= N /\ DOMAIN order = 1 .. Len(order) /\ Len(order) \in Nat
                BY FoundFacts DEF TInv, Discovery
            <4> QED BY <1>1, <2>1, <4>1
        <3>3. Bounded(N + 1)
            BY <3>1, <3>2 DEF Bounded, Bounding
        <3>4. Listed(N + 1)' /\ Bounded(N + 1)'
            <4>1. \A n : Listed(n)' = Listed(n) /\ Bounded(n)' = Bounded(n)
                BY <1>2, <2>1, ListedStays, BoundedStays
            <4> QED BY <1>3, <3>1, <3>3, <4>1 DEF Listed, Bounded
        <3>5. Made(i)'
            <4>1. funcs' = <<>> /\ i' = 1
                BY <2>1
            <4>2. Len(<<>>) = 0 /\ DOMAIN <<>> = {}
                OBVIOUS
            <4> QED BY <4>1, <4>2 DEF Made
        <3> QED BY <3>4, <3>5
    <2> QED BY <1>3, <1>4, <2>1, <2>2 DEF DInv
<1>9. CASE MakeFunction
    <2> DEFINE fn == [name |-> GoName(found[i].name), first |-> found[i].label + 1,
                      last |-> FunctionEnd(i) - 1, export |-> found[i].export]
    <2>1. /\ phase = "analyze" /\ phase' = "analyze" /\ i \in DOMAIN found /\ i' = i + 1
          /\ funcs' = Append(funcs, fn) /\ order' = order /\ found' = found
        <3>1. DOMAIN found = 1 .. Len(found) /\ Len(found) \in Nat
            BY FoundFacts DEF TInv
        <3> QED BY <1>1, <1>9, <3>1 DEF MakeFunction
    <2>2. ASSUME Laid(Lines) PROVE Listed(N + 1)' /\ Bounded(N + 1)' /\ Made(i)'
        <3>1. Listed(N + 1) /\ Bounded(N + 1) /\ Made(i)
            BY <2>1, <2>2 DEF DInv
        <3>2. Listed(N + 1)' /\ Bounded(N + 1)'
            <4>1. \A n : Listed(n)' = Listed(n) /\ Bounded(n)' = Bounded(n)
                BY <1>2, <2>1, ListedStays, BoundedStays
            <4> QED BY <1>3, <3>1, <4>1 DEF Listed, Bounded
        <3>3. Made(i)'
            <4>1. PICK S : funcs \in Seq(Functions(S))
                BY DEF TInv, Discovery
            <4>2. Len(funcs) = i - 1 /\ DOMAIN funcs = 1 .. Len(funcs) /\ Len(funcs) \in Nat
                BY <3>1, FoundFacts DEF TInv, Made
            <4> HIDE DEF fn
            <4>3. /\ Len(funcs') = i /\ DOMAIN funcs' = 1 .. i /\ funcs'[i] = fn
                  /\ \A k \in DOMAIN funcs : funcs'[k] = funcs[k]
                <5>1. funcs \in Seq(Functions(S) \cup {fn})
                    BY <4>1, SeqMonotonic
                <5>2. /\ Append(funcs, fn) \in Seq(Functions(S) \cup {fn})
                      /\ Len(Append(funcs, fn)) = Len(funcs) + 1 /\ Append(funcs, fn)[Len(funcs) + 1] = fn
                      /\ \A k \in 1 .. Len(funcs) : Append(funcs, fn)[k] = funcs[k]
                    BY <5>1, AppendProperties
                <5>3. DOMAIN Append(funcs, fn) = 1 .. Len(funcs) + 1
                    BY <5>2, LenProperties
                <5> QED BY <1>1, <2>1, <4>2, <5>2, <5>3
            <4>4. \A k : FunctionEnd(k)' = FunctionEnd(k)
                BY <1>2, <2>1 DEF FunctionEnd
            <4>5. ASSUME NEW k \in DOMAIN funcs'
                  PROVE  /\ k \in DOMAIN found
                         /\ funcs'[k] = [name |-> GoName(found[k].name), first |-> found[k].label + 1,
                                         last |-> FunctionEnd(k) - 1, export |-> found[k].export]
                <5>1. CASE k = i
                    BY <2>1, <4>3, <5>1 DEF fn
                <5>2. CASE k # i
                    <6>1. k \in DOMAIN funcs
                        BY <1>1, <4>2, <4>3, <5>2
                    <6> QED BY <3>1, <4>3, <6>1 DEF Made
                <5> QED BY <5>1, <5>2
            <4>6. Len(funcs') = i' - 1
                BY <1>1, <2>1, <4>3
            <4> QED BY ONLY <2>1, <4>4, <4>5, <4>6 DEF Made
        <3> QED BY <3>2, <3>3
    <2> QED BY <1>3, <1>4, <2>1, <2>2 DEF DInv
<1>10. CASE RejectName
    <2>1. phase' = "failed"
        BY <1>10 DEF RejectName
    <2> QED BY <1>3, <1>4, <2>1 DEF DInv
<1> QED BY <1>5, <1>6, <1>7, <1>8, <1>9, <1>10 DEF AnalyzeNext

LEMMA SourceStays ==
    ASSUME [Next]_vars
    PROVE  source' = source
<1>1. CASE Passes
    <2>1. CASE AnalyzeNext
        BY <2>1 DEF AnalyzeNext, ScanGlobl, ScanSize, ScanBegin, ScanOther, EndFindFunctions, FindBounds,
           EndBounds, MakeFunction, RejectName
    <2>2. CASE LabelsNext
        BY <2>2 DEF LabelsNext, StartLabels, DefineLabel, RejectLabel, RenameLabel, RenameReference,
           RejectReference, SkipNode, NextBody
    <2> QED BY <1>1, <2>1, <2>2 DEF Passes
<1>2. CASE DeclareEntry \/ IgnoreDeclaration \/ RejectDeclaration \/ EndCompanion \/ NoFunctions
             \/ Certify \/ RejectEntry \/ Attach
    BY <1>2 DEF DeclareEntry, IgnoreDeclaration, RejectDeclaration, EndCompanion, NoFunctions, Certify,
       RejectEntry, Attach, Fail, GoOn
<1>3. CASE AcceptScratch \/ RejectScratch \/ AcceptControl \/ RejectControl
    BY <1>3 DEF AcceptScratch, RejectScratch, AcceptControl, RejectControl, Fail, GoOn
<1>4. CASE EncodeCode \/ EncodeError \/ EmitLabel \/ EmitNothing \/ EmitNextFunction
    BY <1>4 DEF EncodeCode, EncodeError, EmitLabel, EmitNothing, EmitNextFunction, Emit, Fail
<1>5. CASE Enter \/ Run \/ UNCHANGED vars
    BY <1>5 DEF Enter, Run, Unmoved, vars
<1> QED BY <1>1, <1>2, <1>3, <1>4, <1>5 DEF Next

\* Between the companion file and the labels.
LEMMA EndCompanionDiscovers ==
    ASSUME TInv, DInv, EndCompanion
    PROVE  DInv'
<1>1. phase = "companion" /\ phase' = "scan" /\ i' = 1 /\ UNCHANGED <<source, nodes, discovery>>
    BY DEF EndCompanion, GoOn, passes
<1>2. exported' = {} /\ order' = <<>> /\ funcs' = <<>> /\ Lines' = Lines
    BY <1>1 DEF DInv, discovery, Lines
<1>3. DOMAIN Lines = 1 .. N /\ N \in Nat
    BY SourceFacts DEF TInv
<1>4. \A p \in DOMAIN Lines : ~ p < 1
    BY <1>3
<1>5. Heard(i)'
    BY <1>1, <1>2, <1>4 DEF Heard
<1>6. Listed(i)'
    <2>1. \A p \in Marks(Lines) : p \in DOMAIN Lines
        BY DEF Marks, FunctionSizes, Sizes, Begins
    <2>2. DOMAIN order' = {}
        BY <1>2
    <2> QED BY <1>1, <1>2, <1>4, <2>1, <2>2 DEF Listed
<1>7. ~ Discovered'
    BY <1>1 DEF Discovered
<1> QED BY <1>1, <1>2, <1>5, <1>6, <1>7 DEF DInv

LEMMA LastDiscovers ==
    ASSUME TInv, DInv, StartLabels \/ NoFunctions
    PROVE  DInv'
<1>1. /\ phase = "analyze" /\ phase' \in {"define", "done", "failed"} /\ UNCHANGED <<source, discovery>>
      /\ i > Len(found)
    <2>1. CASE StartLabels
        BY <2>1 DEF StartLabels
    <2>2. CASE NoFunctions
        <3>1. /\ phase = "analyze" /\ phase' \in {"done", "failed"} /\ UNCHANGED <<source, discovery>>
              /\ found = <<>>
            BY <2>2 DEF NoFunctions, GoOn, passes
        <3>2. i \in 1 .. N + 1 /\ N \in Nat
            BY <3>1, SourceFacts DEF TInv, Reading
        <3>3. Len(found) = 0
            BY <3>1
        <3> QED BY <3>1, <3>2, <3>3
    <2> QED BY <2>1, <2>2
<1>2. nodes = Lines /\ Lines' = Lines
    BY <1>1 DEF TInv, Reading, Finding, Lines
<1>3. ASSUME Laid(Lines) PROVE BodiesRight'
    <2>1. BodiesRight
        BY <1>1, <1>2, <1>3, BodiesFromFound DEF DInv
    <2> QED BY <1>1, <2>1, BodiesStay DEF discovery
<1> QED BY <1>1, <1>2, <1>3 DEF DInv

LEMMA StutterDiscovers ==
    ASSUME DInv, UNCHANGED vars
    PROVE  DInv'
<1>1. UNCHANGED <<source, nodes, phase, i, exported, order, found, funcs>>
    BY DEF vars, discovery
<1>2. Lines' = Lines /\ N' = N /\ Laid(Lines)' = Laid(Lines)
    BY <1>1, LinesStay
<1>3. \A n : Listed(n)' = Listed(n) /\ Bounded(n)' = Bounded(n)
    BY <1>1, ListedStays, BoundedStays
<1>4. ASSUME Heard(i) PROVE Heard(i)'
    BY <1>1, <1>2, <1>4 DEF Heard
<1>5. ASSUME Made(i) PROVE Made(i)'
    <2>1. \A k : FunctionEnd(k)' = FunctionEnd(k)
        BY <1>1 DEF FunctionEnd
    <2> QED BY <1>1, <1>5, <2>1 DEF Made
<1>6. Discovered' = Discovered /\ (BodiesRight => BodiesRight')
    BY <1>1, BodiesStay DEF Discovered
<1>7. Listed(i) => Listed(i)'
    BY <1>1, <1>2, <1>3 DEF Listed
<1>8. Listed(N + 1) => Listed(N + 1)'
    BY <1>1, <1>2, <1>3 DEF Listed
<1>9. (Bounded(i) => Bounded(i)') /\ (Bounded(N + 1) => Bounded(N + 1)')
    BY <1>1, <1>2, <1>3 DEF Bounded
<1> QED BY ONLY DInv, <1>1, <1>2, <1>4, <1>5, <1>6, <1>7, <1>8, <1>9 DEF DInv

LEMMA Discovering == Spec => []DInv
<1>1. Init => DInv
    BY DEF Init, AnalyzeInit, DInv, Discovered
<1>2. TInv /\ TInv' /\ DInv /\ [Next]_vars => DInv'
    <2> SUFFICES ASSUME TInv, TInv', DInv, [Next]_vars PROVE DInv'
        OBVIOUS
    <2>1. source' = source
        BY SourceStays
    <2>2. Lines' = Lines /\ Laid(Lines)' = Laid(Lines)
        BY <2>1 DEF Lines
    <2>3. CASE AnalyzeNext
        BY <2>3, AnalyzeDiscovers
    <2>4. CASE EndCompanion
        BY <2>4, EndCompanionDiscovers
    <2>5. CASE DeclareEntry \/ IgnoreDeclaration \/ RejectDeclaration
        <3>1. phase = "companion" /\ phase' \in {"companion", "failed"} /\ UNCHANGED discovery
            BY <2>5 DEF DeclareEntry, IgnoreDeclaration, RejectDeclaration, Declarations, Fail, passes
        <3> QED BY <3>1 DEF DInv, Discovered, discovery
    <2>6. CASE StartLabels \/ NoFunctions
        BY <2>6, LastDiscovers
    <2>7. ASSUME /\ phase \notin Finding /\ phase' \notin Finding
                 /\ Discovered' => Discovered
                 /\ UNCHANGED <<source, discovery>>
          PROVE  DInv'
        <3>1. ASSUME Laid(Lines), Discovered' PROVE BodiesRight'
            <4>1. BodiesRight
                BY <2>7, <3>1 DEF DInv
            <4> QED BY <2>7, <4>1, BodiesStay DEF discovery
        <3> QED BY <2>2, <2>7, <3>1 DEF DInv, Finding
    <2>8. CASE LabelsNext /\ ~ StartLabels
        <3>1. /\ phase \in {"define", "rename"} /\ phase' \in {"define", "rename", "renamed", "failed"}
              /\ UNCHANGED <<source, discovery>>
            BY <2>8 DEF LabelsNext, DefineLabel, RejectLabel, RenameLabel,
               RenameReference, RejectReference, SkipNode, NextBody
        <3> QED BY <2>7, <3>1 DEF Finding, Discovered
    <2>9. CASE Certify \/ RejectEntry \/ Attach
        <3>1. phase = "renamed" /\ phase' \in {"renamed", "scratch", "failed"} /\ UNCHANGED <<source, discovery>>
            BY <2>9 DEF Certify, RejectEntry, Attach, Fail, passes
        <3> QED BY <2>7, <3>1 DEF Finding, Discovered
    <2>10. CASE AcceptScratch \/ RejectScratch \/ AcceptControl \/ RejectControl
        <3>1. /\ phase \in {"scratch", "control"} /\ phase' \in {"control", "encode", "failed"}
              /\ UNCHANGED <<source, discovery>>
            BY <2>10 DEF AcceptScratch, RejectScratch, AcceptControl, RejectControl, Fail, GoOn, passes
        <3> QED BY <2>7, <3>1 DEF Finding, Discovered
    <2>11. CASE EncodeCode \/ EncodeError \/ EmitLabel \/ EmitNothing \/ EmitNextFunction
        <3>1. phase = "encode" /\ phase' \in {"encode", "ready", "failed"} /\ UNCHANGED <<source, discovery>>
            BY <2>11 DEF EncodeCode, EncodeError, EmitLabel, EmitNothing, EmitNextFunction, Encoding, Emit, Fail, passes
        <3> QED BY <2>7, <3>1 DEF Finding, Discovered
    <2>12. CASE Enter \/ Run
        <3>1. phase \in {"ready", "run"} /\ phase' = "run" /\ UNCHANGED <<source, discovery>>
            BY <2>12 DEF Enter, Run, Unmoved
        <3> QED BY <2>7, <3>1 DEF Finding, Discovered
    <2>13. CASE UNCHANGED vars
        BY <2>13, StutterDiscovers
    <2> QED BY <2>3, <2>4, <2>5, <2>6, <2>8, <2>9, <2>10, <2>11, <2>12, <2>13 DEF Next, Passes
<1>3. Spec => []TInv
    BY InitTypes, StepTypes, PTL DEF Spec
<1> QED BY <1>1, <1>2, <1>3, PTL DEF Spec

\* Of a source laid out as compilers do it, every function is found, with the
\* body that is its own, and exported where the source exports it.
THEOREM BodiesAreRight == Spec => [](Laid(Lines) => BodiesOwnTheirCode)
<1>1. DInv => (Laid(Lines) => BodiesOwnTheirCode)
    BY DEF DInv, BodiesRight, BodiesOwnTheirCode
<1> QED BY <1>1, Discovering, PTL

-----------------------------------------------------------------------------
(***************************************************************************)
(* Names.  What the two passes over the labels have done is known of the   *)
(* lines that they have passed: those of the bodies before f, and those of *)
(* body f before line i.                                                   *)
(***************************************************************************)
InBodies == {p \in DOMAIN Lines : \E k \in DOMAIN funcs : p \in Body(k)}
Passed == {p \in DOMAIN Lines : \E k \in DOMAIN funcs : p \in Body(k) /\ (k < f \/ (k = f /\ p < i))}
Locals(k) == LocalLabels(Lines) \cap Body(k)

NewName(k, r) == Scoped(funcs[k].name, Lines[r].name)
Definition(k, r) == [fn |-> k, name |-> Lines[r].name, to |-> NewName(k, r)]

\* The local labels of the lines S, and no others, have been found; no two of
\* one body share a name.
Defines(S) ==
    /\ \A d \in local : \E k \in DOMAIN funcs : \E r \in Locals(k) \cap S : d = Definition(k, r)
    /\ \A k \in DOMAIN funcs : \A r \in Locals(k) \cap S : Definition(k, r) \in local
    /\ \A k \in DOMAIN funcs : \A r, s \in Locals(k) \cap S : Lines[r].name = Lines[s].name => r = s

\* A line of body k after the second pass.
Rewritten(k, p) ==
    /\ nodes[p].name = IF p \in LocalLabels(Lines) THEN NewName(k, p) ELSE Lines[p].name
    /\ IF Lines[p].kind = "inst" /\ Definitions(Lines[p].ref) # {}
       THEN ~ Ambiguous(k, Lines[p].ref) /\ nodes[p].ref \in Resolve(k, Lines[p].ref)
       ELSE nodes[p].ref = Lines[p].ref

\* The lines S have got their names, the others are as they were.
Rewrites(S) ==
    /\ \A p \in DOMAIN Lines \ S : nodes[p] = Lines[p]
    /\ \A k \in DOMAIN funcs : \A p \in Body(k) \cap S : Rewritten(k, p)

NInv ==
    Laid(Lines) /\ NamesApart(Lines) =>
         /\ phase \in {"define", "rename"} => i >= funcs[f].first
         /\ phase = "define" => nodes = Lines /\ Defines(Passed)
         /\ phase = "rename" => Defines(InBodies) /\ Rewrites(Passed)
         /\ Renamed => Defines(InBodies) /\ Rewrites(InBodies)

\* A line is of one body.
LEMMA OneBody ==
    ASSUME TInv, BodiesRight, NEW k \in DOMAIN funcs, NEW m \in DOMAIN funcs, NEW p, p \in Body(k), p \in Body(m)
    PROVE  k = m
<1>1. DOMAIN Lines \subseteq Nat
    BY SourceFacts DEF TInv
<1>2. funcs[k].first - 1 \in Owner(Lines, p) /\ funcs[m].first - 1 \in Owner(Lines, p)
    BY DEF BodiesRight
<1>3. funcs[k].first - 1 = funcs[m].first - 1
    BY <1>1, <1>2, OneOwner
<1>4. funcs[k].first \in Nat /\ funcs[m].first \in Nat
    <2>1. N \in Nat
        BY SourceFacts DEF TInv
    <2> QED BY <2>1, FoundFacts DEF TInv
<1>5. funcs[k].first = funcs[m].first
    BY <1>3, <1>4
<1> QED BY <1>5 DEF BodiesRight

\* What the passes take for a local label is one.
LEMMA LocalFacts ==
    ASSUME TInv, OnlyNames, BodiesRight, NEW k \in DOMAIN funcs, NEW p \in Body(k), nodes[p].name = Lines[p].name
    PROVE  IsLocal(k, p) <=> p \in LocalLabels(Lines)
<1>1. /\ N \in Nat /\ DOMAIN Lines = 1 .. N /\ Body(k) \subseteq 1 .. N
      /\ funcs[k].first \in 1 .. N + 1 /\ funcs[k].last \in 0 .. N
    BY SourceFacts, FoundFacts DEF TInv
<1>2. \A q \in DOMAIN Lines : nodes[q].kind = Lines[q].kind /\ nodes[q].known = Lines[q].known
    BY NodeFacts
<1>3. p \in 1 .. N /\ funcs[k].first <= p /\ p <= funcs[k].last
    BY <1>1 DEF Body
<1>4. \E q \in Owner(Lines, p) : p \in BodyOf(Lines, q)
    <2>1. p \in BodyOf(Lines, funcs[k].first - 1)
        BY DEF BodiesRight
    <2> QED BY <2>1 DEF BodyOf
<1>5. IsDataLabelAt(k, p) <=> IsDataLabel(Lines[p].name) \/ DataFollows(Lines, p)
    <2>1. ASSUME NEW q \in Follower(k, p), nodes[q].kind = "data", nodes[q].known PROVE DataFollows(Lines, p)
        <3>1. /\ q \in p + 1 .. funcs[k].last
              /\ \A r \in p + 1 .. q : nodes[r].kind \in {"comment", "align"} <=> r < q
            BY DEF Follower
        <3>2. q \in DOMAIN Lines /\ q > p
            BY <1>1, <1>3, <3>1
        <3>3. ASSUME NEW r \in p + 1 .. q - 1 PROVE Lines[r].kind \in {"comment", "align"}
            <4>1. r \in p + 1 .. q /\ r < q /\ r \in DOMAIN Lines
                BY <1>1, <1>3, <3>1
            <4> QED BY <1>2, <3>1, <4>1
        <3> QED BY <1>2, <2>1, <3>2, <3>3 DEF DataFollows
    <2>2. ASSUME DataFollows(Lines, p)
          PROVE  \E q \in Follower(k, p) : nodes[q].kind = "data" /\ nodes[q].known
        <3>1. PICK q \in DOMAIN Lines :
                /\ q > p /\ Lines[q].kind = "data" /\ Lines[q].known
                /\ \A r \in p + 1 .. q - 1 : Lines[r].kind \in {"comment", "align"}
            BY <2>2 DEF DataFollows
        <3>2. q <= funcs[k].last
            <4> SUFFICES ASSUME ~ q <= funcs[k].last PROVE FALSE
                OBVIOUS
            <4> DEFINE e == funcs[k].last + 1
            <4>1. e \in DOMAIN Lines /\ e \in p + 1 .. q
                BY <1>1, <1>3
            <4>2. Lines[e].kind \in {"size", "label"}
                BY <4>1 DEF BodiesRight
            <4>3. e = q \/ e \in p + 1 .. q - 1
                BY <1>1, <1>3, <4>1
            <4> QED BY <3>1, <4>2, <4>3
        <3>3. ASSUME NEW r \in p + 1 .. q PROVE nodes[r].kind \in {"comment", "align"} <=> r < q
            <4>1. r \in DOMAIN Lines
                BY <1>1, <1>3
            <4>2. r = q \/ (r < q /\ r \in p + 1 .. q - 1)
                BY <1>1, <1>3
            <4>3. CASE r = q
                BY <1>1, <1>2, <3>1, <4>1, <4>3
            <4>4. CASE r < q /\ r \in p + 1 .. q - 1
                BY <1>2, <3>1, <4>1, <4>4
            <4> QED BY <4>2, <4>3, <4>4
        <3>4. q \in Follower(k, p)
            <4>1. q \in p + 1 .. funcs[k].last
                BY <1>1, <1>3, <3>1, <3>2
            <4> QED BY <3>3, <4>1 DEF Follower
        <3> QED BY <1>2, <3>1, <3>4
    <2> QED BY <2>1, <2>2 DEF IsDataLabelAt
<1>6. p \in DOMAIN Lines /\ nodes[p].kind = Lines[p].kind
    BY <1>1, <1>2, <1>3
<1> QED BY <1>4, <1>5, <1>6 DEF IsLocal, LocalLabels

\* What a local label gets is one of its new names.
LEMMA NewNameFacts ==
    ASSUME BodiesRight, NEW k \in DOMAIN funcs, NEW r \in Locals(k)
    PROVE  NewName(k, r) \in NewNames(Lines, r)
<1>1. PICK p \in Marks(Lines) : /\ funcs[k].name = GoName(Spelled(Lines, p))
                                /\ Symbol(Lines, p) = Lines[funcs[k].first - 1].name
    BY DEF BodiesRight
<1>2. funcs[k].first - 1 \in Owner(Lines, r)
    BY DEF BodiesRight, Locals
<1> QED BY <1>1, <1>2 DEF NewNames, NewName

\* Local labels are of bodies.
LEMMA LocalBodies ==
    ASSUME TInv, BodiesRight, NEW r \in LocalLabels(Lines)
    PROVE  r \in DOMAIN Lines /\ Lines[r].kind = "label" /\ \E k \in DOMAIN funcs : r \in Locals(k)
<1>1. /\ r \in DOMAIN Lines /\ Lines[r].kind = "label" /\ \E q \in Owner(Lines, r) : r \in BodyOf(Lines, q)
    BY DEF LocalLabels
<1>2. PICK q \in Owner(Lines, r) : r \in BodyOf(Lines, q)
    BY <1>1
<1>3. q \in FunctionLabels /\ q \in Nat
    <2>1. DOMAIN Lines \subseteq Nat
        BY SourceFacts DEF TInv
    <2> QED BY <2>1 DEF Owner, FunctionLabels, LabelsOfFunctions
<1>4. PICK k \in DOMAIN funcs : funcs[k].first = q + 1
    BY <1>3 DEF BodiesRight
<1>5. funcs[k].first - 1 = q
    BY <1>3, <1>4
<1>6. r \in Body(k)
    BY <1>2, <1>5 DEF BodiesRight
<1> QED BY <1>1, <1>6 DEF Locals

\* The definitions of a name are the local labels that have it.
LEMMA DefinitionFacts ==
    ASSUME TInv, BodiesRight, Defines(InBodies), NEW name
    PROVE  /\ \A d \in Definitions(name) : \E k \in DOMAIN funcs : \E r \in Locals(k) :
                 d = Definition(k, r) /\ Lines[r].name = name
           /\ \A k \in DOMAIN funcs : \A r \in Locals(k) : Lines[r].name = name => Definition(k, r) \in Definitions(name)
<1>1. ASSUME NEW d \in Definitions(name)
      PROVE  \E k \in DOMAIN funcs : \E r \in Locals(k) : d = Definition(k, r) /\ Lines[r].name = name
    <2>1. d \in local /\ d.name = name
        BY DEF Definitions
    <2>2. PICK k \in DOMAIN funcs : \E r \in Locals(k) \cap InBodies : d = Definition(k, r)
        BY <2>1 DEF Defines
    <2>3. PICK r \in Locals(k) : d = Definition(k, r)
        BY <2>2
    <2>4. Definition(k, r).name = Lines[r].name
        BY DEF Definition
    <2> QED BY <2>1, <2>3, <2>4
<1>2. ASSUME NEW k \in DOMAIN funcs, NEW r \in Locals(k), Lines[r].name = name
      PROVE  Definition(k, r) \in Definitions(name)
    <2>1. r \in InBodies
        BY DEF Locals, LocalLabels, InBodies
    <2>2. Definition(k, r) \in local
        BY <2>1 DEF Defines
    <2>3. Definition(k, r).name = name
        BY <1>2 DEF Definition
    <2> QED BY <2>2, <2>3 DEF Definitions
<1> QED BY <1>1, <1>2

\* What NamesApart says.
LEMMA ApartFacts ==
    ASSUME NamesApart(Lines), TInv, BodiesRight
    PROVE  /\ \A r, s \in LocalLabels(Lines) : \A x : x \in NewNames(Lines, r) /\ x \in NewNames(Lines, s)
                => Lines[r].name = Lines[s].name
           /\ \A r \in LocalLabels(Lines), p \in DOMAIN Lines :
                Lines[p].name \notin NewNames(Lines, r) /\ Lines[p].ref \notin NewNames(Lines, r)
           /\ \A r \in LocalLabels(Lines), s \in DOMAIN Lines :
                Lines[s].kind = "label" /\ Lines[r].name = Lines[s].name => s \in LocalLabels(Lines)
           /\ \A r \in LocalLabels(Lines), p \in DOMAIN Lines :
                Lines[p].kind = "data" \/ (Lines[p].kind = "inst" /\ p \notin InBodies) => Lines[p].ref # Lines[r].name
           /\ \A k \in DOMAIN funcs : \A r, s \in Body(k) :
                /\ r \in DOMAIN Lines /\ s \in DOMAIN Lines /\ Lines[r].kind = "label" /\ Lines[s].kind = "label"
                /\ r \notin LocalLabels(Lines) /\ s \notin LocalLabels(Lines) /\ Lines[r].name = Lines[s].name
                => r = s
<1> DEFINE Local == LocalLabels(Lines)
           Others == {p \in DOMAIN Lines : Lines[p].kind = "label"} \ Local
<1>1. /\ \A r \in Local, s \in Local :
             NewNames(Lines, r) \cap NewNames(Lines, s) # {} => Lines[r].name = Lines[s].name
      /\ \A r \in Local, p \in DOMAIN Lines : {Lines[p].name, Lines[p].ref} \cap NewNames(Lines, r) = {}
      /\ \A r \in Local, s \in Others : Lines[r].name # Lines[s].name
      /\ \A r \in Local, p \in DOMAIN Lines :
             Lines[p].kind = "data" \/ (Lines[p].kind = "inst" /\ Owner(Lines, p) = {}) => Lines[p].ref # Lines[r].name
      /\ \A q \in LabelsOfFunctions(Lines) : \A r, s \in Others \cap BodyOf(Lines, q) :
             Lines[r].name = Lines[s].name => r = s
    BY DEF NamesApart
<1>2. ASSUME NEW p \in DOMAIN Lines, Lines[p].kind = "inst", p \notin InBodies PROVE Owner(Lines, p) = {}
    <2> SUFFICES ASSUME NEW q \in Owner(Lines, p) PROVE FALSE
        OBVIOUS
    <2>1. q \in FunctionLabels /\ q \in Nat
        <3>1. DOMAIN Lines \subseteq Nat
            BY SourceFacts DEF TInv
        <3> QED BY <3>1 DEF Owner, FunctionLabels, LabelsOfFunctions
    <2>2. PICK k \in DOMAIN funcs : funcs[k].first = q + 1
        BY <2>1 DEF BodiesRight
    <2>3. funcs[k].first - 1 = q
        BY <2>1, <2>2
    <2>4. p \in Body(k)
        BY <1>2, <2>3 DEF BodiesRight
    <2> QED BY <1>2, <2>4 DEF InBodies
<1>3. ASSUME NEW k \in DOMAIN funcs, NEW r \in Body(k), NEW s \in Body(k),
             r \in Others, s \in Others, Lines[r].name = Lines[s].name
      PROVE  r = s
    <2>1. funcs[k].first - 1 \in LabelsOfFunctions(Lines) /\ Body(k) = BodyOf(Lines, funcs[k].first - 1)
        BY DEF BodiesRight, FunctionLabels
    <2>2. r \in Others \cap BodyOf(Lines, funcs[k].first - 1) /\ s \in Others \cap BodyOf(Lines, funcs[k].first - 1)
        BY <1>3, <2>1
    <2> HIDE DEF Others
    <2> QED BY ONLY <1>1, <1>3, <2>1, <2>2
<1>4. ASSUME NEW k \in DOMAIN funcs, NEW r \in Body(k), NEW s \in Body(k), r \in DOMAIN Lines, s \in DOMAIN Lines,
             Lines[r].kind = "label", Lines[s].kind = "label", r \notin Local, s \notin Local, Lines[r].name = Lines[s].name
      PROVE  r = s
    BY <1>3, <1>4
<1>5. ASSUME NEW r \in Local, NEW s \in Local, NEW x, x \in NewNames(Lines, r), x \in NewNames(Lines, s)
      PROVE  Lines[r].name = Lines[s].name
    BY <1>1, <1>5
<1>6. ASSUME NEW r \in Local, NEW s \in DOMAIN Lines, Lines[s].kind = "label", Lines[r].name = Lines[s].name
      PROVE  s \in Local
    BY <1>1, <1>6
<1>7. ASSUME NEW r \in Local, NEW p \in DOMAIN Lines
      PROVE  Lines[p].name \notin NewNames(Lines, r) /\ Lines[p].ref \notin NewNames(Lines, r)
    BY <1>1
<1>8. ASSUME NEW r \in Local, NEW p \in DOMAIN Lines, Lines[p].kind = "data" \/ (Lines[p].kind = "inst" /\ p \notin InBodies)
      PROVE  Lines[p].ref # Lines[r].name
    BY <1>1, <1>2, <1>8
<1> HIDE DEF Local
<1>9. /\ \A r, s \in Local : \A x : x \in NewNames(Lines, r) /\ x \in NewNames(Lines, s) => Lines[r].name = Lines[s].name
      /\ \A r \in Local, p \in DOMAIN Lines :
           Lines[p].name \notin NewNames(Lines, r) /\ Lines[p].ref \notin NewNames(Lines, r)
      /\ \A r \in Local, s \in DOMAIN Lines : Lines[s].kind = "label" /\ Lines[r].name = Lines[s].name => s \in Local
    BY ONLY <1>5, <1>6, <1>7
<1>10. \A r \in Local, p \in DOMAIN Lines :
          Lines[p].kind = "data" \/ (Lines[p].kind = "inst" /\ p \notin InBodies) => Lines[p].ref # Lines[r].name
    BY ONLY <1>8
<1>11. \A k \in DOMAIN funcs : \A r, s \in Body(k) :
         /\ r \in DOMAIN Lines /\ s \in DOMAIN Lines /\ Lines[r].kind = "label" /\ Lines[s].kind = "label"
         /\ r \notin Local /\ s \notin Local /\ Lines[r].name = Lines[s].name
         => r = s
    BY ONLY <1>4
<1> QED BY ONLY <1>9, <1>10, <1>11 DEF Local

\* The names and references of the lines after both passes.
LEMMA RewrittenFacts ==
    ASSUME TInv, Rewrites(InBodies), NEW q \in DOMAIN Lines
    PROVE  /\ q \notin LocalLabels(Lines) => nodes[q].name = Lines[q].name
           /\ \A k \in DOMAIN funcs : q \in Locals(k) => nodes[q].name = NewName(k, q)
           /\ Lines[q].kind # "inst" \/ q \notin InBodies \/ Definitions(Lines[q].ref) = {} => nodes[q].ref = Lines[q].ref
           /\ \A k \in DOMAIN funcs : q \in Body(k) /\ Lines[q].kind = "inst" /\ Definitions(Lines[q].ref) # {} =>
                ~ Ambiguous(k, Lines[q].ref) /\ nodes[q].ref \in Resolve(k, Lines[q].ref)
<1>1. \A k \in DOMAIN funcs : q \in Body(k) => q \in InBodies
    BY DEF InBodies
<1>2. q \notin InBodies => nodes[q] = Lines[q]
    BY DEF Rewrites
<1>3. \A k \in DOMAIN funcs : q \in Body(k) => Rewritten(k, q)
    BY <1>1 DEF Rewrites
<1>4. q \in InBodies => \E k \in DOMAIN funcs : q \in Body(k)
    BY DEF InBodies
<1>5. ASSUME q \notin LocalLabels(Lines) PROVE nodes[q].name = Lines[q].name
    BY <1>2, <1>3, <1>4, <1>5 DEF Rewritten
<1>6. ASSUME NEW k \in DOMAIN funcs, q \in Locals(k) PROVE nodes[q].name = NewName(k, q)
    BY <1>3, <1>6 DEF Rewritten, Locals
<1>7. ASSUME Lines[q].kind # "inst" \/ q \notin InBodies \/ Definitions(Lines[q].ref) = {}
      PROVE  nodes[q].ref = Lines[q].ref
    BY <1>2, <1>3, <1>4, <1>7 DEF Rewritten
<1>8. ASSUME NEW k \in DOMAIN funcs, q \in Body(k), Lines[q].kind = "inst", Definitions(Lines[q].ref) # {}
      PROVE  ~ Ambiguous(k, Lines[q].ref) /\ nodes[q].ref \in Resolve(k, Lines[q].ref)
    BY <1>3, <1>8 DEF Rewritten
<1> QED BY ONLY <1>5, <1>6, <1>7, <1>8

\* What a reference in body k resolves to: a local label, its own if there is one.
LEMMA ResolveFacts ==
    ASSUME TInv, BodiesRight, Defines(InBodies), NEW k \in DOMAIN funcs, NEW name, NEW to \in Resolve(k, name)
    PROVE  \E m \in DOMAIN funcs : \E r \in Locals(m) :
             /\ Lines[r].name = name /\ to = NewName(m, r) /\ Definition(m, r) \in Definitions(name)
             /\ m = k \/ \A s \in Locals(k) : Lines[s].name # name
<1> DEFINE Own == {d \in Definitions(name) : d.fn = k}
<1>1. PICK d \in IF Own # {} THEN Own ELSE Definitions(name) : to = d.to
    BY DEF Resolve
<1>2. d \in Definitions(name)
    BY <1>1
<1>3. PICK m \in DOMAIN funcs : \E r \in Locals(m) : d = Definition(m, r) /\ Lines[r].name = name
    BY <1>2, DefinitionFacts
<1>4. PICK r \in Locals(m) : d = Definition(m, r) /\ Lines[r].name = name
    BY <1>3
<1>5. d.fn = m /\ d.to = NewName(m, r)
    BY <1>4 DEF Definition
<1>6. ASSUME m # k, NEW s \in Locals(k), Lines[s].name = name PROVE FALSE
    <2>1. Definition(k, s) \in Definitions(name) /\ Definition(k, s).fn = k
        BY <1>6, DefinitionFacts DEF Definition
    <2>2. d \in Own
        BY <1>1, <2>1
    <2> QED BY <1>5, <1>6, <2>2
<1> QED BY <1>1, <1>2, <1>4, <1>5, <1>6

\* A reference gets the name that the label it meant has got.
LEMMA MeantNames ==
    ASSUME TInv, BodiesRight, NamesApart(Lines), Defines(InBodies), Rewrites(InBodies),
           NEW p \in DOMAIN Lines, NEW q \in DOMAIN Lines, Lines[p].kind \in {"inst", "data"}, q \in Meaning(p)
    PROVE  nodes[p].ref = nodes[q].name
<1> DEFINE name == Lines[p].ref
           All == {r \in DOMAIN Lines : Lines[r].kind = "label" /\ Lines[r].name = Lines[p].ref}
           Own == {r \in All : \E m \in DOMAIN funcs : p \in Body(m) /\ r \in Body(m)}
<1>1. Meaning(p) = IF Own # {} THEN Own ELSE All
    BY DEF Meaning
<1>2. q \in All /\ Lines[q].kind = "label" /\ Lines[q].name = name
    BY <1>1
<1>3. CASE q \notin LocalLabels(Lines)
    <2>1. Definitions(name) = {}
        <3> SUFFICES ASSUME NEW d \in Definitions(name) PROVE FALSE
            OBVIOUS
        <3>1. PICK k \in DOMAIN funcs : \E r \in Locals(k) : d = Definition(k, r) /\ Lines[r].name = name
            BY DefinitionFacts
        <3>2. PICK r \in Locals(k) : Lines[r].name = name
            BY <3>1
        <3>3. r \in LocalLabels(Lines)
            BY DEF Locals
        <3> QED BY <1>2, <1>3, <3>2, <3>3, ApartFacts
    <2> QED BY <1>2, <1>3, <2>1, RewrittenFacts
<1>4. CASE q \in LocalLabels(Lines) /\ (Lines[p].kind = "data" \/ p \notin InBodies)
    <2>1. Lines[p].ref # Lines[q].name
        BY <1>4, ApartFacts
    <2> QED BY <1>2, <2>1
<1>5. CASE q \in LocalLabels(Lines) /\ Lines[p].kind = "inst" /\ p \in InBodies
    <2>1. PICK k \in DOMAIN funcs : p \in Body(k)
        BY <1>5 DEF InBodies
    <2>2. PICK m \in DOMAIN funcs : q \in Locals(m)
        BY <1>5, LocalBodies
    <2>3. Definition(m, q) \in Definitions(name) /\ nodes[q].name = NewName(m, q)
        BY <1>2, <2>2, DefinitionFacts, RewrittenFacts
    <2>4. ~ Ambiguous(k, name) /\ nodes[p].ref \in Resolve(k, name)
        BY <1>5, <2>1, <2>3, RewrittenFacts
    <2>5. PICK n \in DOMAIN funcs : \E r \in Locals(n) :
             /\ Lines[r].name = name /\ nodes[p].ref = NewName(n, r) /\ Definition(n, r) \in Definitions(name)
             /\ n = k \/ \A s \in Locals(k) : Lines[s].name # name
        BY <2>4, ResolveFacts
    <2>6. PICK r \in Locals(n) :
             /\ Lines[r].name = name /\ nodes[p].ref = NewName(n, r) /\ Definition(n, r) \in Definitions(name)
             /\ n = k \/ \A s \in Locals(k) : Lines[s].name # name
        BY <2>5
    <2>7. CASE m = k
        <3>1. n = k
            BY <1>2, <2>2, <2>6, <2>7
        <3>2. r \in Locals(k) \cap InBodies /\ q \in Locals(k) \cap InBodies
            BY <2>2, <2>6, <2>7, <3>1 DEF Locals, LocalLabels, InBodies
        <3>3. r = q
            BY <1>2, <2>6, <3>2 DEF Defines
        <3> QED BY <2>3, <2>6, <2>7, <3>1, <3>3
    <2>8. CASE m # k
        <3>1. q \in Body(m)
            BY <2>2 DEF Locals
        <3>2. Own = {}
            <4>1. ASSUME q \in Own PROVE FALSE
                <5>1. PICK x \in DOMAIN funcs : p \in Body(x) /\ q \in Body(x)
                    BY <4>1
                <5>2. x = k /\ x = m
                    BY <2>1, <3>1, <5>1, OneBody
                <5> QED BY <2>8, <5>2
            <4> QED BY <1>1, <4>1
        <3>3. ASSUME NEW d \in Definitions(name) PROVE d.fn # k
            <4>1. PICK x \in DOMAIN funcs : \E s \in Locals(x) : d = Definition(x, s) /\ Lines[s].name = name
                BY DefinitionFacts
            <4>2. PICK s \in Locals(x) : d = Definition(x, s) /\ Lines[s].name = name
                BY <4>1
            <4>3. s \in All /\ s \in Body(x)
                BY <4>2 DEF Locals, LocalLabels
            <4>4. x # k
                BY <2>1, <3>2, <4>3
            <4> QED BY <4>2, <4>4 DEF Definition
        <3>4. Definition(n, r) = Definition(m, q)
            BY <2>3, <2>4, <2>6, <3>3 DEF Ambiguous
        <3>5. NewName(n, r) = NewName(m, q)
            BY <3>4 DEF Definition
        <3> QED BY <2>3, <2>6, <3>5
    <2> QED BY <2>7, <2>8
<1> QED BY <1>3, <1>4, <1>5

\* Within a body, only a reference that meant a label spells it.
LEMMA SpeltNames ==
    ASSUME TInv, BodiesRight, NamesApart(Lines), Defines(InBodies), Rewrites(InBodies),
           NEW k \in DOMAIN funcs, NEW p \in Body(k), NEW q \in Body(k), p \in DOMAIN Lines, q \in DOMAIN Lines,
           Lines[p].kind = "inst", Lines[q].kind = "label", nodes[p].ref = nodes[q].name
    PROVE  q \in Meaning(p)
<1> DEFINE name == Lines[p].ref
<1>1. SUFFICES Lines[q].name = name
    BY DEF Meaning
<1>2. CASE Definitions(name) = {}
    <2>1. nodes[p].ref = name
        BY <1>2, RewrittenFacts
    <2>2. CASE q \notin LocalLabels(Lines)
        BY <2>1, <2>2, RewrittenFacts
    <2>3. CASE q \in LocalLabels(Lines)
        <3>1. q \in Locals(k)
            BY <2>3 DEF Locals
        <3>2. nodes[q].name \in NewNames(Lines, q)
            BY <3>1, NewNameFacts, RewrittenFacts
        <3> QED BY <2>1, <2>3, <3>2, ApartFacts
    <2> QED BY <2>2, <2>3
<1>3. CASE Definitions(name) # {}
    <2>1. nodes[p].ref \in Resolve(k, name)
        BY <1>3, RewrittenFacts
    <2>2. PICK m \in DOMAIN funcs : \E r \in Locals(m) : Lines[r].name = name /\ nodes[p].ref = NewName(m, r)
        BY <2>1, ResolveFacts
    <2>3. PICK r \in Locals(m) : Lines[r].name = name /\ nodes[p].ref = NewName(m, r)
        BY <2>2
    <2>4. r \in LocalLabels(Lines) /\ nodes[q].name \in NewNames(Lines, r)
        BY <2>3, NewNameFacts DEF Locals
    <2>5. CASE q \notin LocalLabels(Lines)
        BY <2>4, <2>5, ApartFacts, RewrittenFacts
    <2>6. CASE q \in LocalLabels(Lines)
        <3>1. q \in Locals(k)
            BY <2>6 DEF Locals
        <3>2. nodes[q].name \in NewNames(Lines, q)
            BY <3>1, NewNameFacts, RewrittenFacts
        <3>3. Lines[r].name = Lines[q].name
            BY <2>4, <2>6, <3>2, ApartFacts
        <3> QED BY <2>3, <3>3
    <2> QED BY <2>5, <2>6
<1> QED BY <1>2, <1>3

\* The labels of a body have different names.
LEMMA DifferentNames ==
    ASSUME TInv, BodiesRight, NamesApart(Lines), Defines(InBodies), Rewrites(InBodies),
           NEW k \in DOMAIN funcs, NEW p \in Body(k), NEW q \in Body(k), p \in DOMAIN Lines, q \in DOMAIN Lines,
           Lines[p].kind = "label", Lines[q].kind = "label", nodes[p].name = nodes[q].name
    PROVE  p = q
<1>1. \A r \in Body(k) : r \in LocalLabels(Lines) => r \in Locals(k) /\ r \in InBodies /\ r \in DOMAIN Lines
    BY DEF Locals, LocalLabels, InBodies
<1>2. \A r \in Body(k) : r \in LocalLabels(Lines) => nodes[r].name \in NewNames(Lines, r)
    BY <1>1, NewNameFacts, RewrittenFacts
<1>3. CASE p \in LocalLabels(Lines) /\ q \in LocalLabels(Lines)
    <2>1. Lines[p].name = Lines[q].name
        BY <1>2, <1>3, ApartFacts
    <2> QED BY <1>1, <1>3, <2>1 DEF Defines
<1>4. CASE p \in LocalLabels(Lines) /\ q \notin LocalLabels(Lines)
    BY <1>2, <1>4, ApartFacts, RewrittenFacts
<1>5. CASE p \notin LocalLabels(Lines) /\ q \in LocalLabels(Lines)
    BY <1>2, <1>5, ApartFacts, RewrittenFacts
<1>6. CASE p \notin LocalLabels(Lines) /\ q \notin LocalLabels(Lines)
    <2>1. Lines[p].name = Lines[q].name
        BY <1>6, RewrittenFacts
    <2> QED BY <1>6, <2>1, ApartFacts
<1> QED BY <1>3, <1>4, <1>5, <1>6

LEMMA AgreeAfterwards ==
    ASSUME TInv, OnlyNames, BodiesRight, NamesApart(Lines), Defines(InBodies), Rewrites(InBodies)
    PROVE  NamesAgree
<1>1. \A k \in DOMAIN funcs : \A p \in Body(k) : p \in DOMAIN Lines
    BY SourceFacts, FoundFacts DEF TInv
<1>2. \A p \in DOMAIN Lines : nodes[p].kind = Lines[p].kind
    BY NodeFacts
<1>3. ASSUME NEW p \in DOMAIN Lines, NEW q \in DOMAIN Lines, Lines[p].kind \in {"inst", "data"}, q \in Meaning(p)
      PROVE  nodes[p].ref = nodes[q].name
    BY <1>3, MeantNames
<1>4. ASSUME NEW k \in DOMAIN funcs, NEW p \in Body(k), NEW q \in Body(k),
             nodes[p].kind = "inst", nodes[q].kind = "label", nodes[p].ref = nodes[q].name
      PROVE  q \in Meaning(p)
    BY <1>1, <1>2, <1>4, SpeltNames
<1>5. ASSUME NEW k \in DOMAIN funcs, NEW p \in Body(k), NEW q \in Body(k),
             nodes[p].kind = "label", nodes[q].kind = "label", p # q
      PROVE  nodes[p].name # nodes[q].name
    BY <1>1, <1>2, <1>5, DifferentNames
<1> QED BY ONLY <1>3, <1>4, <1>5 DEF NamesAgree

-----------------------------------------------------------------------------
\* Functions and their labels stay as they are in both passes.
LEMMA LabelsStay ==
    ASSUME UNCHANGED <<source, funcs>>
    PROVE  /\ Lines' = Lines /\ Laid(Lines)' = Laid(Lines) /\ NamesApart(Lines)' = NamesApart(Lines)
           /\ InBodies' = InBodies /\ LocalLabels(Lines)' = LocalLabels(Lines)
           /\ \A k : Body(k)' = Body(k) /\ Locals(k)' = Locals(k)
           /\ \A k, r : NewName(k, r)' = NewName(k, r) /\ Definition(k, r)' = Definition(k, r)
<1>1. Lines' = Lines /\ funcs' = funcs
    BY DEF Lines
<1>2. \A k : Body(k)' = Body(k)
    BY <1>1 DEF Body
<1>3. InBodies' = InBodies
    BY <1>1, <1>2 DEF InBodies
<1>4. \A k : Locals(k)' = Locals(k)
    BY <1>1, <1>2 DEF Locals
<1>5. \A k, r : NewName(k, r)' = NewName(k, r)
    BY <1>1 DEF NewName
<1>6. \A k, r : Definition(k, r)' = Definition(k, r)
    BY <1>1, <1>5 DEF Definition
<1> QED BY <1>1, <1>2, <1>3, <1>4, <1>5, <1>6

\* And what is known of them, as long as lines and definitions do.
LEMMA WholeStays ==
    ASSUME UNCHANGED <<source, funcs, local>>
    PROVE  /\ Defines(InBodies) => Defines(InBodies)'
           /\ nodes' = nodes /\ Rewrites(InBodies) => Rewrites(InBodies)'
<1>1. Defines(InBodies) => Defines(InBodies)'
    BY LabelsStay DEF Defines
<1>2. ASSUME nodes' = nodes, Rewrites(InBodies) PROVE Rewrites(InBodies)'
    <2>1. /\ \A name : Definitions(name)' = Definitions(name)
          /\ \A k, name : Ambiguous(k, name)' = Ambiguous(k, name) /\ Resolve(k, name)' = Resolve(k, name)
        BY DEF Definitions, Ambiguous, Resolve
    <2>2. \A k, p : Rewritten(k, p) => Rewritten(k, p)'
        BY <1>2, <2>1, LabelsStay DEF Rewritten
    <2> QED BY <1>2, <2>2, LabelsStay DEF Rewrites
<1> QED BY <1>1, <1>2

\* One line more has been passed.
LEMMA PassLine ==
    ASSUME TInv, BodiesRight, f \in DOMAIN funcs, i \in Body(f), i' = i + 1, UNCHANGED <<source, funcs, f>>
    PROVE  /\ i \in DOMAIN Lines /\ i \notin Passed /\ i \in InBodies /\ Passed' = Passed \cup {i}
           /\ \A k \in DOMAIN funcs : i \in Body(k) => k = f
           /\ i >= funcs[f].first /\ i' >= funcs'[f'].first
<1>1. /\ DOMAIN Lines = 1 .. N /\ N \in Nat /\ \A k \in DOMAIN funcs : Body(k) \subseteq 1 .. N
      /\ DOMAIN funcs = 1 .. Len(funcs) /\ Len(funcs) \in Nat
      /\ \A k \in DOMAIN funcs : funcs[k].first \in 1 .. N + 1 /\ funcs[k].last \in 0 .. N
    BY SourceFacts, FoundFacts DEF TInv
<1>2. i \in DOMAIN Lines /\ i \in Nat /\ f \in Nat
    BY <1>1
<1>3. \A k \in DOMAIN funcs : i \in Body(k) => k = f
    BY OneBody
<1>4. i \notin Passed
    BY <1>2, <1>3 DEF Passed
<1>5. Passed' = {p \in DOMAIN Lines : \E k \in DOMAIN funcs : p \in Body(k) /\ (k < f \/ (k = f /\ p < i + 1))}
    BY LabelsStay DEF Passed
<1>6. ASSUME NEW p \in DOMAIN Lines PROVE p \in Passed' <=> p \in Passed \cup {i}
    <2>1. p < i + 1 <=> p < i \/ p = i
        BY <1>1, <1>2
    <2> QED BY <1>5, <2>1 DEF Passed
<1>7. \A p \in Passed \cup Passed' : p \in DOMAIN Lines
    BY <1>5 DEF Passed
<1>8. i >= funcs[f].first /\ i + 1 >= funcs[f].first
    BY <1>1, <1>2 DEF Body
<1> QED BY <1>2, <1>3, <1>4, <1>6, <1>7, <1>8 DEF InBodies

\* A body has been passed.
LEMMA PassBody ==
    ASSUME TInv, BodiesRight, f \in DOMAIN funcs, i \notin Body(f), i >= funcs[f].first, UNCHANGED <<source, funcs>>
    PROVE  /\ f < Len(funcs) /\ f' = f + 1 /\ i' = funcs[f + 1].first => Passed' = Passed
           /\ ~ f < Len(funcs) => Passed = InBodies
<1>1. /\ DOMAIN Lines = 1 .. N /\ N \in Nat /\ \A k \in DOMAIN funcs : Body(k) \subseteq 1 .. N
      /\ DOMAIN funcs = 1 .. Len(funcs) /\ Len(funcs) \in Nat /\ i \in Nat
      /\ \A k \in DOMAIN funcs : funcs[k].first \in 1 .. N + 1 /\ funcs[k].last \in 0 .. N
    BY SourceFacts, FoundFacts DEF TInv
<1>2. \A p \in Body(f) : p < i
    BY <1>1 DEF Body
<1>3. ASSUME f < Len(funcs), f' = f + 1, i' = funcs[f + 1].first PROVE Passed' = Passed
    <2>1. Passed' = {p \in DOMAIN Lines : \E k \in DOMAIN funcs :
                        p \in Body(k) /\ (k < f + 1 \/ (k = f + 1 /\ p < funcs[f + 1].first))}
        BY <1>3, LabelsStay DEF Passed
    <2>2. ASSUME NEW k \in DOMAIN funcs, NEW p \in Body(k)
          PROVE  k < f + 1 \/ (k = f + 1 /\ p < funcs[f + 1].first) <=> k < f \/ (k = f /\ p < i)
        <3>1. p >= funcs[k].first /\ p \in Nat
            BY <1>1 DEF Body
        <3>2. k = f => p < i
            BY <1>2
        <3>3. ~ (k = f + 1 /\ p < funcs[f + 1].first)
            BY <1>1, <3>1
        <3>4. k < f + 1 <=> k < f \/ k = f
            BY <1>1
        <3> QED BY <3>2, <3>3, <3>4
    <2> QED BY <2>1, <2>2 DEF Passed
<1>4. ASSUME ~ f < Len(funcs) PROVE Passed = InBodies
    <2>1. \A k \in DOMAIN funcs : k < f \/ k = f
        BY <1>1, <1>4
    <2>2. \A k \in DOMAIN funcs : \A p \in Body(k) : k < f \/ (k = f /\ p < i)
        BY <1>2, <2>1
    <2> QED BY <2>2 DEF Passed, InBodies
<1> QED BY <1>3, <1>4

\* A pass begins.
LEMMA PassNothing ==
    ASSUME TInv, funcs # <<>>, f' = 1, i' = funcs[1].first, UNCHANGED <<source, funcs>>
    PROVE  Passed' = {} /\ i' >= funcs'[f'].first
<1>1. /\ DOMAIN Lines = 1 .. N /\ N \in Nat /\ \A k \in DOMAIN funcs : Body(k) \subseteq 1 .. N
      /\ DOMAIN funcs = 1 .. Len(funcs) /\ Len(funcs) \in Nat /\ Len(funcs) >= 1
      /\ \A k \in DOMAIN funcs : funcs[k].first \in 1 .. N + 1 /\ funcs[k].last \in 0 .. N
    BY SourceFacts, FoundFacts DEF TInv
<1>2. ASSUME NEW k \in DOMAIN funcs, NEW p \in Body(k) PROVE ~ (k < 1 \/ (k = 1 /\ p < funcs[1].first))
    BY <1>1 DEF Body
<1>3. Passed' = {p \in DOMAIN Lines : \E k \in DOMAIN funcs : p \in Body(k) /\ (k < 1 \/ (k = 1 /\ p < funcs[1].first))}
    BY LabelsStay DEF Passed
<1>4. funcs[1].first \in Nat
    BY <1>1
<1> QED BY <1>2, <1>3, <1>4

\* A line of the first pass.
LEMMA DefineLine ==
    ASSUME TInv, OnlyNames, BodiesRight, f \in DOMAIN funcs, phase = "define",
           nodes = Lines, Defines(Passed), DefineLabel \/ (SkipNode /\ phase = "define")
    PROVE  nodes' = Lines' /\ Defines(Passed)' /\ i' >= funcs'[f'].first
<1>1. /\ i \in Body(f) /\ i' = i + 1 /\ UNCHANGED <<source, nodes, phase, funcs, f>>
    BY DEF DefineLabel, SkipNode, InBody, discovery
<1>2. /\ i \in DOMAIN Lines /\ i \notin Passed /\ Passed' = Passed \cup {i}
      /\ \A k \in DOMAIN funcs : i \in Body(k) => k = f
      /\ i' >= funcs'[f'].first
    BY <1>1, PassLine
<1>3. IsLocal(f, i) <=> i \in LocalLabels(Lines)
    BY <1>1, LocalFacts
<1>4. \A k \in DOMAIN funcs : \A r \in Locals(k) : r \in Passed' <=> r \in Passed \/ (k = f /\ r = i)
    BY <1>1, <1>2 DEF Locals
<1>5. CASE DefineLabel
    <2>1. i \in Locals(f) /\ local' = local \cup {Definition(f, i)}
        BY <1>1, <1>3, <1>5 DEF DefineLabel, Definition, NewName, Locals
    <2>2. \A d \in local : ~ (d.fn = f /\ d.name = Lines[i].name)
        BY <1>5 DEF DefineLabel
    <2>3. ASSUME NEW r \in Locals(f) \cap Passed PROVE Lines[r].name # Lines[i].name
        <3>1. Definition(f, r) \in local /\ Definition(f, r).fn = f /\ Definition(f, r).name = Lines[r].name
            BY DEF Defines, Definition
        <3> QED BY <2>2, <3>1
    <2>4. \A d \in local' : \E k \in DOMAIN funcs : \E r \in Locals(k) \cap Passed' : d = Definition(k, r)
        BY <1>2, <2>1 DEF Defines
    <2>5. \A k \in DOMAIN funcs : \A r \in Locals(k) \cap Passed' : Definition(k, r) \in local'
        BY <1>4, <2>1 DEF Defines
    <2>6. \A k \in DOMAIN funcs : \A r, s \in Locals(k) \cap Passed' : Lines[r].name = Lines[s].name => r = s
        BY <1>4, <2>3 DEF Defines
    <2>7. Defines(Passed)'
        BY <1>1, <2>4, <2>5, <2>6, LabelsStay DEF Defines
    <2> QED BY <1>1, <1>2, <2>7, LabelsStay
<1>6. CASE SkipNode
    <2>1. local' = local /\ i \notin LocalLabels(Lines)
        BY <1>3, <1>6 DEF SkipNode
    <2>2. \A k \in DOMAIN funcs : Locals(k) \cap Passed' = Locals(k) \cap Passed
        BY <1>4, <2>1 DEF Locals
    <2>3. Defines(Passed)'
        BY <1>1, <2>1, <2>2, LabelsStay DEF Defines
    <2> QED BY <1>1, <1>2, <2>3, LabelsStay
<1> QED BY <1>5, <1>6

\* A line of the second pass.
LEMMA RenameLine ==
    ASSUME TInv, OnlyNames, BodiesRight, f \in DOMAIN funcs, phase = "rename",
           Defines(InBodies), Rewrites(Passed), RenameLabel \/ RenameReference \/ SkipNode
    PROVE  Defines(InBodies)' /\ Rewrites(Passed)' /\ i' >= funcs'[f'].first
<1>1. /\ i \in Body(f) /\ i' = i + 1 /\ UNCHANGED <<source, phase, funcs, f, local>>
    BY DEF RenameLabel, RenameReference, SkipNode, InBody, discovery
<1>2. /\ i \in DOMAIN Lines /\ i \notin Passed /\ i \in InBodies /\ Passed' = Passed \cup {i}
      /\ \A k \in DOMAIN funcs : i \in Body(k) => k = f
      /\ i' >= funcs'[f'].first
    BY <1>1, PassLine
<1>3. nodes[i] = Lines[i] /\ Lines[i] \in SourceNode /\ DOMAIN nodes = DOMAIN Lines
    <2>1. Lines[i] \in SourceNode
        BY <1>2, SourceFacts, ElementOfSeq DEF TInv, N
    <2> QED BY <1>2, <2>1, SourceFacts DEF Rewrites, TInv, Reading
<1>4. IsLocal(f, i) <=> i \in LocalLabels(Lines)
    BY <1>1, <1>3, LocalFacts
<1>5. i \in LocalLabels(Lines) => i \in Locals(f) /\ Lines[i].kind = "label"
    BY <1>1 DEF Locals, LocalLabels
<1>6. (\A p \in DOMAIN Lines : p # i => nodes'[p] = nodes[p]) /\ \A k, p : k = f /\ p = i => Rewritten(k, p)'
    <2>1. SUFFICES /\ \A p \in DOMAIN Lines : p # i => nodes'[p] = nodes[p]
                   /\ nodes'[i].name = IF i \in LocalLabels(Lines) THEN NewName(f, i) ELSE Lines[i].name
                   /\ IF Lines[i].kind = "inst" /\ Definitions(Lines[i].ref) # {}
                      THEN ~ Ambiguous(f, Lines[i].ref) /\ nodes'[i].ref \in Resolve(f, Lines[i].ref)
                      ELSE nodes'[i].ref = Lines[i].ref
        <3>1. /\ \A name : Definitions(name)' = Definitions(name)
              /\ \A k, name : Ambiguous(k, name)' = Ambiguous(k, name) /\ Resolve(k, name)' = Resolve(k, name)
            BY <1>1 DEF Definitions, Ambiguous, Resolve
        <3>2. ASSUME NEW k, NEW p, k = f, p = i PROVE Rewritten(k, p)'
            BY <1>1, <3>1, <3>2, LabelsStay DEF Rewritten
        <3> QED BY <3>2
    <2>2. CASE RenameLabel
        <3>1. i \in Locals(f) /\ Lines[i].kind = "label" /\ i \in LocalLabels(Lines)
            BY <1>4, <1>5, <2>2 DEF RenameLabel
        <3> DEFINE Is(d) == d.fn = f /\ d.name = nodes[i].name
                   c == CHOOSE d \in local : Is(d)
        <3>2. (\E d \in local : Is(d)) /\ nodes' = [nodes EXCEPT ![i].name = c.to]
            BY <2>2 DEF RenameLabel
        <3>3. c \in local /\ Is(c)
            BY <3>2
        <3> HIDE DEF c
        <3>4. PICK k \in DOMAIN funcs : \E r \in Locals(k) \cap InBodies : c = Definition(k, r)
            BY <3>3 DEF Defines
        <3>5. PICK r \in Locals(k) \cap InBodies : c = Definition(k, r)
            BY <3>4
        <3>6. k = f /\ Lines[r].name = Lines[i].name /\ c.to = NewName(k, r)
            BY <1>3, <3>3, <3>5 DEF Definition
        <3>7. r = i
            BY <1>2, <3>1, <3>5, <3>6 DEF Defines
        <3>8. nodes'[i].name = c.to /\ nodes'[i].ref = Lines[i].ref
            BY ONLY <1>2, <1>3, <3>2 DEF SourceNode
        <3>9. \A p \in DOMAIN Lines : p # i => nodes'[p] = nodes[p]
            BY <1>3, <3>2
        <3> QED BY <3>1, <3>6, <3>7, <3>8, <3>9
    <2>3. CASE RenameReference
        <3>1. Lines[i].kind = "inst" /\ ~ Ambiguous(f, Lines[i].ref)
            BY <1>3, <2>3 DEF RenameReference
        <3>2. PICK to \in Resolve(f, Lines[i].ref) : nodes' = [nodes EXCEPT ![i].ref = to]
            BY <1>3, <2>3 DEF RenameReference
        <3>3. nodes'[i].ref = to /\ nodes'[i].name = Lines[i].name
            BY ONLY <1>2, <1>3, <3>2 DEF SourceNode
        <3>4. i \notin LocalLabels(Lines) /\ Definitions(Lines[i].ref) # {}
            <4>1. Definitions(Lines[i].ref) # {}
                BY <3>2 DEF Resolve
            <4> QED BY <1>5, <3>1, <4>1
        <3>5. \A p \in DOMAIN Lines : p # i => nodes'[p] = nodes[p]
            BY <1>3, <3>2
        <3> QED BY <3>1, <3>2, <3>3, <3>4, <3>5
    <2>4. CASE SkipNode
        <3>1. nodes' = nodes /\ (Lines[i].kind = "inst" => Definitions(Lines[i].ref) = {})
            BY <1>3, <2>4 DEF SkipNode
        <3>2. i \notin LocalLabels(Lines)
            <4>1. ASSUME i \in LocalLabels(Lines) PROVE FALSE
                <5>1. Definition(f, i) \in local
                    BY <1>2, <1>5, <4>1 DEF Defines
                <5>2. Definition(f, i).fn = f /\ Definition(f, i).name = nodes[i].name
                    BY <1>3 DEF Definition
                <5>3. \A d \in local : ~ (d.fn = f /\ d.name = nodes[i].name)
                    BY <1>4, <2>4, <4>1 DEF SkipNode
                <5> QED BY <5>1, <5>2, <5>3
            <4> QED BY <4>1
        <3> QED BY <1>3, <3>1, <3>2
    <2> QED BY <2>2, <2>3, <2>4
<1>7. Defines(InBodies)'
    BY <1>1, WholeStays
<1>8. ASSUME NEW p \in DOMAIN Lines \ Passed' PROVE nodes'[p] = Lines[p]
    BY <1>2, <1>6 DEF Rewrites
<1>9. ASSUME NEW k \in DOMAIN funcs, NEW p \in Body(k) \cap Passed' PROVE Rewritten(k, p)'
    <2>1. CASE p = i
        BY <1>2, <1>6, <2>1
    <2>2. CASE p # i
        <3>1. p \in Passed /\ p \in DOMAIN Lines /\ Rewritten(k, p)
            BY <1>2, <2>2 DEF Rewrites, Passed
        <3>2. nodes'[p] = nodes[p]
            BY <1>6, <2>2, <3>1
        <3>3. /\ \A name : Definitions(name)' = Definitions(name)
              /\ \A x, name : Ambiguous(x, name)' = Ambiguous(x, name) /\ Resolve(x, name)' = Resolve(x, name)
            BY <1>1 DEF Definitions, Ambiguous, Resolve
        <3> QED BY <1>1, <3>1, <3>2, <3>3, LabelsStay DEF Rewritten
    <2> QED BY <2>1, <2>2
<1>10. Rewrites(Passed)'
    BY <1>1, <1>8, <1>9, LabelsStay DEF Rewrites
<1> QED BY <1>2, <1>7, <1>10

LEMMA LabelsName ==
    ASSUME TInv, OnlyNames, DInv, NInv, LabelsNext
    PROVE  NInv'
<1>1. phase' # "failed" => UNCHANGED <<source, funcs>>
    BY DEF LabelsNext, StartLabels, DefineLabel, RejectLabel, RenameLabel, RenameReference, RejectReference,
       SkipNode, NextBody, discovery
<1>2. source' = source
    BY DEF LabelsNext, StartLabels, DefineLabel, RejectLabel, RenameLabel, RenameReference, RejectReference,
       SkipNode, NextBody
<1>3. Lines' = Lines /\ Laid(Lines)' = Laid(Lines) /\ NamesApart(Lines)' = NamesApart(Lines)
    BY <1>2 DEF Lines
<1>4. phase' = "failed" => NInv'
    BY DEF NInv, Renamed
<1> SUFFICES ASSUME Laid(Lines), NamesApart(Lines), phase' # "failed" PROVE NInv'
    BY <1>3, <1>4 DEF NInv
<1>5. UNCHANGED <<source, funcs>> /\ InBodies' = InBodies
    BY <1>1, LabelsStay
<1>6. CASE StartLabels
    <2>1. /\ phase = "analyze" /\ phase' = "define" /\ funcs # <<>> /\ f' = 1 /\ i' = funcs[1].first
          /\ nodes' = nodes /\ local' = local
        BY <1>6 DEF StartLabels
    <2>2. local = {} /\ nodes = Lines
        BY <2>1 DEF TInv, Reading, Rewriting, Finding
    <2>3. Passed' = {} /\ i' >= funcs'[f'].first
        BY <1>5, <2>1, PassNothing
    <2>4. Defines(Passed)'
        BY <2>1, <2>2, <2>3 DEF Defines
    <2>5. ~ Renamed'
        BY <2>1 DEF Renamed
    <2> QED BY <1>3, <2>1, <2>2, <2>3, <2>4, <2>5 DEF NInv
<1>7. ASSUME phase \in {"define", "rename"} PROVE BodiesRight /\ f \in DOMAIN funcs
    <2>1. f \in DOMAIN funcs
        BY <1>7, FoundFacts DEF TInv, Rewriting
    <2> QED BY <1>7, <2>1 DEF DInv, Discovered
<1>8. CASE DefineLabel \/ (SkipNode /\ phase = "define")
    <2>1. phase = "define" /\ phase' = "define"
        BY <1>8 DEF DefineLabel, SkipNode
    <2>2. nodes = Lines /\ Defines(Passed)
        BY <2>1 DEF NInv
    <2>3. nodes' = Lines' /\ Defines(Passed)' /\ i' >= funcs'[f'].first
        BY <1>7, <1>8, <2>1, <2>2, DefineLine
    <2>4. ~ Renamed'
        BY <2>1 DEF Renamed
    <2> QED BY <2>1, <2>3, <2>4 DEF NInv
<1>9. CASE RenameLabel \/ RenameReference \/ (SkipNode /\ phase = "rename")
    <2>1. phase = "rename" /\ phase' = "rename"
        BY <1>9 DEF RenameLabel, RenameReference, SkipNode
    <2>2. Defines(InBodies) /\ Rewrites(Passed)
        BY <2>1 DEF NInv
    <2>3. Defines(InBodies)' /\ Rewrites(Passed)' /\ i' >= funcs'[f'].first
        BY <1>7, <1>9, <2>1, <2>2, RenameLine
    <2>4. ~ Renamed'
        BY <2>1 DEF Renamed
    <2> QED BY <2>1, <2>3, <2>4 DEF NInv
<1>10. CASE NextBody
    <2>1. /\ phase \in {"define", "rename"} /\ i \notin Body(f) /\ UNCHANGED <<nodes, local>>
          /\ i >= funcs[f].first /\ f \in DOMAIN funcs /\ BodiesRight
        BY <1>7, <1>10 DEF NextBody, NInv
    <2>2. /\ f < Len(funcs) /\ f' = f + 1 /\ i' = funcs[f + 1].first => Passed' = Passed
          /\ ~ f < Len(funcs) => Passed = InBodies
        BY <1>5, <2>1, PassBody
    <2>3. /\ \A name : Definitions(name)' = Definitions(name)
          /\ \A k, name : Ambiguous(k, name)' = Ambiguous(k, name) /\ Resolve(k, name)' = Resolve(k, name)
        BY <2>1 DEF Definitions, Ambiguous, Resolve
    <2>4. \A k, p : Rewritten(k, p)' = Rewritten(k, p)
        BY <1>5, <2>1, <2>3, LabelsStay DEF Rewritten
    <2>5. CASE f < Len(funcs)
        <3>1. f' = f + 1 /\ i' = funcs[f + 1].first /\ phase' = phase /\ Passed' = Passed
            BY <1>10, <2>2, <2>5 DEF NextBody
        <3>2. i' >= funcs'[f'].first
            <4>1. f + 1 \in DOMAIN funcs /\ N \in Nat
                BY <2>1, <2>5, FoundFacts, SourceFacts DEF TInv
            <4>2. funcs[f + 1].first \in Nat
                BY <4>1, FoundFacts DEF TInv
            <4> QED BY <1>5, <3>1, <4>2
        <3>3. Defines(Passed) => Defines(Passed)'
            BY <1>5, <2>1, <3>1, LabelsStay DEF Defines
        <3>4. Rewrites(Passed) => Rewrites(Passed)'
            BY <1>5, <2>1, <2>4, <3>1, LabelsStay DEF Rewrites
        <3>5. Defines(InBodies) => Defines(InBodies)'
            BY <1>5, <2>1, WholeStays
        <3>6. ~ Renamed'
            BY <2>1, <3>1 DEF Renamed
        <3>7. /\ phase = "define" => nodes = Lines /\ Defines(Passed)
              /\ phase = "rename" => Defines(InBodies) /\ Rewrites(Passed)
            BY DEF NInv
        <3> QED BY <1>3, <2>1, <3>1, <3>2, <3>3, <3>4, <3>5, <3>6, <3>7 DEF NInv
    <2>6. CASE ~ f < Len(funcs) /\ phase = "define"
        <3>1. f' = 1 /\ i' = funcs[1].first /\ phase' = "rename" /\ funcs # <<>>
            BY <1>10, <2>1, <2>6 DEF NextBody
        <3>2. Passed' = {} /\ i' >= funcs'[f'].first
            BY <1>5, <3>1, PassNothing
        <3>3. nodes = Lines /\ Defines(InBodies)
            BY <2>2, <2>6 DEF NInv
        <3>4. Defines(InBodies)'
            BY <1>5, <2>1, <3>3, WholeStays
        <3>5. Rewrites(Passed)'
            BY <1>3, <2>1, <3>2, <3>3 DEF Rewrites
        <3>6. ~ Renamed'
            BY <3>1 DEF Renamed
        <3> QED BY <3>1, <3>2, <3>4, <3>5, <3>6 DEF NInv
    <2>7. CASE ~ f < Len(funcs) /\ phase = "rename"
        <3>1. phase' = "renamed"
            BY <1>10, <2>7 DEF NextBody
        <3>2. Defines(InBodies) /\ Rewrites(InBodies)
            BY <2>2, <2>7 DEF NInv
        <3>3. Defines(InBodies)' /\ Rewrites(InBodies)'
            BY <1>5, <2>1, <3>2, WholeStays
        <3> QED BY <3>1, <3>3 DEF NInv
    <2> QED BY <2>1, <2>5, <2>6, <2>7
<1>11. CASE RejectLabel \/ RejectReference
    BY <1>11 DEF RejectLabel, RejectReference
<1>12. SkipNode => phase \in {"define", "rename"}
    BY DEF SkipNode
<1> QED BY <1>6, <1>8, <1>9, <1>10, <1>11, <1>12 DEF LabelsNext

\* A source without functions has no names to change.
LEMMA NoFunctionsName ==
    ASSUME TInv, DInv, NInv, NoFunctions
    PROVE  NInv'
<1>1. /\ phase = "analyze" /\ phase' \in {"done", "failed"} /\ found = <<>>
      /\ UNCHANGED <<source, nodes, funcs, local>>
    BY DEF NoFunctions, GoOn, passes, discovery
<1>2. nodes = Lines /\ local = {}
    BY <1>1 DEF TInv, Reading, Rewriting, Finding
<1> SUFFICES ASSUME Laid(Lines) PROVE Defines(InBodies)' /\ Rewrites(InBodies)'
    BY <1>1, LabelsStay DEF NInv
<1>3. DOMAIN funcs = {}
    <2>1. \A k \in DOMAIN funcs : k \in DOMAIN found
        BY <1>1 DEF DInv, Made
    <2> QED BY <1>1, <2>1
<1>4. Defines(InBodies) /\ Rewrites(InBodies)
    BY <1>2, <1>3 DEF Defines, Rewrites
<1> QED BY <1>1, <1>4, WholeStays

\* What both passes have done is known at every step.
LEMMA Naming == Spec => [](OnlyNames /\ NInv)
<1>1. Init => OnlyNames /\ NInv
    <2> SUFFICES ASSUME Init PROVE OnlyNames /\ NInv
        OBVIOUS
    <2>1. phase = "companion" /\ nodes = Lines
        BY DEF Init, AnalyzeInit, Lines
    <2>2. TInv
        BY InitTypes
    <2>3. ASSUME NEW p \in DOMAIN Lines PROVE \E n, r : nodes[p] = [Lines[p] EXCEPT !.name = n, !.ref = r]
        <3>1. Lines[p] \in SourceNode
            BY <2>2, <2>3, SourceFacts, ElementOfSeq DEF N, TInv
        <3>2. Lines[p] = [Lines[p] EXCEPT !.name = Lines[p].name, !.ref = Lines[p].ref]
            BY <3>1 DEF SourceNode
        <3> QED BY <2>1, <3>2
    <2> QED BY <2>1, <2>3 DEF OnlyNames, NInv, Renamed
<1>2. TInv /\ DInv /\ OnlyNames /\ NInv /\ [Next]_vars => OnlyNames' /\ NInv'
    <2> SUFFICES ASSUME TInv, DInv, OnlyNames, NInv, [Next]_vars PROVE NInv'
        BY NamesOnly
    <2>1. CASE LabelsNext
        BY <2>1, LabelsName
    <2>2. CASE NoFunctions
        BY <2>2, NoFunctionsName
    <2>3. ASSUME phase' \in Finding \cup {"failed"} PROVE NInv'
        BY <2>3 DEF NInv, Renamed, Finding
    <2>4. CASE AnalyzeNext \/ DeclareEntry \/ IgnoreDeclaration \/ RejectDeclaration \/ EndCompanion
        <3>1. CASE AnalyzeNext
            BY <2>3, <3>1 DEF Finding, AnalyzeNext, ScanGlobl, ScanSize, ScanBegin, ScanOther, Scanning,
               EndFindFunctions, FindBounds, EndBounds, MakeFunction, RejectName
        <3>2. CASE DeclareEntry \/ IgnoreDeclaration \/ RejectDeclaration \/ EndCompanion
            BY <2>3, <3>2 DEF Finding, DeclareEntry, IgnoreDeclaration, RejectDeclaration, EndCompanion,
               Declarations, Fail, GoOn
        <3> QED BY <2>4, <3>1, <3>2
    <2>5. ASSUME UNCHANGED <<source, nodes, funcs, local>>, Renamed, phase' \notin {"define", "rename"}
          PROVE  NInv'
        BY <2>5, LabelsStay, WholeStays DEF NInv
    <2>6. CASE Certify \/ RejectEntry \/ Attach
        <3>1. phase = "renamed" /\ phase' \in {"renamed", "scratch", "failed"} /\ UNCHANGED <<source, nodes, funcs, local>>
            BY <2>6 DEF Certify, RejectEntry, Attach, Fail, passes, discovery
        <3> QED BY <2>5, <3>1 DEF Renamed
    <2>7. CASE AcceptScratch \/ RejectScratch \/ AcceptControl \/ RejectControl
        <3>1. /\ phase \in {"scratch", "control"} /\ phase' \in {"control", "encode", "failed"}
              /\ UNCHANGED <<source, nodes, funcs, local>>
            BY <2>7 DEF AcceptScratch, RejectScratch, AcceptControl, RejectControl, Fail, GoOn, passes, discovery
        <3> QED BY <2>5, <3>1 DEF Renamed
    <2>8. CASE EncodeCode \/ EncodeError \/ EmitLabel \/ EmitNothing \/ EmitNextFunction
        <3>1. /\ phase = "encode" /\ phase' \in {"encode", "ready", "failed"}
              /\ UNCHANGED <<source, nodes, funcs, local>>
            BY <2>8 DEF EncodeCode, EncodeError, EmitLabel, EmitNothing, EmitNextFunction, Encoding, Emit, Fail,
               passes, discovery
        <3> QED BY <2>5, <3>1 DEF Renamed
    <2>9. CASE Enter \/ Run
        <3>1. phase \in {"ready", "run"} /\ phase' = "run" /\ UNCHANGED <<source, nodes, funcs, local>>
            BY <2>9 DEF Enter, Run, Unmoved, discovery
        <3> QED BY <2>5, <3>1 DEF Renamed
    <2>10. CASE UNCHANGED vars
        <3>1. UNCHANGED <<source, nodes, phase, i, f, funcs, local>>
            BY <2>10 DEF vars, discovery
        <3>2. Passed' = Passed
            BY <3>1, LabelsStay DEF Passed
        <3>3. Defines(Passed) => Defines(Passed)'
            BY <3>1, <3>2, LabelsStay DEF Defines
        <3>4. Rewrites(Passed) => Rewrites(Passed)'
            <4>1. /\ \A name : Definitions(name)' = Definitions(name)
                  /\ \A k, name : Ambiguous(k, name)' = Ambiguous(k, name) /\ Resolve(k, name)' = Resolve(k, name)
                BY <3>1 DEF Definitions, Ambiguous, Resolve
            <4>2. \A k, p : Rewritten(k, p)' = Rewritten(k, p)
                BY <3>1, <4>1, LabelsStay DEF Rewritten
            <4> QED BY <3>1, <3>2, <4>2, LabelsStay DEF Rewrites
        <3>5. Renamed' = Renamed
            BY <3>1 DEF Renamed
        <3> QED BY <3>1, <3>3, <3>4, <3>5, LabelsStay, WholeStays DEF NInv
    <2> QED BY <2>1, <2>2, <2>4, <2>6, <2>7, <2>8, <2>9, <2>10 DEF Next, Passes
<1>3. Spec => []TInv
    BY InitTypes, StepTypes, PTL DEF Spec
<1> QED BY <1>1, <1>2, <1>3, Discovering, PTL DEF Spec

\* Of such a source, every reference spells the label that it meant after the
\* labels got their new names, and no other of its body.
THEOREM NamesAreRight == Spec => [](Laid(Lines) /\ NamesApart(Lines) => NamesAgree)
<1>1. TInv /\ DInv /\ OnlyNames /\ NInv => (Laid(Lines) /\ NamesApart(Lines) => NamesAgree)
    <2> SUFFICES ASSUME TInv, DInv, OnlyNames, NInv, Laid(Lines), NamesApart(Lines), Renamed PROVE NamesAgree
        BY DEF NamesAgree
    <2>1. BodiesRight
        <3>1. Discovered
            BY DEF Renamed, Discovered
        <3> QED BY <3>1 DEF DInv
    <2>2. Defines(InBodies) /\ Rewrites(InBodies)
        BY DEF NInv
    <2> QED BY <2>1, <2>2, AgreeAfterwards
<1>2. Spec => []TInv
    BY InitTypes, StepTypes, PTL DEF Spec
<1> QED BY <1>1, <1>2, Discovering, Naming, PTL

-----------------------------------------------------------------------------
(***************************************************************************)
(* Leaves.  Certification looks at the lines of a body one by one; that    *)
(* control cannot leave the body follows where bodies and names are right  *)
(* and the source does not fall out of its functions.                      *)
(***************************************************************************)
Sound == BodiesOwnTheirCode /\ NamesAgree /\ ControlStays(Lines)

Contained ==
    phase = "run" /\ leaf # 0 /\ Sound =>
        /\ src = [line |-> src.line, open |-> <<>>, r11 |-> src.r11]
        /\ src.line # 0 => src.line \in Body(leaf) /\ src.line \in DOMAIN Lines /\ Now.kind \in Code

\* The code at or behind p is of the function with the label q.
Reached(p, q) ==
    \E r \in DOMAIN Lines :
        /\ Lines[r].kind \in Code /\ r >= p /\ q \in Owner(Lines, r)
        /\ \A s \in DOMAIN Lines : Lines[s].kind \in Code /\ s >= p => r <= s

\* What is said of a source holds as long as lines and functions do.
LEMMA SoundStays ==
    ASSUME UNCHANGED <<source, nodes, funcs>>, phase \in {"ready", "run"}, phase' = "run", Sound'
    PROVE  Sound
<1>1. source' = source /\ nodes' = nodes /\ funcs' = funcs /\ Lines' = Lines
    BY DEF Lines
<1>2. Discovered /\ Discovered' /\ Renamed /\ Renamed'
    BY DEF Discovered, Renamed
<1>3. BodiesOwnTheirCode
    <2>1. BodiesOwnTheirCode'
        BY DEF Sound
    <2>2. Exported' = Exported /\ FunctionLabels' = FunctionLabels
        BY <1>1 DEF Exported, FunctionLabels
    <2>3. \A k : Body(k)' = Body(k)
        BY <1>1 DEF Body
    <2> QED BY ONLY <1>1, <1>2, <2>1, <2>2, <2>3 DEF BodiesOwnTheirCode
<1>4. NamesAgree
    <2>1. NamesAgree'
        BY DEF Sound
    <2>2. \A k : Body(k)' = Body(k)
        BY <1>1 DEF Body
    <2>3. \A p : Meaning(p)' = Meaning(p)
        BY <1>1, <2>2 DEF Meaning
    <2> QED BY ONLY <1>1, <1>2, <2>1, <2>2, <2>3 DEF NamesAgree
<1>5. ControlStays(Lines)
    BY <1>1 DEF Sound
<1> QED BY <1>3, <1>4, <1>5 DEF Sound

LEMMA StaysFacts ==
    ASSUME ControlStays(Lines)
    PROVE  /\ \A q \in FunctionLabels : Reached(q, q)
           /\ \A p \in DOMAIN Lines : Lines[p].kind \in Code => \A q \in Owner(Lines, p) :
                /\ Lines[p].op \notin {"jmp", "ret"} => Reached(p + 1, q)
                /\ Lines[p].op \in {"call", "jmp", "jcc"} =>
                     \A r \in DOMAIN Lines \ FunctionLabels :
                        Lines[r].kind = "label" /\ Lines[r].name = Lines[p].ref /\ q \in Owner(Lines, r)
                            => Reached(r, q)
<1> DEFINE Codes == {p \in DOMAIN Lines : Lines[p].kind \in Code}
           Reaches(p, q) ==
               \E r \in Codes : /\ r >= p /\ q \in Owner(Lines, r)
                                /\ \A s \in Codes : s >= p => r <= s
<1>1. \A p, q : Reaches(p, q) => Reached(p, q)
    BY DEF Reached
<1>2. /\ \A q \in LabelsOfFunctions(Lines) : Reaches(q, q)
      /\ \A p \in Codes : \A q \in Owner(Lines, p) :
           /\ Lines[p].op \notin {"jmp", "ret"} => Reaches(p + 1, q)
           /\ Lines[p].op \in {"call", "jmp", "jcc"} =>
                \A r \in DOMAIN Lines \ LabelsOfFunctions(Lines) :
                   Lines[r].kind = "label" /\ Lines[r].name = Lines[p].ref /\ q \in Owner(Lines, r) => Reaches(r, q)
    BY DEF ControlStays
<1> HIDE DEF Reaches
<1> QED BY <1>1, <1>2 DEF FunctionLabels

\* The line that control reaches is in the body.
LEMMA ReachedInBody ==
    ASSUME TInv, BodiesOwnTheirCode, Discovered, NEW k \in DOMAIN funcs, NEW p \in Nat,
           Reached(p, funcs[k].first - 1)
    PROVE  /\ LineFrom(p) \in Body(k) /\ LineFrom(p) \in DOMAIN Lines
           /\ Lines[LineFrom(p)].kind \in Code
<1>1. DOMAIN Lines = 1 .. N /\ N \in Nat
    BY SourceFacts DEF TInv
<1>2. PICK r \in DOMAIN Lines :
          /\ Lines[r].kind \in Code /\ r >= p /\ funcs[k].first - 1 \in Owner(Lines, r)
          /\ \A s \in DOMAIN Lines : Lines[s].kind \in Code /\ s >= p => r <= s
    BY DEF Reached
<1> DEFINE S == {q \in DOMAIN Lines : q >= p /\ Lines[q].kind \in Code}
<1>3. r \in S /\ \A s \in S : r <= s
    BY <1>2
<1>4. LineFrom(p) = CHOOSE q \in S : \A s \in S : q <= s
    <2>1. S # {}
        BY <1>3
    <2> QED BY <2>1 DEF LineFrom, Least
<1>5. \A q \in S : q \in Nat
    BY <1>1
<1> HIDE DEF S
<1>6. LineFrom(p) \in S /\ \A s \in S : LineFrom(p) <= s
    BY <1>3, <1>4
<1>7. LineFrom(p) = r
    BY <1>3, <1>5, <1>6
<1>8. r \in Body(k)
    BY <1>2 DEF BodiesOwnTheirCode, Code
<1> QED BY <1>2, <1>7, <1>8

\* A certified jump means one label, of its body.
LEMMA OneMeaning ==
    ASSUME TInv, OnlyNames, Sound, phase = "run", NEW k \in DOMAIN funcs, NEW p \in DOMAIN Lines, p \in Body(k),
           Lines[p].kind = "inst", nodes[p].ref \in LabelsOf(k)
    PROVE  \E r \in Body(k) \cap DOMAIN Lines :
             Meaning(p) = {r} /\ Lines[r].kind = "label" /\ Lines[r].name = Lines[p].ref
<1>1. /\ DOMAIN Lines = 1 .. N /\ N \in Nat /\ Body(k) \subseteq 1 .. N
      /\ BodiesOwnTheirCode /\ NamesAgree /\ Discovered /\ Renamed
    <2>1. Discovered /\ Renamed
        BY DEF Discovered, Renamed
    <2> QED BY <2>1, SourceFacts, FoundFacts DEF TInv, Sound
<1>2. PICK r \in Body(k) : nodes[r].kind = "label" /\ nodes[r].name = nodes[p].ref
    BY DEF LabelsOf
<1>3. r \in DOMAIN Lines /\ nodes[p].kind = "inst"
    BY <1>1, NodeFacts
<1>4. r \in Meaning(p)
    BY <1>1, <1>2, <1>3 DEF NamesAgree
<1> DEFINE All == {q \in DOMAIN Lines : Lines[q].kind = "label" /\ Lines[q].name = Lines[p].ref}
           Own == {q \in All : \E m \in DOMAIN funcs : p \in Body(m) /\ q \in Body(m)}
<1>5. Meaning(p) = IF Own # {} THEN Own ELSE All
    BY DEF Meaning
<1>6. r \in All /\ r \in Own
    BY <1>4, <1>5
<1>7. ASSUME NEW q \in Meaning(p) PROVE q = r
    <2>1. q \in All /\ \E m \in DOMAIN funcs : p \in Body(m) /\ q \in Body(m)
        BY <1>5, <1>6
    <2>2. PICK m \in DOMAIN funcs : p \in Body(m) /\ q \in Body(m)
        BY <2>1
    <2>3. funcs[m].first - 1 = funcs[k].first - 1
        <3>1. funcs[m].first - 1 \in Owner(Lines, p) /\ funcs[k].first - 1 \in Owner(Lines, p)
            BY ONLY <1>1, <2>2, p \in Body(k), k \in DOMAIN funcs, m \in DOMAIN funcs DEF BodiesOwnTheirCode
        <3>2. DOMAIN Lines \subseteq Nat
            BY <1>1
        <3> QED BY <3>1, <3>2, OneOwner
    <2>4. /\ funcs[m].first \in Nat /\ funcs[k].first \in Nat /\ funcs[m].last \in Nat /\ funcs[k].last \in Nat
        BY <1>1, FoundFacts DEF TInv
    <2>5. (q \in Body(k) /\ r \in Body(k)) \/ (q \in Body(m) /\ r \in Body(m))
        BY <1>2, <2>2, <2>3, <2>4 DEF Body
    <2>6. nodes[q].kind = "label" /\ q \in DOMAIN Lines
        BY <2>1, NodeFacts
    <2>7. nodes[q].name = nodes[p].ref
        BY ONLY <1>1, <1>7, <2>6, p \in DOMAIN Lines, Lines[p].kind = "inst" DEF NamesAgree
    <2>8. nodes[q].name = nodes[r].name
        BY <1>2, <2>7
    <2> QED BY ONLY <1>1, <1>2, <2>2, <2>5, <2>6, <2>8, k \in DOMAIN funcs DEF NamesAgree
<1> QED BY <1>2, <1>3, <1>4, <1>6, <1>7

\* A machine with no open calls.
LEMMA NothingOpen ==
    ASSUME NEW s, NEW x, NEW y, s = [line |-> x, open |-> <<>>, r11 |-> y]
    PROVE  /\ s = [line |-> s.line, open |-> <<>>, r11 |-> s.r11] /\ s.line = x
           /\ \A to, w : [s EXCEPT !.line = to, !.r11 = w] = [line |-> to, open |-> <<>>, r11 |-> w]
<1>1. s = [line |-> s.line, open |-> <<>>, r11 |-> s.r11] /\ s.line = x
    OBVIOUS
<1>2. ASSUME NEW to, NEW w PROVE [s EXCEPT !.line = to, !.r11 = w] = [line |-> to, open |-> <<>>, r11 |-> w]
    <2>1. [s EXCEPT !.line = to] = [line |-> to, open |-> <<>>, r11 |-> y]
        OBVIOUS
    <2>2. [[line |-> to, open |-> <<>>, r11 |-> y] EXCEPT !.r11 = w] = [line |-> to, open |-> <<>>, r11 |-> w]
        BY ONLY TRUE
    <2>3. PICK m : m = [s EXCEPT !.line = to]
        OBVIOUS
    <2>4. [m EXCEPT !.r11 = w] = [line |-> to, open |-> <<>>, r11 |-> w]
        BY ONLY <2>1, <2>2, <2>3
    <2> QED BY ONLY <2>3, <2>4, Zenon
<1> QED BY <1>1, <1>2

LEMMA EnterContained ==
    ASSUME TInv, OnlyNames, Enter
    PROVE  Contained'
<1> SUFFICES ASSUME phase' = "run", leaf' # 0, Sound'
             PROVE  /\ src' = [line |-> src'.line, open |-> <<>>, r11 |-> src'.r11]
                    /\ src'.line # 0 => src'.line \in Body(leaf)' /\ src'.line \in DOMAIN Lines' /\ Now'.kind \in Code
    BY DEF Contained, Code
<1>1. /\ UNCHANGED <<source, nodes, funcs>> /\ phase = "ready"
      /\ Lines' = Lines
    BY DEF Enter, Unmoved, discovery, Lines
<1>2. Sound /\ Discovered
    BY <1>1, SoundStays DEF Discovered
<1>3. PICK k \in DOMAIN funcs, q \in FunctionLabels :
        /\ funcs[k].name \in {Lines[q].name, GoName(Lines[q].name)}
        /\ src' = [line |-> LineFrom(q), open |-> <<>>, r11 |-> 0]
        /\ leaf' \in {0} \cup (direct \cap {k})
    BY DEF Enter
<1>4. leaf' = k /\ q \in Nat
    <2>1. DOMAIN Lines \subseteq Nat
        BY SourceFacts DEF TInv
    <2> QED BY <1>3, <2>1 DEF FunctionLabels, LabelsOfFunctions
<1>5. funcs[k].first = q + 1
    BY <1>2, <1>3 DEF Sound, BodiesOwnTheirCode
<1>6. Reached(q, funcs[k].first - 1)
    <2>1. Reached(q, q)
        BY <1>2, StaysFacts DEF Sound
    <2>2. funcs[k].first - 1 = q
        BY <1>4, <1>5
    <2> QED BY <2>1, <2>2
<1>7. LineFrom(q) \in Body(k) /\ LineFrom(q) \in DOMAIN Lines /\ Lines[LineFrom(q)].kind \in Code
    BY <1>2, <1>4, <1>6, ReachedInBody DEF Sound
<1>8. src'.line = LineFrom(q)
    BY <1>3
<1>9. Body(leaf)' = Body(k) /\ Now' = Lines[LineFrom(q)]
    BY <1>1, <1>4, <1>8 DEF Body, Now
<1> QED BY ONLY <1>1, <1>3, <1>7, <1>8, <1>9

LEMMA RunContained ==
    ASSUME TInv, IInv, OnlyNames, Contained, Run
    PROVE  Contained'
<1> SUFFICES ASSUME phase' = "run", leaf' # 0, Sound'
             PROVE  /\ src' = [line |-> src'.line, open |-> <<>>, r11 |-> src'.r11]
                    /\ src'.line # 0 => src'.line \in Body(leaf)' /\ src'.line \in DOMAIN Lines' /\ Now'.kind \in Code
    BY DEF Contained, Code
<1>1. /\ UNCHANGED <<source, nodes, funcs>> /\ phase = "run" /\ leaf' = leaf
      /\ Lines' = Lines /\ src.line > 0
    BY DEF Run, Unmoved, discovery, Lines
<1>2. Sound /\ Discovered
    BY <1>1, SoundStays DEF Discovered
<1> DEFINE p == src.line
           k == leaf
           q == funcs[k].first - 1
<1>3. /\ src = [line |-> p, open |-> <<>>, r11 |-> src.r11]
      /\ p \in Body(k) /\ p \in DOMAIN Lines /\ Lines[p].kind \in Code /\ Now = Lines[p]
    BY <1>1, <1>2 DEF Contained, Now
<1>4. k \in DOMAIN funcs /\ Certified(k) /\ p \in Nat /\ DOMAIN Lines \subseteq Nat
    <2>1. k \in direct /\ DOMAIN Lines \subseteq Nat
        BY <1>1, SourceFacts DEF TInv, Emitted
    <2> QED BY <1>3, <2>1 DEF IInv, Promised
<1> HIDE DEF p, k
<1>5. CertifiedLine(k, p)
    <2>1. p \in CodeOf(k)
        BY <1>3, NodeFacts DEF CodeOf
    <2> QED BY <1>4, <2>1 DEF Certified
<1>6. /\ Lines[p].op \in {"jmp", "jcc", "ret", "plain"} /\ (Lines[p].op # "plain" => Lines[p].kind = "inst")
      /\ Lines[p].op \in {"jmp", "jcc"} => Lines[p].operand = "symbol" /\ Lines[p].offset = 0 /\ nodes[p].ref \in LabelsOf(k)
    <2>1. /\ Lines[p].kind = "inst" => Lines[p].op \in {"call", "jmp", "jcc", "ret", "system", "plain"}
          /\ Lines[p].kind = "synthetic" => Lines[p].op = "plain"
        BY <1>3, InstructionsAssumption DEF TInv, Reading, Lines
    <2>2. Lines[p].kind \in {"inst", "synthetic"}
        BY <1>3 DEF Code
    <2>3. /\ Lines[p].op \notin {"call", "system"}
          /\ Lines[p].op \in {"jmp", "jcc"} => CertifiedBranch(k, p)
        BY <1>3, <1>5, NodeFacts DEF CertifiedLine
    <2>4. CertifiedBranch(k, p) => Lines[p].operand = "symbol" /\ Lines[p].offset = 0 /\ nodes[p].ref \in LabelsOf(k)
        BY <1>3, NodeFacts DEF CertifiedBranch
    <2> QED BY ONLY <2>1, <2>2, <2>3, <2>4
<1>7. q \in Owner(Lines, p)
    BY <1>2, <1>3, <1>4 DEF Sound, BodiesOwnTheirCode
<1> DEFINE Inside(x) == x \in Body(k) /\ x \in DOMAIN Lines /\ Lines[x].kind \in Code
<1>8. Lines[p].op \notin {"jmp", "ret"} => Inside(LineFrom(p + 1))
    <2>1. Lines[p].op \notin {"jmp", "ret"} => Reached(p + 1, q)
        BY <1>2, <1>3, <1>7, StaysFacts DEF Sound
    <2>2. p + 1 \in Nat
        BY <1>4
    <2> QED BY <1>2, <1>4, <2>1, <2>2, ReachedInBody DEF Sound
<1>9. Lines[p].op \in {"jmp", "jcc"} => Inside(LineOf(Meaning(p)))
    <2> SUFFICES ASSUME Lines[p].op \in {"jmp", "jcc"} PROVE Inside(LineOf(Meaning(p)))
        OBVIOUS
    <2>1. Lines[p].kind = "inst" /\ nodes[p].ref \in LabelsOf(k)
        BY <1>6
    <2>2. PICK r \in Body(k) \cap DOMAIN Lines :
             Meaning(p) = {r} /\ Lines[r].kind = "label" /\ Lines[r].name = Lines[p].ref
        BY <1>1, <1>2, <1>3, <1>4, <2>1, OneMeaning
    <2>3. r \notin FunctionLabels /\ q \in Owner(Lines, r)
        BY <1>2, <1>4, <2>2 DEF Sound, BodiesOwnTheirCode
    <2>4. Reached(r, q)
        BY <1>2, <1>3, <1>7, <2>2, <2>3, StaysFacts DEF Sound, Code
    <2>5. LineOf(Meaning(p)) = LineFrom(r)
        <3>1. r \in Nat
            BY <1>4, <2>2
        <3>2. Least({r}) = r
            BY <3>1 DEF Least
        <3> QED BY <2>2, <3>2 DEF LineOf
    <2>6. r \in Nat
        BY <1>4, <2>2
    <2> QED BY <1>2, <1>4, <2>4, <2>5, <2>6, ReachedInBody DEF Sound
<1> HIDE DEF Inside
<1>10. PICK taken \in BOOLEAN, z \in FunctionLabels : src' = SrcStep(taken, z)
    BY DEF Run
<1>11. /\ src' = [line |-> src'.line, open |-> <<>>, r11 |-> src'.r11]
       /\ src'.line = 0 \/ Inside(src'.line)
    <2> DEFINE to == IF Now.operand # "symbol" THEN LineOf({z})
                     ELSE IF Now.offset # 0 THEN -1 ELSE LineOf(Meaning(src.line))
               written == IF Now.sets THEN src.line ELSE src.r11
    <2>1. SrcStep(taken, z) =
            CASE Now.op \in {"plain", "system"} -> [src EXCEPT !.line = LineFrom(@ + 1), !.r11 = written]
              [] Now.op = "jcc" -> [src EXCEPT !.line = IF taken THEN to ELSE LineFrom(@ + 1)]
              [] Now.op = "jmp" -> [src EXCEPT !.line = to, !.r11 = IF Now.operand = "symbol" THEN @ ELSE 0]
              [] Now.op = "call" -> [line |-> to, open |-> Append(src.open, LineFrom(src.line + 1)),
                                     r11 |-> IF Now.operand = "symbol" THEN src.r11 ELSE 0]
              [] Now.op = "ret" -> IF src.open = <<>> THEN [src EXCEPT !.line = 0]
                                   ELSE [src EXCEPT !.line = src.open[Len(src.open)], !.open = Pop(@)]
        BY DEF SrcStep
    <2>2. src.open = <<>> /\ src.line = p
        BY <1>3 DEF p
    <2>3. Now.op \in {"jmp", "jcc"} => Inside(to)
        BY <1>3, <1>6, <1>9, <2>2
    <2>4. Now.op \notin {"jmp", "ret"} => Inside(LineFrom(src.line + 1))
        BY <1>3, <1>8, <2>2
    <2> HIDE DEF to, written
    <2>5. \A x, w : [src EXCEPT !.line = x, !.r11 = w] = [line |-> x, open |-> <<>>, r11 |-> w]
        BY ONLY <1>3, NothingOpen, Zenon
    <2>6. CASE Now.op = "plain"
        <3>1. src' = [src EXCEPT !.line = LineFrom(src.line + 1), !.r11 = written]
            BY <1>10, <2>1, <2>6
        <3>2. src' = [line |-> LineFrom(src.line + 1), open |-> <<>>, r11 |-> written]
            BY ONLY <2>5, <3>1, Zenon
        <3>3. Inside(LineFrom(src.line + 1))
            BY <2>4, <2>6
        <3> QED BY ONLY <3>2, <3>3, NothingOpen
    <2>7. CASE Now.op = "jcc"
        <3>1. src' = [src EXCEPT !.line = IF taken THEN to ELSE LineFrom(src.line + 1)]
            BY <1>10, <2>1, <2>7
        <3>2. src' = [line |-> IF taken THEN to ELSE LineFrom(src.line + 1), open |-> <<>>, r11 |-> src.r11]
            BY ONLY <1>3, <3>1
        <3>3. Inside(to) /\ Inside(LineFrom(src.line + 1))
            BY <2>3, <2>4, <2>7
        <3>4. /\ src' = [line |-> src'.line, open |-> <<>>, r11 |-> src'.r11]
              /\ src'.line = IF taken THEN to ELSE LineFrom(src.line + 1)
            BY ONLY <3>2, NothingOpen
        <3> QED BY ONLY <3>3, <3>4
    <2>8. CASE Now.op = "jmp"
        <3>1. src' = [src EXCEPT !.line = to, !.r11 = IF Now.operand = "symbol" THEN src.r11 ELSE 0]
            BY <1>10, <2>1, <2>8
        <3>2. src' = [line |-> to, open |-> <<>>, r11 |-> IF Now.operand = "symbol" THEN src.r11 ELSE 0]
            BY ONLY <2>5, <3>1, Zenon
        <3>3. Inside(to)
            BY <2>3, <2>8
        <3> QED BY ONLY <3>2, <3>3, NothingOpen
    <2>9. CASE Now.op = "ret"
        <3>1. src' = [src EXCEPT !.line = 0]
            BY <1>10, <2>1, <2>2, <2>9
        <3>2. src' = [line |-> 0, open |-> <<>>, r11 |-> src.r11]
            BY ONLY <1>3, <3>1
        <3> QED BY ONLY <3>2, NothingOpen
    <2> QED BY <1>3, <1>6, <2>6, <2>7, <2>8, <2>9
<1>12. Body(leaf)' = Body(k) /\ Now' = Lines[src'.line]
    BY <1>1 DEF Body, Now, k
<1> QED BY ONLY <1>1, <1>11, <1>12 DEF Inside

\* Nothing but Enter and Run leads to a run.
LEMMA NotRunning ==
    ASSUME Next, ~ Enter, ~ Run
    PROVE  phase' # "run"
<1>1. CASE Passes
    <2>1. CASE AnalyzeNext
        BY <2>1 DEF AnalyzeNext, ScanGlobl, ScanSize, ScanBegin, ScanOther, Scanning, EndFindFunctions,
           FindBounds, EndBounds, MakeFunction, RejectName
    <2>2. CASE LabelsNext
        BY <2>2 DEF LabelsNext, StartLabels, DefineLabel, RejectLabel, RenameLabel, RenameReference,
           RejectReference, SkipNode, NextBody
    <2> QED BY <1>1, <2>1, <2>2 DEF Passes
<1>2. CASE DeclareEntry \/ IgnoreDeclaration \/ RejectDeclaration \/ EndCompanion \/ NoFunctions
             \/ Certify \/ RejectEntry \/ Attach
    BY <1>2 DEF DeclareEntry, IgnoreDeclaration, RejectDeclaration, EndCompanion, NoFunctions,
       Declarations, Certify, RejectEntry, Attach, Fail, GoOn
<1>3. CASE AcceptScratch \/ RejectScratch \/ AcceptControl \/ RejectControl
    BY <1>3 DEF AcceptScratch, RejectScratch, AcceptControl, RejectControl, Fail, GoOn
<1>4. CASE EncodeCode \/ EncodeError \/ EmitLabel \/ EmitNothing \/ EmitNextFunction
    BY <1>4 DEF EncodeCode, EncodeError, EmitLabel, EmitNothing, EmitNextFunction, Emit, Fail, Encoding
<1> QED BY <1>1, <1>2, <1>3, <1>4 DEF Next

\* Where bodies and names are right and control does not fall out of the source's
\* functions, a leaf keeps to its body.
LEMMA SoundLeaves == Spec => [](Sound => LeafContained)
<1>1. Init => Contained
    BY DEF Init, Contained
<1>2. TInv /\ IInv /\ OnlyNames /\ Contained /\ [Next]_vars => Contained'
    <2> SUFFICES ASSUME TInv, IInv, OnlyNames, Contained, [Next]_vars PROVE Contained'
        OBVIOUS
    <2>1. CASE UNCHANGED vars
        <3>1. UNCHANGED <<source, nodes, funcs, phase, leaf, src>>
            BY <2>1 DEF vars, discovery, machine
        <3>2. Sound' /\ phase' = "run" => Sound
            BY <3>1, SoundStays
        <3>3. Lines' = Lines /\ Now' = Now /\ Body(leaf)' = Body(leaf)
            BY <3>1 DEF Lines, Now, Body
        <3> QED BY <3>1, <3>2, <3>3 DEF Contained, Code
    <2>2. CASE Enter
        BY <2>2, EnterContained
    <2>3. CASE Run
        BY <2>3, RunContained
    <2>4. CASE Next /\ ~ Enter /\ ~ Run
        <3>1. phase' # "run"
            BY <2>4, NotRunning
        <3> QED BY <3>1 DEF Contained
    <2> QED BY <2>1, <2>2, <2>3, <2>4
<1>3. TInv /\ IInv /\ OnlyNames /\ Contained => (Sound => LeafContained)
    <2> SUFFICES ASSUME TInv, IInv, OnlyNames, Contained, Sound, phase = "run", leaf # 0, src.line # 0
                 PROVE  /\ src.line \in Body(leaf) /\ src.open = <<>>
                        /\ Now.op \notin {"call", "system"}
                        /\ Now.op = "ret" => Now.operand = "none"
                        /\ Now.regs \cap (Stack \cup Thread \cup Reserved) = {}
        BY DEF LeafContained
    <2>1. /\ src.open = <<>> /\ src.line \in Body(leaf) /\ src.line \in DOMAIN Lines /\ Now.kind \in Code
        BY DEF Contained
    <2>2. Certified(leaf)
        BY DEF TInv, Emitted, IInv, Promised
    <2>3. src.line \in CodeOf(leaf)
        BY <2>1, NodeFacts DEF CodeOf, Now
    <2>4. CertifiedLine(leaf, src.line)
        BY <2>2, <2>3 DEF Certified
    <2> QED BY <2>1, <2>4, NodeFacts DEF CertifiedLine, Now
<1>4. Spec => []TInv
    BY InitTypes, StepTypes, PTL DEF Spec
<1> QED BY <1>1, <1>2, <1>3, <1>4, Invariance, Naming, PTL DEF Spec

\* Of a source laid out and named as compilers do it, and whose control does not
\* fall out of its functions: a leaf that Go entered never leaves its body, calls
\* nothing, and names no register of the stack, the thread or the runtime.
THEOREM LeafStays ==
    Spec => [](Laid(Lines) /\ NamesApart(Lines) /\ ControlStays(Lines) => LeafContained)
<1>1. BodiesOwnTheirCode /\ NamesAgree /\ ControlStays(Lines) => Sound
    BY DEF Sound
<1> QED BY <1>1, BodiesAreRight, NamesAreRight, SoundLeaves, PTL

-----------------------------------------------------------------------------
(***************************************************************************)
(* The text.  Emission leaves an item for every line of code and every     *)
(* label that is not a pool's, in the order of the lines.                  *)
(***************************************************************************)
Leaving(p) == nodes[p].kind \in Code \/ (nodes[p].kind = "label" /\ ~ IsDataLabel(nodes[p].name))

\* An item that can stand for line p.
ItemOf(item, p) ==
    IF nodes[p].kind = "label" THEN item = Item(p, nodes[p].name, NoName, FALSE)
    ELSE item \in Encodings(p)

\* The items s encode the lines of body k before n.
Encodes(s, k, n) ==
    /\ \E S : s \in Seq(S)
    /\ \A r \in DOMAIN s : \E p \in Body(k) : p < n /\ Leaving(p) /\ ItemOf(s[r], p)
    /\ \A r, t \in DOMAIN s : r < t => s[r].node < s[t].node
    /\ \A p \in Body(k) : p < n /\ Leaving(p) => \E r \in DOMAIN s : s[r].node = p

EInv ==
    phase \in {"encode", "ready", "run"} =>
        /\ \A k \in DOMAIN funcs : ValidControl(k)
        /\ phase = "encode" =>
             /\ i >= funcs[f].first /\ Encodes(text[f], f, i)
             /\ \A k \in DOMAIN funcs : k < f => Encodes(text[k], k, N + 1)
        /\ phase # "encode" => Len(text) = Len(funcs) /\ \A k \in DOMAIN funcs : Encodes(text[k], k, N + 1)

\* What every item says of its line.
LEMMA ItemFacts ==
    ASSUME NEW p, Leaving(p), NEW item, ItemOf(item, p)
    PROVE  item.node = p /\ item.do = IF nodes[p].kind = "label" THEN "label" ELSE nodes[p].op
<1>1. CASE nodes[p].kind = "label"
    BY <1>1 DEF ItemOf, Item
<1>2. CASE item = Assembled(p)
    BY <1>2 DEF Assembled, Item
<1>3. CASE nodes[p].kind # "label" /\ item # Assembled(p)
    <2>1. item \in Encodings(p)
        BY <1>3 DEF ItemOf
    <2>2. \/ item = Item(p, NoName, NoName, nodes[p].operand = "memory")
          \/ item = Item(p, nodes[p].ref, NoName, FALSE)
          \/ item = Item(p, NoName, GoName(nodes[p].ref), p \in indirect)
        BY ONLY <1>3, <2>1, Zenon DEF Encodings
    <2>3. CASE item = Item(p, NoName, GoName(nodes[p].ref), p \in indirect)
        BY <2>3 DEF Item
    <2>4. CASE item = Item(p, NoName, NoName, nodes[p].operand = "memory")
        BY <2>4 DEF Item
    <2>5. CASE item = Item(p, nodes[p].ref, NoName, FALSE)
        BY <2>5 DEF Item
    <2> QED BY <2>2, <2>3, <2>4, <2>5
<1> QED BY <1>1, <1>2, <1>3

LEMMA AppendItem ==
    ASSUME NEW k, Body(k) \subseteq Nat, NEW n \in Body(k), NEW s, Encodes(s, k, n),
           NEW item, Leaving(n), ItemOf(item, n)
    PROVE  Encodes(Append(s, item), k, n + 1)
<1> DEFINE more == Append(s, item)
<1>1. PICK S : s \in Seq(S)
    BY DEF Encodes
<1>2. Len(s) \in Nat /\ DOMAIN s = 1 .. Len(s)
    BY <1>1, LenProperties
<1>3. s \in Seq(S \cup {item}) /\ item \in S \cup {item}
    BY <1>1, SeqMonotonic
<1>4. /\ more \in Seq(S \cup {item}) /\ Len(more) = Len(s) + 1
      /\ \A r \in 1 .. Len(s) : more[r] = s[r]
      /\ more[Len(s) + 1] = item
    BY <1>3, AppendProperties
<1>5. DOMAIN more = 1 .. Len(s) + 1
    BY <1>4, LenProperties
<1> HIDE DEF more
<1>6. item.node = n
    BY ItemFacts
<1>7. \A r \in DOMAIN s : \E p \in Body(k) : p < n /\ Leaving(p) /\ ItemOf(s[r], p) /\ s[r].node = p
    BY ItemFacts DEF Encodes
<1>8. n \in Nat /\ \A p \in Body(k) : p < n + 1 <=> p < n \/ p = n
    OBVIOUS
<1>9. ASSUME NEW r \in DOMAIN more
      PROVE  \E p \in Body(k) : p < n + 1 /\ Leaving(p) /\ ItemOf(more[r], p)
    <2>1. CASE r \in DOMAIN s
        BY <1>2, <1>4, <1>7, <1>8, <2>1
    <2>2. CASE r = Len(s) + 1
        BY <1>4, <1>8, <2>2
    <2> QED BY <1>2, <1>5, <2>1, <2>2
<1>10. ASSUME NEW r \in DOMAIN more, NEW t \in DOMAIN more, r < t PROVE more[r].node < more[t].node
    <2>1. r \in DOMAIN s /\ more[r] = s[r]
        BY <1>2, <1>4, <1>5, <1>10
    <2>2. CASE t \in DOMAIN s
        BY <1>2, <1>4, <1>10, <2>1, <2>2 DEF Encodes
    <2>3. CASE t = Len(s) + 1
        BY <1>4, <1>6, <1>7, <2>1, <2>3
    <2> QED BY <1>2, <1>5, <2>2, <2>3
<1>11. ASSUME NEW p \in Body(k), p < n + 1, Leaving(p) PROVE \E r \in DOMAIN more : more[r].node = p
    <2>1. CASE p < n
        <3>1. PICK r \in DOMAIN s : s[r].node = p
            BY <1>11, <2>1 DEF Encodes
        <3> QED BY <1>2, <1>4, <1>5, <3>1
    <2>2. CASE p = n
        BY <1>2, <1>4, <1>5, <1>6, <2>2
    <2> QED BY <1>8, <1>11, <2>1, <2>2
<1>12. \E T : more \in Seq(T)
    BY <1>4
<1> QED BY <1>9, <1>10, <1>11, <1>12 DEF Encodes, more

\* A line that leaves nothing, or that is not of the body.
LEMMA PassItem ==
    ASSUME NEW k, Body(k) \subseteq Nat, NEW n \in Nat, NEW s, Encodes(s, k, n), NEW m \in Nat, n <= m,
           \A p \in Body(k) : n <= p /\ p < m => ~ Leaving(p)
    PROVE  Encodes(s, k, m)
<1>1. \A p \in Body(k) : (p < n => p < m) /\ (p < m /\ Leaving(p) => p < n)
    OBVIOUS
<1> QED BY <1>1 DEF Encodes

\* The text stays right as long as lines, functions and marked calls do.
LEMMA EncodingsStay ==
    ASSUME UNCHANGED <<source, nodes, funcs, indirect>>
    PROVE  /\ \A k : Body(k)' = Body(k) /\ ValidControl(k)' = ValidControl(k)
           /\ \A s, k, n : Encodes(s, k, n)' = Encodes(s, k, n)
<1>1. \A k : Body(k)' = Body(k)
    BY DEF Body
<1>2. AllLabels' = AllLabels /\ Symbols' = Symbols /\ JumpTargets' = JumpTargets
    <2>1. \A k : LabelsOf(k)' = LabelsOf(k)
        BY <1>1 DEF LabelsOf
    <2>2. AllLabels' = AllLabels
        BY <2>1 DEF AllLabels
    <2> QED BY <2>2 DEF Symbols, JumpTargets
<1>3. \A p, label, fn, via : Item(p, label, fn, via)' = Item(p, label, fn, via)
    BY DEF Item
<1>4. \A p : Encodings(p)' = Encodings(p) /\ Leaving(p)' = Leaving(p)
    BY <1>2, <1>3 DEF Encodings, Assembled, nativeControlSymbol, Leaving, Code
<1>5. \A item, p : ItemOf(item, p)' = ItemOf(item, p)
    BY <1>3, <1>4 DEF ItemOf
<1>6. \A s, k, n : Encodes(s, k, n)' = Encodes(s, k, n)
    BY <1>1, <1>4, <1>5 DEF Encodes
<1>7. \A k : ValidControl(k)' = ValidControl(k)
    BY <1>1, <1>2 DEF ValidControl, InstOf, nativeControlSymbol, ValidLocal, ValidNative
<1> QED BY <1>1, <1>6, <1>7

\* Where encoding has come to.
LEMMA EncodePlace ==
    ASSUME TInv, phase = "encode"
    PROVE  /\ N \in Nat /\ f \in DOMAIN funcs /\ DOMAIN funcs = 1 .. Len(funcs) /\ Len(funcs) \in Nat
           /\ i \in 1 .. N + 1 /\ i \in Nat
           /\ DOMAIN text = 1 .. f /\ Len(text) = f
           /\ \A k \in DOMAIN funcs : /\ funcs[k].first \in Nat /\ funcs[k].last \in Nat
                                      /\ Body(k) \subseteq 1 .. N /\ Body(k) \subseteq Nat
<1>1. phase \notin Finding /\ phase # "failed" /\ phase \notin {"done"}
    BY DEF Finding
<1>2. /\ N \in Nat /\ f \in DOMAIN funcs /\ DOMAIN funcs = 1 .. Len(funcs) /\ Len(funcs) \in Nat /\ i \in 1 .. N + 1
      /\ \A k \in DOMAIN funcs : Body(k) \subseteq 1 .. N
    BY <1>1, PlaceFacts
<1>3. \A k \in DOMAIN funcs : funcs[k].first \in Nat /\ funcs[k].last \in Nat
    BY <1>2, FoundFacts DEF TInv
<1>4. PICK S : text \in Seq(S)
    BY DEF TInv, Emitted
<1>5. Len(text) = f
    BY DEF TInv, Emitted
<1>6. DOMAIN text = 1 .. Len(text)
    BY <1>4, LenProperties
<1> QED BY <1>2, <1>3, <1>5, <1>6

LEMMA AcceptControlEncodes ==
    ASSUME TInv, EInv, AcceptControl
    PROVE  EInv'
<1>1. /\ phase' = "encode" /\ f' = 1 /\ i' = funcs[1].first /\ text' = <<<<>>>>
      /\ \A k \in DOMAIN funcs : ValidControl(k)
      /\ UNCHANGED <<source, nodes, funcs>> /\ phase = "control"
    BY DEF AcceptControl, discovery
<1>2. /\ 1 \in DOMAIN funcs /\ DOMAIN funcs = 1 .. Len(funcs) /\ Len(funcs) \in Nat
      /\ \A k \in DOMAIN funcs : funcs[k].first \in Nat /\ funcs[k].last \in Nat
    <2>1. phase \notin Finding /\ phase \notin {"done", "failed"}
        BY <1>1 DEF Finding
    <2> QED BY <2>1, PlaceFacts, FoundFacts DEF TInv
<1>3. \A k \in DOMAIN funcs : ValidControl(k)'
    <2>1. \A k : Body(k)' = Body(k)
        BY <1>1 DEF Body
    <2>2. \A k : LabelsOf(k)' = LabelsOf(k)
        BY <1>1, <2>1 DEF LabelsOf
    <2>3. AllLabels' = AllLabels /\ Symbols' = Symbols
        BY <1>1, <2>2 DEF AllLabels, Symbols
    <2> QED BY <1>1, <2>1, <2>3 DEF ValidControl, InstOf, nativeControlSymbol, ValidLocal, ValidNative
<1>4. Encodes(<<>>, 1, funcs[1].first)'
    <2>1. \A p \in Body(1)' : ~ (p < funcs[1].first)'
        BY <1>1, <1>2 DEF Body
    <2>2. <<>> \in Seq({}) /\ DOMAIN <<>> = {}
        OBVIOUS
    <2> QED BY ONLY <2>1, <2>2 DEF Encodes
<1>5. text'[1] = <<>>
    BY <1>1
<1>6. \A k \in DOMAIN funcs : ~ k < 1
    BY <1>2
<1>7. (i >= funcs[f].first)' /\ Encodes(text[f], f, i)'
    <2>1. funcs'[f'].first = funcs[1].first
        BY <1>1
    <2>2. (i >= funcs[f].first)'
        BY <1>1, <1>2, <2>1
    <2>3. \A s, k, n : s = <<>> /\ k = 1 /\ n = funcs[1].first => Encodes(s, k, n)'
        BY ONLY <1>1, <1>4
    <2>4. Encodes(text[f], f, i)'
        BY ONLY <1>1, <1>5, <2>3
    <2> QED BY <2>2, <2>4
<1> QED BY ONLY <1>1, <1>3, <1>6, <1>7 DEF EInv

LEMMA EmitEncodes ==
    ASSUME TInv, EInv, EncodeCode \/ EmitLabel
    PROVE  EInv'
<1>1. /\ phase = "encode" /\ i \in Body(f)
      /\ \E item : Emit(item) /\ ItemOf(item, i) /\ Leaving(i)
    <2>1. CASE EncodeCode
        <3>1. PICK item \in Encodings(i) : Emit(item)
            BY <2>1 DEF EncodeCode
        <3>2. nodes[i].kind \in Code
            BY <2>1 DEF EncodeCode
        <3>3. nodes[i].kind # "label"
            BY <3>2 DEF Code
        <3> QED BY <2>1, <3>1, <3>2, <3>3 DEF EncodeCode, Encoding, InBody, ItemOf, Leaving
    <2>2. CASE EmitLabel
        BY <2>2 DEF EmitLabel, Encoding, InBody, ItemOf, Leaving
    <2> QED BY <2>1, <2>2
<1>2. PICK item : Emit(item) /\ ItemOf(item, i) /\ Leaving(i)
    BY <1>1
<1>3. /\ text' = [text EXCEPT ![f] = Append(text[f], item)] /\ i' = i + 1 /\ f' = f /\ phase' = "encode"
      /\ UNCHANGED <<source, nodes, funcs, indirect>>
    BY <1>1, <1>2 DEF Emit, passes, discovery
<1>4. /\ f \in DOMAIN funcs /\ i \in Nat /\ DOMAIN text = 1 .. f /\ f \in Nat /\ N' = N
      /\ funcs[f].first \in Nat /\ Body(f) \subseteq Nat /\ DOMAIN funcs \subseteq Nat
      /\ \A k \in DOMAIN funcs : k < f => k \in DOMAIN text
    BY <1>1, <1>3, EncodePlace DEF N, Lines
<1>5. /\ \A k \in DOMAIN funcs : ValidControl(k)
      /\ i >= funcs[f].first /\ Encodes(text[f], f, i)
      /\ \A k \in DOMAIN funcs : k < f => Encodes(text[k], k, N + 1)
    BY <1>1 DEF EInv
<1>6. Encodes(Append(text[f], item), f, i + 1)
    BY <1>1, <1>2, <1>4, <1>5, AppendItem
<1>7. text'[f] = Append(text[f], item) /\ \A k \in DOMAIN funcs : k < f => text'[k] = text[k]
    <2> DEFINE more == Append(text[f], item)
    <2>1. text' = [text EXCEPT ![f] = more]
        BY <1>3
    <2>2. f \in DOMAIN text /\ \A k \in DOMAIN funcs : k < f => k \in DOMAIN text /\ k # f
        BY <1>1, <1>4, EncodePlace
    <2> HIDE DEF more
    <2>3. text'[f] = more /\ \A k \in DOMAIN text : k # f => text'[k] = text[k]
        BY ONLY <2>1, <2>2
    <2> QED BY <2>2, <2>3 DEF more
<1>8. /\ \A k : ValidControl(k)' = ValidControl(k)
      /\ \A s, k, n : Encodes(s, k, n)' = Encodes(s, k, n)
    BY <1>3, EncodingsStay
<1>9. (i >= funcs[f].first)' /\ Encodes(text[f], f, i)'
    <2>1. (i >= funcs[f].first)'
        BY <1>3, <1>4, <1>5
    <2>2. \A s, k, n : s = Append(text[f], item) /\ k = f /\ n = i + 1 => Encodes(s, k, n)'
        BY ONLY <1>6, <1>8
    <2> QED BY ONLY <1>3, <1>7, <2>1, <2>2
<1>10. ASSUME NEW k \in DOMAIN funcs, k < f PROVE Encodes(text[k], k, N + 1)'
    <2>1. \A s, n : s = text[k] /\ n = N + 1 => Encodes(s, k, n)'
        BY ONLY <1>5, <1>8, <1>10
    <2> QED BY ONLY <1>4, <1>7, <1>10, <2>1
<1> QED BY ONLY <1>3, <1>5, <1>8, <1>9, <1>10 DEF EInv

LEMMA EmitNothingEncodes ==
    ASSUME TInv, EInv, EmitNothing
    PROVE  EInv'
<1>1. /\ phase = "encode" /\ phase' = "encode" /\ ~ Leaving(i) /\ i' = i + 1
      /\ UNCHANGED <<source, nodes, funcs, indirect, f, text>>
    BY DEF EmitNothing, Encoding, Leaving, passes, discovery
<1>2. /\ f \in DOMAIN funcs /\ i \in Nat /\ N' = N /\ funcs[f].first \in Nat /\ Body(f) \subseteq Nat
    BY <1>1, EncodePlace DEF N, Lines
<1>3. /\ \A k \in DOMAIN funcs : ValidControl(k)
      /\ i >= funcs[f].first /\ Encodes(text[f], f, i)
      /\ \A k \in DOMAIN funcs : k < f => Encodes(text[k], k, N + 1)
    BY <1>1 DEF EInv
<1>4. Encodes(text[f], f, i + 1)
    <2>1. \A p \in Body(f) : i <= p /\ p < i + 1 => ~ Leaving(p)
        BY <1>1, <1>2
    <2> QED BY <1>2, <1>3, <2>1, PassItem
<1>5. /\ \A k : ValidControl(k)' = ValidControl(k)
      /\ \A s, k, n : Encodes(s, k, n)' = Encodes(s, k, n)
    BY <1>1, EncodingsStay
<1>6. (i >= funcs[f].first)' /\ Encodes(text[f], f, i)'
    <2>1. (i >= funcs[f].first)'
        BY <1>1, <1>2, <1>3
    <2>2. \A s, k, n : s = text[f] /\ k = f /\ n = i + 1 => Encodes(s, k, n)'
        BY ONLY <1>4, <1>5
    <2> QED BY ONLY <1>1, <2>1, <2>2
<1>7. ASSUME NEW k \in DOMAIN funcs, k < f PROVE Encodes(text[k], k, N + 1)'
    <2>1. \A s, n : s = text[k] /\ n = N + 1 => Encodes(s, k, n)'
        BY ONLY <1>3, <1>5, <1>7
    <2> QED BY ONLY <1>1, <1>2, <2>1
<1> QED BY ONLY <1>1, <1>3, <1>5, <1>6, <1>7 DEF EInv

LEMMA EmitNextEncodes ==
    ASSUME TInv, EInv, EmitNextFunction
    PROVE  EInv'
<1>1. /\ phase = "encode" /\ ~ InBody /\ UNCHANGED <<source, nodes, funcs, indirect>>
      /\ IF f < Len(funcs)
         THEN f' = f + 1 /\ i' = funcs[f + 1].first /\ text' = Append(text, <<>>) /\ phase' = phase
         ELSE phase' = "ready" /\ UNCHANGED <<f, i, text>>
    BY DEF EmitNextFunction, discovery
<1>2. /\ N \in Nat /\ f \in DOMAIN funcs /\ DOMAIN funcs = 1 .. Len(funcs) /\ Len(funcs) \in Nat
      /\ i \in 1 .. N + 1 /\ DOMAIN text = 1 .. f /\ Len(text) = f /\ N' = N
      /\ \A k \in DOMAIN funcs : /\ funcs[k].first \in Nat /\ funcs[k].last \in Nat
                                 /\ Body(k) \subseteq 1 .. N /\ Body(k) \subseteq Nat
    BY <1>1, EncodePlace DEF N, Lines
<1>3. /\ \A k \in DOMAIN funcs : ValidControl(k)
      /\ i >= funcs[f].first /\ Encodes(text[f], f, i)
      /\ \A k \in DOMAIN funcs : k < f => Encodes(text[k], k, N + 1)
    BY <1>1 DEF EInv
<1>4. Encodes(text[f], f, N + 1)
    <2>1. i \notin Body(f)
        BY <1>1, <1>2 DEF InBody
    <2>2. \A p \in Body(f) : ~ (i <= p)
        BY <1>2, <1>3, <2>1 DEF Body
    <2>3. i \in Nat /\ N + 1 \in Nat /\ i <= N + 1
        BY <1>2
    <2> QED BY ONLY <1>2, <1>3, <2>2, <2>3, PassItem
<1>5. \A k \in DOMAIN funcs : k <= f => Encodes(text[k], k, N + 1)
    <2>1. \A k \in DOMAIN funcs : k <= f => k < f \/ k = f
        BY <1>2
    <2> QED BY <1>3, <1>4, <2>1
<1>6. /\ \A k : ValidControl(k)' = ValidControl(k)
      /\ \A s, k, n : Encodes(s, k, n)' = Encodes(s, k, n)
    BY <1>1, EncodingsStay
<1>7. CASE f < Len(funcs)
    <2>1. phase' = "encode" /\ f' = f + 1 /\ i' = funcs[f + 1].first /\ text' = Append(text, <<>>)
        BY <1>1, <1>7
    <2>2. /\ f + 1 \in DOMAIN funcs /\ text'[f + 1] = <<>>
          /\ \A k \in DOMAIN funcs : k <= f => text'[k] = text[k]
        <3>1. PICK S : text \in Seq(S)
            BY DEF TInv, Emitted
        <3>2. text \in Seq(S \cup {<<>>})
            BY <3>1, SeqMonotonic
        <3>3. text'[Len(text) + 1] = <<>> /\ \A k \in 1 .. Len(text) : text'[k] = text[k]
            BY <2>1, <3>2, AppendProperties
        <3> QED BY <1>2, <1>7, <3>3
    <2>3. Encodes(<<>>, f + 1, funcs[f + 1].first)
        <3>1. \A p \in Body(f + 1) : ~ (p < funcs[f + 1].first)
            BY <1>2, <2>2 DEF Body
        <3>2. <<>> \in Seq({}) /\ DOMAIN <<>> = {}
            OBVIOUS
        <3> QED BY ONLY <3>1, <3>2 DEF Encodes
    <2>4. (i >= funcs[f].first)' /\ Encodes(text[f], f, i)'
        <3>1. (i >= funcs[f].first)'
            BY <1>1, <1>2, <2>1, <2>2
        <3>2. \A s, k, n : s = <<>> /\ k = f + 1 /\ n = funcs[f + 1].first => Encodes(s, k, n)'
            BY ONLY <1>6, <2>3
        <3> QED BY ONLY <2>1, <2>2, <3>1, <3>2
    <2>5. ASSUME NEW k \in DOMAIN funcs, k < f' PROVE Encodes(text[k], k, N + 1)'
        <3>1. k <= f
            BY <1>2, <2>1, <2>5
        <3>2. \A s, n : s = text[k] /\ n = N + 1 => Encodes(s, k, n)'
            BY ONLY <1>5, <1>6, <2>5, <3>1
        <3> QED BY ONLY <1>2, <2>2, <2>5, <3>1, <3>2
    <2> QED BY ONLY <1>1, <1>3, <1>6, <2>1, <2>4, <2>5 DEF EInv
<1>8. CASE ~ f < Len(funcs)
    <2>1. phase' = "ready" /\ UNCHANGED <<f, i, text>>
        BY <1>1, <1>8
    <2>2. Len(text) = Len(funcs) /\ \A k \in DOMAIN funcs : k <= f
        BY <1>2, <1>8
    <2>3. ASSUME NEW k \in DOMAIN funcs PROVE Encodes(text[k], k, N + 1)'
        <3>1. \A s, n : s = text[k] /\ n = N + 1 => Encodes(s, k, n)'
            BY ONLY <1>5, <1>6, <2>2, <2>3
        <3> QED BY ONLY <1>2, <2>1, <3>1
    <2>4. (Len(text) = Len(funcs))'
        BY <1>1, <2>1, <2>2
    <2> QED BY ONLY <1>1, <1>3, <1>6, <2>1, <2>3, <2>4 DEF EInv
<1> QED BY <1>7, <1>8

\* What was emitted is known at every step.
LEMMA Emitting == Spec => []EInv
<1>1. Init => EInv
    BY DEF Init, EInv
<1>2. TInv /\ EInv /\ [Next]_vars => EInv'
    <2> SUFFICES ASSUME TInv, EInv, [Next]_vars PROVE EInv'
        OBVIOUS
    <2>1. CASE AcceptControl
        BY <2>1, AcceptControlEncodes
    <2>2. CASE EncodeCode \/ EmitLabel
        BY <2>2, EmitEncodes
    <2>3. CASE EmitNothing
        BY <2>3, EmitNothingEncodes
    <2>4. CASE EmitNextFunction
        BY <2>4, EmitNextEncodes
    <2>5. CASE Enter \/ Run \/ UNCHANGED vars
        <3>1. /\ UNCHANGED <<source, nodes, funcs, indirect, text, f, i>>
              /\ phase' = phase \/ (phase \in {"ready", "run"} /\ phase' = "run")
            BY <2>5 DEF Enter, Run, Unmoved, vars, discovery
        <3>2. /\ \A k : ValidControl(k)' = ValidControl(k)
              /\ \A s, k, n : Encodes(s, k, n)' = Encodes(s, k, n)
            BY <3>1, EncodingsStay
        <3>3. N' = N
            BY <3>1 DEF N, Lines
        <3>4. \A k : Encodes(text[k], k, N + 1)' = Encodes(text[k], k, N + 1)
            BY ONLY <3>1, <3>2, <3>3
        <3>5. Encodes(text[f], f, i)' = Encodes(text[f], f, i)
            BY ONLY <3>1, <3>2
        <3> QED BY ONLY EInv, <3>1, <3>2, <3>4, <3>5 DEF EInv
    <2>6. CASE Passes
        <3>1. CASE AnalyzeNext
            BY <3>1 DEF EInv, AnalyzeNext, ScanGlobl, ScanSize, ScanBegin, ScanOther, Scanning, EndFindFunctions,
               FindBounds, EndBounds, MakeFunction, RejectName
        <3>2. CASE LabelsNext
            BY <3>2 DEF EInv, LabelsNext, StartLabels, DefineLabel, RejectLabel, RenameLabel, RenameReference,
               RejectReference, SkipNode, NextBody
        <3> QED BY <2>6, <3>1, <3>2 DEF Passes
    <2>7. CASE DeclareEntry \/ IgnoreDeclaration \/ RejectDeclaration \/ EndCompanion \/ NoFunctions
                 \/ Certify \/ RejectEntry \/ Attach
        BY <2>7 DEF EInv, DeclareEntry, IgnoreDeclaration, RejectDeclaration, EndCompanion, NoFunctions,
           Declarations, Certify, RejectEntry, Attach, Fail, GoOn
    <2>8. CASE AcceptScratch \/ RejectScratch \/ RejectControl \/ EncodeError
        BY <2>8 DEF EInv, AcceptScratch, RejectScratch, RejectControl, EncodeError, Fail, GoOn
    <2> QED BY <2>1, <2>2, <2>3, <2>4, <2>5, <2>6, <2>7, <2>8 DEF Next
<1>3. Spec => []TInv
    BY InitTypes, StepTypes, PTL DEF Spec
<1> QED BY <1>1, <1>2, <1>3, PTL DEF Spec

\* From its check on, no body that needs the scratch register names it.
SInv == phase \in {"control", "encode", "ready", "run"} => \A k \in DOMAIN funcs : ScratchFree(k)

LEMMA Checking == Spec => []SInv
<1>1. Init => SInv
    BY DEF Init, SInv
<1>2. SInv /\ [Next]_vars => SInv'
    <2> SUFFICES ASSUME SInv, [Next]_vars PROVE SInv'
        OBVIOUS
    <2>1. ASSUME UNCHANGED <<nodes, funcs>>, \A k \in DOMAIN funcs : ScratchFree(k)
          PROVE  \A k \in DOMAIN funcs' : ScratchFree(k)'
        <3>1. nodes' = nodes /\ funcs' = funcs /\ Code' = Code
            BY <2>1 DEF Code
        <3>2. \A k : Body(k)' = Body(k)
            BY <3>1 DEF Body
        <3>3. \A k : InstOf(k)' = InstOf(k) /\ CodeOf(k)' = CodeOf(k) /\ LabelsOf(k)' = LabelsOf(k)
            BY ONLY <3>1, <3>2 DEF InstOf, CodeOf, LabelsOf
        <3>4. AllLabels' = AllLabels
            BY ONLY <3>1, <3>3 DEF AllLabels
        <3>5. \A p : NeedsScratch(p)' = NeedsScratch(p)
            BY ONLY <3>1, <3>4 DEF NeedsScratch, nativeControlSymbol
        <3>6. \A k : ScratchFree(k)' = ScratchFree(k)
            BY ONLY <3>1, <3>3, <3>5 DEF ScratchFree
        <3> QED BY <2>1, <3>1, <3>6
    <2>2. CASE AcceptScratch
        <3>1. UNCHANGED <<nodes, funcs>> /\ \A k \in DOMAIN funcs : ScratchFree(k)
            BY <2>2 DEF AcceptScratch, GoOn, passes, discovery
        <3> QED BY <2>1, <3>1 DEF SInv
    <2>3. CASE AcceptControl \/ EncodeCode \/ EmitLabel \/ EmitNothing \/ EmitNextFunction \/ Enter \/ Run
                 \/ UNCHANGED vars
        <3>1. UNCHANGED <<nodes, funcs>> /\ (phase' = phase \/ phase \in {"control", "encode", "ready", "run"})
            BY <2>3 DEF AcceptControl, EncodeCode, EmitLabel, EmitNothing, EmitNextFunction, Emit, Encoding, Enter, Run,
               Unmoved, vars, passes, discovery
        <3>2. phase \in {"control", "encode", "ready", "run"} => \A k \in DOMAIN funcs' : ScratchFree(k)'
            BY <2>1, <3>1 DEF SInv
        <3> QED BY <3>1, <3>2 DEF SInv
    <2>4. CASE Passes
        <3>1. CASE AnalyzeNext
            BY <3>1 DEF SInv, AnalyzeNext, ScanGlobl, ScanSize, ScanBegin, ScanOther, Scanning, EndFindFunctions,
               FindBounds, EndBounds, MakeFunction, RejectName
        <3>2. CASE LabelsNext
            BY <3>2 DEF SInv, LabelsNext, StartLabels, DefineLabel, RejectLabel, RenameLabel, RenameReference,
               RejectReference, SkipNode, NextBody
        <3> QED BY <2>4, <3>1, <3>2 DEF Passes
    <2>5. CASE DeclareEntry \/ IgnoreDeclaration \/ RejectDeclaration \/ EndCompanion \/ NoFunctions
                 \/ Certify \/ RejectEntry \/ Attach
        BY <2>5 DEF SInv, DeclareEntry, IgnoreDeclaration, RejectDeclaration, EndCompanion, NoFunctions,
           Declarations, Certify, RejectEntry, Attach, Fail, GoOn
    <2>6. CASE RejectScratch \/ RejectControl \/ EncodeError
        BY <2>6 DEF SInv, RejectScratch, RejectControl, EncodeError, Fail
    <2> QED BY <2>2, <2>3, <2>4, <2>5, <2>6 DEF Next
<1> QED BY <1>1, <1>2, PTL DEF Spec

-----------------------------------------------------------------------------
(***************************************************************************)
(* The two machines side by side.  A line and the item that stands for it  *)
(* are matched, and so are what comes after both and where both lead to.   *)
(***************************************************************************)
Sane == Laid(Lines) /\ NamesApart(Lines) /\ ControlStays(Lines) /\ TargetsNamed(Lines)

\* What is known when the text is complete.
Ready ==
    /\ TInv /\ OnlyNames /\ BodiesRight /\ Defines(InBodies) /\ Rewrites(InBodies)
    /\ BodiesOwnTheirCode /\ NamesAgree /\ Sound /\ Discovered /\ Sane
    /\ phase \in {"ready", "run"}
    /\ \A k \in DOMAIN funcs : ValidControl(k) /\ ScratchFree(k) /\ Encodes(text[k], k, N + 1)

LEMMA ReadyFacts ==
    ASSUME TInv, DInv, OnlyNames, NInv, EInv, SInv, Sane, phase \in {"ready", "run"}
    PROVE  Ready
<1>1. Discovered /\ Renamed
    BY DEF Discovered, Renamed
<1>2. BodiesRight /\ Defines(InBodies) /\ Rewrites(InBodies)
    BY <1>1 DEF DInv, NInv, Sane
<1>3. BodiesOwnTheirCode
    BY <1>2 DEF BodiesRight, BodiesOwnTheirCode
<1>4. NamesAgree
    BY <1>2, AgreeAfterwards DEF Sane
<1>5. \A k \in DOMAIN funcs : ValidControl(k) /\ ScratchFree(k) /\ Encodes(text[k], k, N + 1)
    BY DEF EInv, SInv
<1> QED BY <1>1, <1>2, <1>3, <1>4, <1>5 DEF Ready, Sound, Sane

\* The positions of functions and lines.
LEMMA ReadyPlaces ==
    ASSUME Ready
    PROVE  /\ N \in Nat /\ DOMAIN Lines = 1 .. N /\ DOMAIN Lines \subseteq Nat
           /\ Len(funcs) \in Nat /\ DOMAIN funcs = 1 .. Len(funcs)
           /\ FunctionLabels \subseteq DOMAIN Lines
           /\ \A k \in DOMAIN funcs :
                /\ funcs[k].first \in Nat /\ funcs[k].last \in Nat /\ funcs[k].first - 1 \in FunctionLabels
                /\ Body(k) \subseteq DOMAIN Lines /\ \A p \in Body(k) : p > funcs[k].first - 1 /\ p <= N
<1>1. N \in Nat /\ DOMAIN Lines = 1 .. N
    BY SourceFacts DEF Ready, TInv
<1>2. /\ Len(funcs) \in Nat /\ DOMAIN funcs = 1 .. Len(funcs)
      /\ \A k \in DOMAIN funcs : funcs[k].first \in 1 .. N + 1 /\ funcs[k].last \in 0 .. N /\ Body(k) \subseteq 1 .. N
    BY FoundFacts DEF Ready, TInv
<1>3. \A k \in DOMAIN funcs : funcs[k].first - 1 \in FunctionLabels
    BY DEF Ready, BodiesRight
<1>4. \A k \in DOMAIN funcs : \A p \in Body(k) : p > funcs[k].first - 1
    BY <1>1, <1>2 DEF Body
<1>5. FunctionLabels \subseteq DOMAIN Lines
    BY DEF FunctionLabels, LabelsOfFunctions
<1> QED BY <1>1, <1>2, <1>3, <1>4, <1>5

\* The kinds of instructions.
LEMMA OpFacts ==
    ASSUME TInv, NEW p \in DOMAIN Lines, Lines[p].kind \in Code
    PROVE  /\ Lines[p].op \in {"call", "jmp", "jcc", "ret", "system", "plain"}
           /\ Lines[p].op \notin {"plain"} => Lines[p].kind = "inst"
<1>1. /\ Lines[p].kind = "inst" => Lines[p].op \in {"call", "jmp", "jcc", "ret", "system", "plain"}
      /\ Lines[p].kind = "synthetic" => Lines[p].op = "plain"
    BY InstructionsAssumption DEF TInv, Reading, Lines
<1> QED BY <1>1 DEF Code

LEMMA LeastFacts ==
    ASSUME NEW S, S \subseteq Nat, NEW r \in S, \A s \in S : r <= s
    PROVE  Least(S) = r
<1>1. Least(S) = CHOOSE p \in S : \A q \in S : p <= q
    BY DEF Least
<1>2. Least(S) \in S /\ \A s \in S : Least(S) <= s
    BY <1>1
<1>3. r <= Least(S) /\ Least(S) <= r /\ r \in Nat /\ Least(S) \in Nat
    BY <1>2
<1> HIDE DEF Least
<1> QED BY ONLY <1>3

\* The line that control reaches is the first line of code.
LEMMA LineFromFacts ==
    ASSUME TInv, NEW p \in Nat, NEW q, Reached(p, q)
    PROVE  /\ LineFrom(p) \in DOMAIN Lines /\ Lines[LineFrom(p)].kind \in Code /\ LineFrom(p) >= p
           /\ q \in Owner(Lines, LineFrom(p))
           /\ \A s \in DOMAIN Lines : Lines[s].kind \in Code /\ s >= p => LineFrom(p) <= s
<1> DEFINE S == {s \in DOMAIN Lines : s >= p /\ Lines[s].kind \in Code}
<1>1. PICK r \in DOMAIN Lines :
          /\ Lines[r].kind \in Code /\ r >= p /\ q \in Owner(Lines, r)
          /\ \A s \in DOMAIN Lines : Lines[s].kind \in Code /\ s >= p => r <= s
    BY DEF Reached
<1>2. S \subseteq Nat /\ r \in S /\ \A s \in S : r <= s
    BY <1>1, SourceFacts DEF TInv
<1>3. LineFrom(p) = Least(S)
    BY DEF LineFrom
<1> HIDE DEF S
<1>4. LineFrom(p) = r
    BY <1>2, <1>3, LeastFacts
<1> QED BY <1>1, <1>4

\* An item of the text of a body.
LEMMA TextFacts ==
    ASSUME Ready, NEW k \in DOMAIN funcs
    PROVE  /\ DOMAIN text[k] \subseteq Nat /\ \A r \in DOMAIN text[k] : r >= 1
           /\ \A r \in DOMAIN text[k] : LET p == text[k][r].node IN
                /\ p \in Body(k) /\ p \in DOMAIN Lines /\ p \in Nat /\ Leaving(p) /\ ItemOf(text[k][r], p)
                /\ text[k][r].do = "label" <=> Lines[p].kind = "label"
                /\ Lines[p].kind \in Code => text[k][r].do = Lines[p].op
           /\ \A r, s \in DOMAIN text[k] : r < s <=> text[k][r].node < text[k][s].node
           /\ \A p \in Body(k) : Leaving(p) => \E r \in DOMAIN text[k] : text[k][r].node = p
<1>1. Encodes(text[k], k, N + 1)
    BY DEF Ready
<1>2. DOMAIN text[k] \subseteq Nat /\ \A r \in DOMAIN text[k] : r >= 1
    <2>1. PICK S : text[k] \in Seq(S)
        BY <1>1 DEF Encodes
    <2>2. DOMAIN text[k] = 1 .. Len(text[k])
        BY <2>1, LenProperties
    <2> QED BY <2>2
<1>3. ASSUME NEW r \in DOMAIN text[k]
      PROVE  LET p == text[k][r].node IN
                /\ p \in Body(k) /\ p \in DOMAIN Lines /\ p \in Nat /\ Leaving(p) /\ ItemOf(text[k][r], p)
                /\ text[k][r].do = "label" <=> Lines[p].kind = "label"
                /\ Lines[p].kind \in Code => text[k][r].do = Lines[p].op
    <2>1. PICK p \in Body(k) : Leaving(p) /\ ItemOf(text[k][r], p)
        BY <1>1 DEF Encodes
    <2>2. text[k][r].node = p /\ text[k][r].do = IF nodes[p].kind = "label" THEN "label" ELSE nodes[p].op
        BY <2>1, ItemFacts
    <2>3. p \in DOMAIN Lines /\ p \in Nat
        BY ReadyPlaces
    <2>4. nodes[p].kind = Lines[p].kind /\ nodes[p].op = Lines[p].op
        BY <2>3, NodeFacts DEF Ready
    <2>5. Lines[p].kind \in Code \/ Lines[p].kind = "label"
        BY <2>1, <2>4 DEF Leaving
    <2>6. Lines[p].kind \in Code => Lines[p].op # "label" /\ Lines[p].kind # "label"
        BY <2>3, OpFacts DEF Ready, Code
    <2> QED BY <2>1, <2>2, <2>3, <2>4, <2>5, <2>6
<1>4. \A r, s \in DOMAIN text[k] : r < s => text[k][r].node < text[k][s].node
    BY <1>1 DEF Encodes
<1>5. \A r, s \in DOMAIN text[k] : r < s <=> text[k][r].node < text[k][s].node
    <2> SUFFICES ASSUME NEW r \in DOMAIN text[k], NEW s \in DOMAIN text[k], text[k][r].node < text[k][s].node
                 PROVE  r < s
        BY <1>4
    <2>1. text[k][r].node \in Nat /\ text[k][s].node \in Nat /\ r \in Nat /\ s \in Nat
        BY <1>2, <1>3
    <2>2. ~ (s < r)
        BY <1>4, <2>1
    <2>3. s # r
        BY <2>1
    <2> QED BY <2>1, <2>2, <2>3
<1>6. \A p \in Body(k) : p < N + 1 /\ Leaving(p) => \E r \in DOMAIN text[k] : text[k][r].node = p
    BY <1>1 DEF Encodes
<1>7. \A p \in Body(k) : p < N + 1
    BY ReadyPlaces
<1> QED BY <1>2, <1>3, <1>5, <1>6, <1>7

\* A line of the source and the item that stands for it.
Matched(line, place) ==
    /\ place = <<place[1], place[2]>>
    /\ place[1] \in DOMAIN funcs /\ place[2] \in DOMAIN text[place[1]]
    /\ line \in Body(place[1]) /\ line \in DOMAIN Lines /\ Lines[line].kind \in Code
    /\ text[place[1]][place[2]].node = line

LEMMA MatchedTypes ==
    ASSUME Ready, NEW line, NEW place, Matched(line, place)
    PROVE  /\ place \in Nat \X Nat /\ place = <<place[1], place[2]>> /\ place[2] > 0
           /\ line \in Nat /\ line > 0 /\ line \in DOMAIN Lines /\ Lines[line].kind \in Code
           /\ text[place[1]][place[2]].node = line /\ text[place[1]][place[2]].do = Lines[line].op
<1>1. place[1] \in DOMAIN funcs /\ place[2] \in DOMAIN text[place[1]]
    BY DEF Matched
<1>2. place[1] \in Nat /\ place[2] \in Nat /\ place[2] > 0
    BY <1>1, ReadyPlaces, TextFacts
<1>3. line \in DOMAIN Lines /\ line \in Nat /\ line > 0
    BY ReadyPlaces DEF Matched
<1>4. text[place[1]][place[2]].do = Lines[line].op
    BY <1>1, TextFacts DEF Matched
<1> QED BY <1>2, <1>3, <1>4 DEF Matched

\* The item behind position n stands for the line that control reaches from p,
\* if the items from n on are those of the lines from p on.
LEMMA MatchedFrom ==
    ASSUME Ready, NEW k \in DOMAIN funcs, NEW p \in Nat, NEW n \in Nat, Reached(p, funcs[k].first - 1),
           \A r \in DOMAIN text[k] : r >= n <=> text[k][r].node >= p
    PROVE  Matched(LineFrom(p), <<k, ItemFrom(k, n)>>)
<1> DEFINE line == LineFrom(p)
           S == {r \in DOMAIN text[k] : r >= n /\ text[k][r].do # "label"}
<1>1. /\ line \in DOMAIN Lines /\ Lines[line].kind \in Code /\ line >= p /\ line \in Body(k)
      /\ \A s \in DOMAIN Lines : Lines[s].kind \in Code /\ s >= p => line <= s
    BY LineFromFacts, ReachedInBody DEF Ready
<1>2. Leaving(line)
    BY <1>1, NodeFacts DEF Ready, Leaving
<1>3. PICK r \in DOMAIN text[k] : text[k][r].node = line
    BY <1>1, <1>2, TextFacts
<1>4. line \in Nat /\ r \in Nat /\ Lines[line].kind # "label"
    BY <1>1, <1>3, TextFacts DEF Code
<1>5. r \in S
    BY <1>1, <1>3, <1>4, TextFacts
<1>6. ASSUME NEW s \in S PROVE r <= s
    <2>1. s \in DOMAIN text[k] /\ text[k][s].node >= p /\ text[k][s].do # "label"
        OBVIOUS
    <2>2. /\ text[k][s].node \in DOMAIN Lines /\ Lines[text[k][s].node].kind \in Code
          /\ text[k][s].node \in Nat /\ s \in Nat
        BY <2>1, TextFacts, NodeFacts DEF Leaving, Ready
    <2>3. line <= text[k][s].node
        BY <1>1, <2>1, <2>2
    <2>4. ~ (s < r)
        BY <1>3, <1>4, <2>1, <2>2, <2>3, TextFacts
    <2> QED BY <1>4, <2>2, <2>4
<1>7. S \subseteq Nat
    BY TextFacts
<1>8. ItemFrom(k, n) = Least(S)
    BY DEF ItemFrom
<1> HIDE DEF S, line
<1>9. ItemFrom(k, n) = r
    BY <1>5, <1>6, <1>7, <1>8, LeastFacts
<1> QED BY <1>1, <1>3, <1>9 DEF Matched, line

\* So what comes next is matched.
LEMMA MatchedNext ==
    ASSUME Ready, NEW k \in DOMAIN funcs, NEW n, NEW p, Matched(p, <<k, n>>), Lines[p].op \notin {"jmp", "ret"}
    PROVE  Matched(LineFrom(p + 1), <<k, ItemFrom(k, n + 1)>>)
<1>1. /\ n \in DOMAIN text[k] /\ p \in Body(k) /\ p \in DOMAIN Lines /\ Lines[p].kind \in Code
      /\ text[k][n].node = p
    BY DEF Matched
<1>2. n \in Nat /\ p \in Nat
    BY <1>1, TextFacts
<1>3. \A r \in DOMAIN text[k] : r >= n + 1 <=> text[k][r].node >= p + 1
    <2> SUFFICES ASSUME NEW r \in DOMAIN text[k] PROVE r >= n + 1 <=> text[k][r].node >= p + 1
        OBVIOUS
    <2>1. r \in Nat /\ text[k][r].node \in Nat /\ (n < r <=> p < text[k][r].node)
        BY <1>1, TextFacts
    <2> QED BY <1>2, <2>1
<1>4. funcs[k].first - 1 \in Owner(Lines, p)
    BY <1>1 DEF Ready, BodiesRight
<1>5. Reached(p + 1, funcs[k].first - 1)
    BY <1>1, <1>4, StaysFacts DEF Ready, Sane
<1> QED BY <1>2, <1>3, <1>5, MatchedFrom

\* A function, by a name of its label.
LEMMA MatchedFunction ==
    ASSUME Ready, NEW q \in FunctionLabels, NEW name \in {Lines[q].name, GoName(Lines[q].name)}, name \in Symbols
    PROVE  Matched(LineFrom(q), PlaceOfFunction(name))
<1> DEFINE S == {m \in DOMAIN funcs : funcs[m].name = name}
<1>1. S \in SUBSET Nat /\ S # {}
    BY ReadyPlaces DEF Symbols
<1>2. PICK k \in S : \A m \in S : k <= m
    BY <1>1, LeastNatural
<1>3. Least(S) = k
    BY <1>1, <1>2, LeastFacts
<1>4. k \in DOMAIN funcs /\ k \in Nat /\ funcs[k].name = name
    BY <1>1, <1>2
<1>5. PlaceOfFunction(name) = <<k, ItemFrom(k, 1)>>
    <2>1. PlaceOfFunction(name) = <<Least(S), IF Least(S) = -1 THEN -1 ELSE ItemFrom(Least(S), 1)>>
        BY DEF PlaceOfFunction
    <2>2. k # -1
        BY <1>4
    <2> HIDE DEF S
    <2> QED BY ONLY <1>3, <2>1, <2>2
<1>6. funcs[k].first = q + 1
    BY <1>4 DEF Ready, BodiesOwnTheirCode
<1>7. q \in Nat /\ funcs[k].first - 1 = q
    BY <1>6, ReadyPlaces
<1>8. Reached(q, funcs[k].first - 1)
    BY <1>7, StaysFacts DEF Ready, Sane
<1>9. \A r \in DOMAIN text[k] : r >= 1 <=> text[k][r].node >= q
    <2> SUFFICES ASSUME NEW r \in DOMAIN text[k] PROVE r >= 1 /\ text[k][r].node >= q
        OBVIOUS
    <2>1. r >= 1 /\ text[k][r].node \in Body(k) /\ text[k][r].node \in Nat
        BY <1>4, TextFacts
    <2>2. text[k][r].node > q
        BY <1>4, <1>7, <2>1, ReadyPlaces
    <2> QED BY <1>7, <2>1, <2>2
<1> QED BY <1>4, <1>5, <1>7, <1>8, <1>9, MatchedFrom

\* A label of a function, unless it is a pool's, by its new name.
LEMMA MatchedLabel ==
    ASSUME Ready, phase = "run", NEW k \in DOMAIN funcs, NEW q \in Body(k), Lines[q].kind = "label", ~ IsDataLabel(nodes[q].name),
           Reached(q, funcs[k].first - 1)
    PROVE  Matched(LineFrom(q), PlaceOfLabel(k, nodes[q].name))
<1> DEFINE S == {r \in DOMAIN text[k] : text[k][r].do = "label" /\ text[k][r].label = nodes[q].name}
<1>1. q \in DOMAIN Lines /\ q \in Nat
    BY ReadyPlaces
<1>2. nodes[q].kind = "label"
    BY <1>1, NodeFacts DEF Ready
<1>3. PICK n \in DOMAIN text[k] : text[k][n].node = q
    BY <1>2, TextFacts DEF Leaving
<1>4. \A r \in DOMAIN text[k] : text[k][r].do = "label" =>
         nodes[text[k][r].node].kind = "label" /\ text[k][r].label = nodes[text[k][r].node].name
    <2> SUFFICES ASSUME NEW r \in DOMAIN text[k], text[k][r].do = "label"
                 PROVE  nodes[text[k][r].node].kind = "label" /\ text[k][r].label = nodes[text[k][r].node].name
        OBVIOUS
    <2> DEFINE p == text[k][r].node
    <2>1. p \in DOMAIN Lines /\ ItemOf(text[k][r], p) /\ Lines[p].kind = "label"
        BY TextFacts
    <2>2. nodes[p].kind = "label"
        BY <2>1, NodeFacts DEF Ready
    <2>3. text[k][r] = Item(p, nodes[p].name, NoName, FALSE)
        BY <2>1, <2>2 DEF ItemOf
    <2>4. Item(p, nodes[p].name, NoName, FALSE).label = nodes[p].name
        BY DEF Item
    <2> HIDE DEF p
    <2>5. text[k][r].label = nodes[p].name
        BY ONLY <2>3, <2>4
    <2> QED BY <2>2, <2>5 DEF p
<1>5. n \in S
    <2>1. text[k][n].do = "label"
        BY <1>3, TextFacts
    <2> QED BY <1>3, <1>4, <2>1
<1>6. ASSUME NEW r \in S PROVE r = n
    <2>1. /\ r \in DOMAIN text[k] /\ nodes[text[k][r].node].kind = "label" /\ nodes[text[k][r].node].name = nodes[q].name
          /\ text[k][r].node \in Body(k)
        BY <1>4, TextFacts
    <2>2. text[k][r].node = q
        <3>1. Renamed /\ NamesAgree
            BY DEF Ready, Renamed
        <3> QED BY ONLY <1>2, <2>1, <3>1, q \in Body(k), k \in DOMAIN funcs DEF NamesAgree
    <2>3. ~ (r < n) /\ ~ (n < r) /\ r \in Nat /\ n \in Nat
        <3>1. q \in Nat /\ ~ q < q
            BY <1>1
        <3> QED BY <1>3, <2>1, <2>2, <3>1, TextFacts
    <2> QED BY <2>3
<1>7. n \in Nat
    BY TextFacts
<1>8. AtLabel(k, nodes[q].name) = n
    <2>1. AtLabel(k, nodes[q].name) = Least(S)
        BY DEF AtLabel
    <2>2. S \subseteq Nat /\ \A r \in S : n <= r
        BY <1>6, <1>7, TextFacts
    <2> HIDE DEF S
    <2> QED BY <1>5, <2>1, <2>2, LeastFacts
<1>9. PlaceOfLabel(k, nodes[q].name) = <<k, ItemFrom(k, n)>>
    <2>1. n # -1
        BY <1>7
    <2> QED BY <1>8, <2>1 DEF PlaceOfLabel
<1>10. \A r \in DOMAIN text[k] : r >= n <=> text[k][r].node >= q
    <2> SUFFICES ASSUME NEW r \in DOMAIN text[k] PROVE r >= n <=> text[k][r].node >= q
        OBVIOUS
    <2>1. r \in Nat /\ text[k][r].node \in Nat /\ (r < n <=> text[k][r].node < q)
        BY <1>3, TextFacts
    <2> QED BY <1>1, <1>7, <2>1
<1> QED BY <1>1, <1>7, <1>9, <1>10, MatchedFrom

\* Where a call or jump at line p of the source leads, and where its item in the
\* text of body k does; q is the label in a register.
SrcTo(p, q) ==
    IF Lines[p].operand # "symbol" THEN LineOf({q})
    ELSE IF Lines[p].offset # 0 THEN -1 ELSE LineOf(Meaning(p))

DstTo(k, item, q) ==
    IF item.label # NoName THEN PlaceOfLabel(k, item.label)
    ELSE PlaceOfFunction(IF item.fn # NoName THEN item.fn ELSE GoName(Lines[q].name))

LEMMA OneLabel ==
    ASSUME Ready, NEW q \in DOMAIN Lines
    PROVE  LineOf({q}) = LineFrom(q)
<1>1. Least({q}) = q
    <2>1. {q} \subseteq Nat /\ q \in {q} /\ \A s \in {q} : q <= s
        BY ReadyPlaces
    <2> QED BY <2>1, LeastFacts
<1> QED BY <1>1 DEF LineOf

\* The lines of a body have the same owner.
LEMMA SameOwner ==
    ASSUME Ready, NEW k \in DOMAIN funcs, NEW p \in Body(k), NEW r \in Body(k)
    PROVE  Owner(Lines, p) = Owner(Lines, r)
<1>1. funcs[k].first - 1 \in Owner(Lines, p) /\ funcs[k].first - 1 \in Owner(Lines, r)
    BY DEF Ready, BodiesRight
<1>2. DOMAIN Lines \subseteq Nat
    BY ReadyPlaces
<1>3. \A q : q \in Owner(Lines, p) <=> q = funcs[k].first - 1
    BY <1>1, <1>2, OneOwner
<1>4. \A q : q \in Owner(Lines, r) <=> q = funcs[k].first - 1
    BY <1>1, <1>2, OneOwner
<1> QED BY <1>3, <1>4

\* Through a register or memory, both machines go to the function that was asked for.
LEMMA TargetInRegister ==
    ASSUME Ready, NEW k \in DOMAIN funcs, NEW n, NEW p, Matched(p, <<k, n>>), Lines[p].op \in {"call", "jmp", "jcc"},
           NEW q \in FunctionLabels, GoName(Lines[q].name) \in Symbols, Lines[p].operand # "symbol"
    PROVE  Matched(SrcTo(p, q), DstTo(k, text[k][n], q))
<1> DEFINE item == text[k][n]
<1>1. /\ n \in DOMAIN text[k] /\ p \in Body(k) /\ p \in DOMAIN Lines /\ Lines[p].kind \in Code /\ item.node = p
    BY DEF Matched
<1>2. nodes[p].kind \in Code /\ nodes[p].op = Lines[p].op /\ nodes[p].operand = Lines[p].operand
    BY <1>1, NodeFacts DEF Ready
<1>3. item \in Encodings(p)
    <2>1. ItemOf(item, p)
        BY <1>1, TextFacts
    <2> QED BY <1>2, <2>1 DEF ItemOf, Code
<1>4. item = Assembled(p) \/ item = Item(p, NoName, NoName, nodes[p].operand = "memory")
    BY ONLY <1>2, <1>3, Lines[p].operand # "symbol" DEF Encodings
<1>5. Assembled(p) = Item(p, NoName, NoName, FALSE)
    BY <1>2 DEF Assembled, nativeControlSymbol
<1>6. item.label = NoName /\ item.fn = NoName
    <2> HIDE DEF item
    <2>1. \A via : Item(p, NoName, NoName, via).label = NoName /\ Item(p, NoName, NoName, via).fn = NoName
        BY DEF Item
    <2> QED BY ONLY <1>4, <1>5, <2>1
<1>7. DstTo(k, item, q) = PlaceOfFunction(GoName(Lines[q].name))
    <2> HIDE DEF item
    <2> QED BY ONLY <1>6 DEF DstTo
<1>8. SrcTo(p, q) = LineFrom(q)
    <2>1. q \in DOMAIN Lines
        BY ReadyPlaces
    <2> QED BY <2>1, OneLabel DEF SrcTo
<1>9. Matched(LineFrom(q), PlaceOfFunction(GoName(Lines[q].name)))
    BY MatchedFunction
<1> HIDE DEF item
<1> QED BY ONLY <1>7, <1>8, <1>9 DEF item

\* A call or jump that means a label of its function.
LEMMA TargetWithin ==
    ASSUME Ready, phase = "run", NEW k \in DOMAIN funcs, NEW n, NEW p, Matched(p, <<k, n>>), Lines[p].op \in {"call", "jmp", "jcc"},
           NEW q, Lines[p].operand = "symbol", NEW r \in OwnTargets(Lines, p)
    PROVE  /\ Matched(SrcTo(p, q), DstTo(k, text[k][n], q))
           /\ SrcTo(p, q) = LineFrom(r) /\ Reached(r, funcs[k].first - 1) /\ DstTo(k, text[k][n], q)[1] = k
           /\ ~ text[k][n].via
<1> DEFINE item == text[k][n]
<1>1. /\ n \in DOMAIN text[k] /\ p \in Body(k) /\ p \in DOMAIN Lines /\ Lines[p].kind \in Code /\ item.node = p
    BY DEF Matched
<1>2. Lines[p].kind = "inst"
    BY <1>1, OpFacts DEF Ready
<1>3. /\ nodes[p].kind = "inst" /\ nodes[p].op = Lines[p].op /\ nodes[p].operand = "symbol"
      /\ nodes[p].offset = Lines[p].offset
    BY <1>1, <1>2, NodeFacts DEF Ready
<1>4. /\ r \in DOMAIN Lines /\ Lines[r].kind = "label" /\ Lines[r].name = Lines[p].ref
      /\ r \in Body(k) /\ funcs[k].first - 1 \in Owner(Lines, r)
    <2>1. r \in DOMAIN Lines /\ Lines[r].kind = "label" /\ Lines[r].name = Lines[p].ref /\ Owner(Lines, r) = Owner(Lines, p)
        BY DEF OwnTargets, Within
    <2>2. PICK x \in Owner(Lines, r) : r \in BodyOf(Lines, x)
        BY DEF OwnTargets, Within
    <2>3. funcs[k].first - 1 \in Owner(Lines, r)
        BY <1>1, <2>1 DEF Ready, BodiesRight
    <2>4. x = funcs[k].first - 1
        BY <2>3, OneOwner, ReadyPlaces
    <2>5. Body(k) = BodyOf(Lines, funcs[k].first - 1)
        BY DEF Ready, BodiesRight
    <2> QED BY <2>1, <2>2, <2>3, <2>4, <2>5
<1>5. nodes[r].kind = "label"
    BY <1>4, NodeFacts DEF Ready
<1>6. r \in Meaning(p)
    BY <1>1, <1>4 DEF Meaning
<1>7. nodes[p].ref = nodes[r].name
    <2>1. Renamed /\ NamesAgree
        BY DEF Ready, Renamed
    <2> QED BY ONLY <1>1, <1>2, <1>4, <1>6, <2>1 DEF NamesAgree
<1>8. nodes[p].ref \in LabelsOf(k)
    BY <1>4, <1>5, <1>7 DEF LabelsOf
<1>9. Meaning(p) = {r}
    <2>1. PICK x : Meaning(p) = {x}
        BY <1>1, <1>2, <1>8, OneMeaning DEF Ready
    <2> QED BY <1>6, <2>1
<1> DEFINE name == nodes[p].ref
<1>10. name # NoName /\ ~ IsDataLabel(name) /\ \A m \in Marks(Lines) : GoName(name) # GoName(Spelled(Lines, m))
    <2>1. name \in NamesAfter(Lines, r)
        <3>1. CASE r \in LocalLabels(Lines)
            <4>1. r \in Locals(k)
                BY <1>4, <3>1 DEF Locals
            <4>2. nodes[r].name = NewName(k, r)
                BY <1>4, <4>1, RewrittenFacts DEF Ready
            <4>3. NewName(k, r) \in NewNames(Lines, r)
                BY <4>1, NewNameFacts DEF Ready
            <4> QED BY <1>7, <3>1, <4>2, <4>3 DEF NamesAfter
        <3>2. CASE r \notin LocalLabels(Lines)
            <4>1. nodes[r].name = Lines[r].name
                BY <1>4, <3>2, RewrittenFacts DEF Ready
            <4> QED BY <1>7, <3>2, <4>1 DEF NamesAfter
        <3> QED BY <3>1, <3>2
    <2>2. TargetsNamed(Lines)
        BY DEF Ready, Sane
    <2> HIDE DEF name
    <2> QED BY ONLY <1>1, <1>2, <2>1, <2>2, Lines[p].op \in {"call", "jmp", "jcc"}, Lines[p].operand = "symbol",
                    r \in OwnTargets(Lines, p) DEF TargetsNamed
<1>11. GoName(name) \notin Symbols
    <2> SUFFICES ASSUME NEW m \in DOMAIN funcs, GoName(name) = funcs[m].name PROVE FALSE
        BY DEF Symbols
    <2>1. \E x \in Marks(Lines) : funcs[m].name = GoName(Spelled(Lines, x))
        BY DEF Ready, BodiesRight
    <2> HIDE DEF name
    <2> QED BY <1>10, <2>1
<1>12. name \in JumpTargets
    BY <1>8, <1>10 DEF JumpTargets, AllLabels
<1>13. item.label = name /\ ~ item.via
    <2>1. item \in Encodings(p)
        <3>1. ItemOf(item, p)
            BY <1>1, TextFacts
        <3> QED BY <1>3, <3>1 DEF ItemOf
    <2>2. Assembled(p) = Item(p, name, NoName, FALSE)
        BY <1>3 DEF Assembled, nativeControlSymbol
    <2>3. \A fn, via : Item(p, NoName, fn, via).fn = fn
        BY DEF Item
    <2>4. \A fn, via : Item(p, name, fn, via).label = name /\ Item(p, name, fn, via).via = via
        BY DEF Item
    <2>5. item = Assembled(p) \/ item = Item(p, name, NoName, FALSE) \/ (item.fn = GoName(name) /\ item.fn \in Symbols)
        <3> HIDE DEF item
        <3>1. nodes[p].op \in {"call", "jmp", "jcc"}
            BY <1>3
        <3>2. CASE nodes[p].prefix
            BY <2>1, <3>2 DEF Encodings
        <3>3. CASE ~ nodes[p].prefix /\ nodes[p].op # "call"
            BY <1>3, <1>12, <2>1, <3>1, <3>3 DEF Encodings
        <3>4. CASE ~ nodes[p].prefix /\ nodes[p].op = "call"
            <4>1. item \in {x \in {Item(p, NoName, GoName(name), p \in indirect)} :
                             nodes[p].offset = 0 /\ nodes[p].op # "jcc" /\ x.fn \in Symbols}
                BY ONLY <1>3, <2>1, <3>4, Zenon DEF Encodings, name
            <4>2. item = Item(p, NoName, GoName(name), p \in indirect) /\ item.fn \in Symbols
                BY ONLY <4>1
            <4> QED BY ONLY <2>3, <4>2
        <3> QED BY <3>2, <3>3, <3>4
    <2> HIDE DEF item, name
    <2>6. item = Item(p, name, NoName, FALSE)
        BY <1>11, <2>2, <2>5
    <2>7. item.label = name /\ item.via = FALSE
        BY ONLY <2>4, <2>6, Zenon
    <2> QED BY ONLY <2>7, Zenon
<1>14. DstTo(k, item, q) = PlaceOfLabel(k, nodes[r].name)
    <2> HIDE DEF item
    <2> QED BY <1>7, <1>10, <1>13 DEF DstTo
<1>15. SrcTo(p, q) = LineFrom(r)
    <2>1. Lines[p].offset = 0
        <3>1. ValidControl(k) /\ p \in InstOf(k) /\ nativeControlSymbol(p)
            BY <1>1, <1>3 DEF Ready, InstOf, nativeControlSymbol
        <3> QED BY <1>3, <3>1 DEF ValidControl, ValidLocal, ValidNative
    <2>2. LineOf({r}) = LineFrom(r)
        BY <1>4, OneLabel
    <2> QED BY <1>9, <2>1, <2>2 DEF SrcTo
<1>16. Reached(r, funcs[k].first - 1)
    <2>1. r \notin FunctionLabels
        BY <1>4 DEF Ready, BodiesRight
    <2>2. funcs[k].first - 1 \in Owner(Lines, p)
        BY <1>1 DEF Ready, BodiesRight
    <2>3. ControlStays(Lines)
        BY DEF Ready, Sane
    <2> QED BY <1>1, <1>4, <2>1, <2>2, <2>3, StaysFacts
<1>17. Matched(LineFrom(r), PlaceOfLabel(k, nodes[r].name))
    BY <1>4, <1>7, <1>10, <1>16, MatchedLabel
<1> HIDE DEF item
<1>18. PlaceOfLabel(k, nodes[r].name)[1] = k
    BY DEF PlaceOfLabel
<1> QED BY ONLY <1>13, <1>14, <1>15, <1>16, <1>17, <1>18 DEF item


\* A name that is used within functions, but not in that of line p, would have
\* been ambiguous; so what line p means is no label of a function.
LEMMA NotWithin ==
    ASSUME Ready, NEW k \in DOMAIN funcs, NEW p \in Body(k), Lines[p].kind = "inst",
           Lines[p].op \in {"call", "jmp", "jcc"}, Lines[p].operand = "symbol", OwnTargets(Lines, p) = {}
    PROVE  Within(Lines, p) = {} /\ nodes[p].ref = Lines[p].ref /\ nodes[p].ref \notin AllLabels
<1> DEFINE ref == Lines[p].ref
<1>1. p \in DOMAIN Lines /\ TInv /\ BodiesRight /\ Defines(InBodies) /\ Rewrites(InBodies)
    BY ReadyPlaces DEF Ready
<1>2. ASSUME NEW x \in DOMAIN funcs, NEW t \in Body(x), t \in DOMAIN Lines, Lines[t].kind = "label", Lines[t].name = ref
      PROVE  t \in Within(Lines, p)
    <2>1. funcs[x].first - 1 \in Owner(Lines, t) /\ t \in BodyOf(Lines, funcs[x].first - 1)
        BY <1>1 DEF BodiesRight
    <2> QED BY <1>2, <2>1 DEF Within
<1>3. ASSUME NEW d \in Definitions(ref)
      PROVE  \E x \in DOMAIN funcs : \E t \in Locals(x) : d = Definition(x, t) /\ t \in Within(Lines, p)
    <2>1. PICK x \in DOMAIN funcs : \E t \in Locals(x) : d = Definition(x, t) /\ Lines[t].name = ref
        BY <1>1, DefinitionFacts
    <2>2. PICK t \in Locals(x) : d = Definition(x, t) /\ Lines[t].name = ref
        BY <2>1
    <2>3. t \in Body(x) /\ t \in DOMAIN Lines /\ Lines[t].kind = "label"
        BY DEF Locals, LocalLabels
    <2> QED BY <1>2, <2>2, <2>3
<1>4. Within(Lines, p) = {}
    <2> SUFFICES ASSUME Within(Lines, p) # {} PROVE FALSE
        OBVIOUS
    <2>1. TargetsNamed(Lines)
        BY DEF Ready, Sane
    <2>2. PICK r \in Within(Lines, p) \cap LocalLabels(Lines), s \in Within(Lines, p) \cap LocalLabels(Lines) :
              Owner(Lines, r) # Owner(Lines, s)
        BY <1>1, <2>1 DEF TargetsNamed
    <2>3. PICK x \in DOMAIN funcs : r \in Locals(x)
        BY <1>1, LocalBodies
    <2>4. PICK y \in DOMAIN funcs : s \in Locals(y)
        BY <1>1, LocalBodies
    <2>5. x # y
        <3>1. r \in Body(x) /\ s \in Body(y)
            BY <2>3, <2>4 DEF Locals
        <3> QED BY <2>2, <3>1, SameOwner
    <2>6. Lines[r].name = ref /\ Lines[s].name = ref
        BY DEF Within
    <2>7. Definition(x, r) \in Definitions(ref) /\ Definition(y, s) \in Definitions(ref)
        BY <1>1, <2>3, <2>4, <2>6, DefinitionFacts
    <2>8. Definition(x, r) # Definition(y, s)
        <3>1. Definition(x, r).fn = x /\ Definition(y, s).fn = y
            BY DEF Definition
        <3> QED BY <2>5, <3>1
    <2>9. ~ Ambiguous(k, ref)
        BY <1>1, <2>7, RewrittenFacts
    <2>10. PICK d \in Definitions(ref) : d.fn = k
        BY <2>7, <2>8, <2>9 DEF Ambiguous
    <2>11. PICK z \in DOMAIN funcs : \E t \in Locals(z) : d = Definition(z, t) /\ t \in Within(Lines, p)
        BY <1>3
    <2>12. PICK t \in Locals(z) : d = Definition(z, t) /\ t \in Within(Lines, p)
        BY <2>11
    <2>13. z = k
        BY <2>10, <2>12 DEF Definition
    <2>14. Owner(Lines, t) = Owner(Lines, p)
        BY <2>13, SameOwner DEF Locals
    <2> QED BY <2>12, <2>14 DEF OwnTargets
<1>5. nodes[p].ref = ref
    <2>1. Definitions(ref) = {}
        BY <1>3, <1>4
    <2> QED BY <1>1, <2>1, RewrittenFacts
<1>6. ref \notin AllLabels
    <2> SUFFICES ASSUME NEW x \in DOMAIN funcs, NEW t \in Body(x), nodes[t].kind = "label", nodes[t].name = ref
                 PROVE  FALSE
        BY DEF AllLabels, LabelsOf
    <2>1. t \in DOMAIN Lines /\ Lines[t].kind = "label"
        <3>1. t \in DOMAIN Lines
            BY ReadyPlaces
        <3> QED BY <3>1, NodeFacts DEF Ready
    <2>2. CASE t \in LocalLabels(Lines)
        <3>1. t \in Locals(x)
            BY <2>2 DEF Locals
        <3>2. nodes[t].name \in NewNames(Lines, t)
            BY <1>1, <2>1, <3>1, NewNameFacts, RewrittenFacts
        <3> QED BY <1>1, <2>2, <3>2, ApartFacts DEF Ready, Sane
    <2>3. CASE t \notin LocalLabels(Lines)
        <3>1. nodes[t].name = Lines[t].name
            BY <1>1, <2>1, <2>3, RewrittenFacts
        <3> QED BY <1>2, <1>4, <2>1, <3>1
    <2> QED BY <2>2, <2>3
<1> QED BY <1>4, <1>5, <1>6

\* A call or jump that means no label of its function means a function.
LEMMA TargetFunction ==
    ASSUME Ready, NEW k \in DOMAIN funcs, NEW n, NEW p, Matched(p, <<k, n>>), Lines[p].op \in {"call", "jmp", "jcc"},
           NEW q, Lines[p].operand = "symbol", OwnTargets(Lines, p) = {}
    PROVE  /\ Matched(SrcTo(p, q), DstTo(k, text[k][n], q))
           /\ \E y \in FunctionLabels : SrcTo(p, q) = LineFrom(y) /\ Lines[y].name = Lines[p].ref
<1> DEFINE item == text[k][n]
           ref == Lines[p].ref
<1>1. /\ n \in DOMAIN text[k] /\ p \in Body(k) /\ p \in DOMAIN Lines /\ Lines[p].kind \in Code /\ item.node = p
    BY DEF Matched
<1>2. Lines[p].kind = "inst"
    BY <1>1, OpFacts DEF Ready
<1>3. /\ nodes[p].kind = "inst" /\ nodes[p].op = Lines[p].op /\ nodes[p].operand = "symbol"
      /\ nodes[p].offset = Lines[p].offset
    BY <1>1, <1>2, NodeFacts DEF Ready
<1>4. Within(Lines, p) = {} /\ nodes[p].ref = ref /\ ref \notin AllLabels
    BY <1>1, <1>2, NotWithin
<1>5. ~ nodes[p].prefix /\ Lines[p].offset = 0 /\ Lines[p].op \in {"call", "jmp"} /\ GoName(ref) \in Symbols
    <2>1. ValidControl(k) /\ p \in InstOf(k) /\ nativeControlSymbol(p)
        BY <1>1, <1>3 DEF Ready, InstOf, nativeControlSymbol
    <2>2. ValidNative(p)
        BY <1>4, <2>1 DEF ValidControl, ValidLocal
    <2> QED BY <1>3, <1>4, <2>2 DEF ValidNative
<1>6. /\ GoName(ref) # NoName
      /\ \A m \in Marks(Lines) : GoName(ref) = GoName(Spelled(Lines, m)) => ref = Symbol(Lines, m)
    <2>1. TargetsNamed(Lines)
        BY DEF Ready, Sane
    <2> QED BY <1>1, <1>2, <1>4, <2>1 DEF TargetsNamed
<1>7. item.label = NoName /\ item.fn = GoName(ref)
    <2>1. item \in Encodings(p)
        <3>1. ItemOf(item, p)
            BY <1>1, TextFacts
        <3> QED BY <1>3, <3>1 DEF ItemOf
    <2>2. ref \notin JumpTargets
        BY <1>4 DEF JumpTargets
    <2> HIDE DEF item, ref
    <2>3. item = Item(p, NoName, GoName(ref), p \in indirect)
        BY ONLY <1>3, <1>4, <1>5, <2>1, <2>2 DEF Encodings
    <2>4. \A fn, via : Item(p, NoName, fn, via).label = NoName /\ Item(p, NoName, fn, via).fn = fn
        BY DEF Item
    <2> QED BY <2>3, <2>4
<1>8. PICK m \in DOMAIN funcs : GoName(ref) = funcs[m].name
    BY <1>5 DEF Symbols
<1>9. PICK x \in Marks(Lines) : funcs[m].name = GoName(Spelled(Lines, x)) /\ Symbol(Lines, x) = Lines[funcs[m].first - 1].name
    BY DEF Ready, BodiesRight
<1> DEFINE y == funcs[m].first - 1
<1>10. y \in FunctionLabels /\ y \in DOMAIN Lines /\ Lines[y].kind = "label" /\ Lines[y].name = ref
    <2>1. y \in FunctionLabels
        BY DEF Ready, BodiesRight
    <2>2. y \in DOMAIN Lines /\ Lines[y].kind = "label"
        BY <2>1 DEF FunctionLabels, LabelsOfFunctions
    <2> HIDE DEF ref
    <2> QED BY <1>6, <1>8, <1>9, <2>1, <2>2
<1>11. Meaning(p) = {y}
    <2> DEFINE All == {s \in DOMAIN Lines : Lines[s].kind = "label" /\ Lines[s].name = Lines[p].ref}
               Own == {s \in All : \E z \in DOMAIN funcs : p \in Body(z) /\ s \in Body(z)}
    <2>1. Meaning(p) = IF Own # {} THEN Own ELSE All
        BY DEF Meaning
    <2>2. \A s : s \in All <=> s = y
        <3>1. Laid(Lines)
            BY DEF Ready, Sane
        <3> QED BY <1>10, <3>1, LaidFacts
    <2>3. Own \subseteq All
        OBVIOUS
    <2> HIDE DEF All, Own, y
    <2> QED BY <2>1, <2>2, <2>3
<1>12. SrcTo(p, q) = LineFrom(y)
    <2>1. LineOf({y}) = LineFrom(y)
        BY <1>10, OneLabel
    <2> HIDE DEF y
    <2> QED BY <1>5, <1>11, <2>1 DEF SrcTo
<1>13. DstTo(k, item, q) = PlaceOfFunction(GoName(ref))
    <2> HIDE DEF item, ref
    <2> QED BY ONLY <1>6, <1>7 DEF DstTo
<1>14. Matched(LineFrom(y), PlaceOfFunction(GoName(ref)))
    <2> HIDE DEF y
    <2> QED BY <1>5, <1>10, MatchedFunction
<1>15. Lines[y].name = Lines[p].ref
    BY <1>10
<1> HIDE DEF item, ref, y
<1> QED BY ONLY <1>10, <1>12, <1>13, <1>14, <1>15 DEF item

LEMMA Targets ==
    ASSUME Ready, phase = "run", NEW k \in DOMAIN funcs, NEW n, NEW p, Matched(p, <<k, n>>), Lines[p].op \in {"call", "jmp", "jcc"},
           NEW q \in FunctionLabels, GoName(Lines[q].name) \in Symbols
    PROVE  Matched(SrcTo(p, q), DstTo(k, text[k][n], q))
<1>1. CASE Lines[p].operand # "symbol"
    BY <1>1, TargetInRegister
<1>2. CASE Lines[p].operand = "symbol" /\ OwnTargets(Lines, p) = {}
    BY <1>2, TargetFunction
<1>3. CASE Lines[p].operand = "symbol" /\ OwnTargets(Lines, p) # {}
    BY <1>3, TargetWithin
<1> QED BY <1>1, <1>2, <1>3

-----------------------------------------------------------------------------
(***************************************************************************)
(* The scratch register.  Where the source still reads it, in a body that  *)
(* names it, both machines have the same in it: the lines that need it for *)
(* calls are not in such bodies.                                           *)
(***************************************************************************)
Uses(k) == \E p \in CodeOf(k) : nodes[p].regs \cap Scratch # {}

Live(V) == V \in SUBSET DOMAIN Lines /\ ScratchLive(Lines, V)

LEMMA NextCodeFacts ==
    ASSUME TInv, NEW p \in Nat, NEW q, Reached(p, q)
    PROVE  LineFrom(p) \in NextCode(Lines, p)
BY LineFromFacts DEF NextCode

LEMMA LiveFacts ==
    ASSUME NEW V, Live(V), NEW p \in DOMAIN Lines, Lines[p].kind \in Code
    PROVE  /\ Lines[p].regs \cap Scratch # {} /\ ~ Lines[p].sets => p \in V
           /\ Lines[p].op \notin {"jmp", "ret"} /\ NextCode(Lines, p + 1) \cap V # {} =>
                \/ Lines[p].op \in {"plain", "system"} /\ Lines[p].sets
                \/ Lines[p].op = "call" /\ Lines[p].operand = "symbol" /\ OwnTargets(Lines, p) = {}
                \/ Lines[p].op # "call" /\ p \in V
           /\ Lines[p].op = "jcc" => Lines[p].operand = "symbol"
           /\ Lines[p].op \in {"call", "jmp", "jcc"} =>
                /\ \A r \in OwnTargets(Lines, p) : NextCode(Lines, r) \cap V # {} => p \in V
                /\ \A q \in FunctionLabels :
                     /\ Lines[p].operand = "symbol" /\ OwnTargets(Lines, p) = {}
                     /\ Lines[q].name = Lines[p].ref /\ NextCode(Lines, q) \cap V # {}
                     => NamesScratch(Lines, p)
<1>1. ScratchLive(Lines, V)
    BY DEF Live
<1> QED BY <1>1 DEF ScratchLive, FunctionLabels

\* A body with a call or jump by name of a function does not name the register.
LEMMA ByName ==
    ASSUME Ready, NEW k \in DOMAIN funcs, NEW p \in Body(k), Lines[p].kind = "inst",
           Lines[p].op \in {"call", "jmp", "jcc"}, Lines[p].operand = "symbol", OwnTargets(Lines, p) = {}
    PROVE  ~ Uses(k) /\ ~ NamesScratch(Lines, p)
<1>1. p \in DOMAIN Lines
    BY ReadyPlaces
<1>2. nodes[p].kind = "inst" /\ nodes[p].op = Lines[p].op /\ nodes[p].operand = Lines[p].operand
    BY <1>1, NodeFacts DEF Ready
<1>3. nodes[p].ref \notin AllLabels
    BY NotWithin
<1>4. p \in InstOf(k) /\ NeedsScratch(p)
    BY <1>2, <1>3 DEF InstOf, NeedsScratch, nativeControlSymbol
<1>5. \A r \in CodeOf(k) : nodes[r].regs \cap Scratch = {}
    BY <1>4 DEF Ready, ScratchFree
<1>6. ASSUME NamesScratch(Lines, p) PROVE FALSE
    <2>1. PICK r \in DOMAIN Lines :
              Lines[r].kind \in Code /\ Owner(Lines, r) = Owner(Lines, p) /\ Lines[r].regs \cap Scratch # {}
        BY <1>6 DEF NamesScratch
    <2>2. funcs[k].first - 1 \in Owner(Lines, r)
        BY <2>1 DEF Ready, BodiesRight
    <2>3. r \in Body(k)
        BY <2>1, <2>2 DEF Ready, BodiesRight, Code
    <2>4. nodes[r].kind = Lines[r].kind /\ nodes[r].regs = Lines[r].regs
        BY NodeFacts DEF Ready
    <2> QED BY <1>5, <2>1, <2>3, <2>4 DEF CodeOf
<1> QED BY <1>5, <1>6 DEF Uses

\* What is live where a call or jump by name leads to was live before it.
LEMMA LiveTarget ==
    ASSUME Ready, phase = "run", NEW k \in DOMAIN funcs, NEW n, NEW p, Matched(p, <<k, n>>), Lines[p].op \in {"call", "jmp", "jcc"},
           NEW q, Lines[p].operand = "symbol", NEW V, Live(V), SrcTo(p, q) \in V
    PROVE  p \in V /\ DstTo(k, text[k][n], q)[1] = k /\ ~ text[k][n].via
<1>1. p \in Body(k) /\ p \in DOMAIN Lines /\ Lines[p].kind \in Code /\ Lines[p].kind = "inst"
    <2>1. p \in Body(k) /\ p \in DOMAIN Lines /\ Lines[p].kind \in Code
        BY DEF Matched
    <2> QED BY <2>1, OpFacts DEF Ready
<1>2. ASSUME OwnTargets(Lines, p) = {} PROVE FALSE
    <2>1. PICK y \in FunctionLabels : SrcTo(p, q) = LineFrom(y) /\ Lines[y].name = Lines[p].ref
        BY <1>2, TargetFunction
    <2>2. y \in Nat /\ Reached(y, y)
        BY ReadyPlaces, StaysFacts DEF Ready, Sane
    <2>3. LineFrom(y) \in NextCode(Lines, y)
        BY <2>2, NextCodeFacts DEF Ready
    <2>4. NamesScratch(Lines, p)
        BY <1>1, <1>2, <2>1, <2>3, LiveFacts
    <2> QED BY <1>1, <1>2, <2>4, ByName
<1>3. PICK r \in OwnTargets(Lines, p) : TRUE
    BY <1>2
<1>4. /\ SrcTo(p, q) = LineFrom(r) /\ Reached(r, funcs[k].first - 1) /\ DstTo(k, text[k][n], q)[1] = k
      /\ ~ text[k][n].via
    BY <1>3, TargetWithin
<1>5. r \in Nat
    BY <1>3, ReadyPlaces DEF OwnTargets, Within
<1>6. LineFrom(r) \in NextCode(Lines, r)
    BY <1>4, <1>5, NextCodeFacts DEF Ready
<1>7. p \in V
    BY <1>1, <1>3, <1>4, <1>6, LiveFacts
<1> QED BY <1>4, <1>7

\* What is live behind a line was so before it or was set; behind a call, only in
\* bodies that do not name the register.
LEMMA LiveNext ==
    ASSUME Ready, NEW k \in DOMAIN funcs, NEW n, NEW p, Matched(p, <<k, n>>), Lines[p].op \notin {"jmp", "ret"},
           NEW V, Live(V), LineFrom(p + 1) \in V, Uses(k)
    PROVE  Lines[p].op # "call" /\ (p \in V \/ (Lines[p].op \in {"plain", "system"} /\ Lines[p].sets))
<1>1. p \in Body(k) /\ p \in DOMAIN Lines /\ Lines[p].kind \in Code /\ p \in Nat
    BY MatchedTypes DEF Matched
<1>2. funcs[k].first - 1 \in Owner(Lines, p)
    BY <1>1 DEF Ready, BodiesRight
<1>3. Reached(p + 1, funcs[k].first - 1)
    BY <1>1, <1>2, StaysFacts DEF Ready, Sane
<1>4. LineFrom(p + 1) \in NextCode(Lines, p + 1)
    BY <1>1, <1>3, NextCodeFacts DEF Ready
<1>5. ~ (Lines[p].op = "call" /\ Lines[p].operand = "symbol" /\ OwnTargets(Lines, p) = {})
    <2>1. Lines[p].op = "call" => Lines[p].kind = "inst"
        BY <1>1, OpFacts DEF Ready
    <2> QED BY <1>1, <2>1, ByName
<1> QED BY <1>1, <1>4, <1>5, LiveFacts

-----------------------------------------------------------------------------

\* The steps of the machines, field by field.
LEMMA SrcFacts ==
    ASSUME NEW p, NEW a, NEW r, src = [line |-> p, open |-> a, r11 |-> r], NEW taken \in BOOLEAN, NEW q
    PROVE  /\ Lines[p].op \in {"plain", "system"} =>
                SrcStep(taken, q) = [line |-> LineFrom(p + 1), open |-> a, r11 |-> IF Lines[p].sets THEN p ELSE r]
           /\ Lines[p].op = "jcc" =>
                SrcStep(taken, q) = [line |-> IF taken THEN SrcTo(p, q) ELSE LineFrom(p + 1), open |-> a, r11 |-> r]
           /\ Lines[p].op = "jmp" =>
                SrcStep(taken, q) = [line |-> SrcTo(p, q), open |-> a, r11 |-> IF Lines[p].operand = "symbol" THEN r ELSE 0]
           /\ Lines[p].op = "call" =>
                SrcStep(taken, q) = [line |-> SrcTo(p, q), open |-> Append(a, LineFrom(p + 1)),
                                     r11 |-> IF Lines[p].operand = "symbol" THEN r ELSE 0]
           /\ Lines[p].op = "ret" /\ a = <<>> => SrcStep(taken, q) = [line |-> 0, open |-> a, r11 |-> r]
           /\ Lines[p].op = "ret" /\ a # <<>> => SrcStep(taken, q) = [line |-> a[Len(a)], open |-> Pop(a), r11 |-> r]
<1>1. src.line = p /\ src.open = a /\ src.r11 = r /\ Now = Lines[p]
    BY DEF Now
<1> DEFINE to == SrcTo(p, q)
           next == LineFrom(p + 1)
           written == IF Lines[p].sets THEN p ELSE r
           kept == IF Lines[p].operand = "symbol" THEN r ELSE 0
           op == Lines[p].op
<1>2. to = IF Now.operand # "symbol" THEN LineOf({q}) ELSE IF Now.offset # 0 THEN -1 ELSE LineOf(Meaning(src.line))
    BY <1>1 DEF SrcTo
<1>3. SrcStep(taken, q) =
        CASE op \in {"plain", "system"} -> [src EXCEPT !.line = next, !.r11 = written]
          [] op = "jcc" -> [src EXCEPT !.line = IF taken THEN to ELSE next]
          [] op = "jmp" -> [src EXCEPT !.line = to, !.r11 = kept]
          [] op = "call" -> [line |-> to, open |-> Append(a, next), r11 |-> kept]
          [] op = "ret" -> IF a = <<>> THEN [src EXCEPT !.line = 0]
                           ELSE [src EXCEPT !.line = a[Len(a)], !.open = Pop(a)]
    BY <1>1, <1>2, Zenon DEF SrcStep
<1> HIDE DEF to, next, written, kept, op
<1>4. \A x, w : [src EXCEPT !.line = x, !.r11 = w] = [line |-> x, open |-> a, r11 |-> w]
    <2> SUFFICES ASSUME NEW x, NEW w PROVE [src EXCEPT !.line = x, !.r11 = w] = [line |-> x, open |-> a, r11 |-> w]
        OBVIOUS
    <2>1. PICK m : m = [src EXCEPT !.line = x]
        OBVIOUS
    <2>2. m = [line |-> x, open |-> a, r11 |-> r]
        BY <2>1
    <2>3. [m EXCEPT !.r11 = w] = [line |-> x, open |-> a, r11 |-> w]
        BY ONLY <2>2
    <2> QED BY ONLY <2>1, <2>3, Zenon
<1>5. \A x : [src EXCEPT !.line = x] = [line |-> x, open |-> a, r11 |-> r]
    OBVIOUS
<1>6. \A x, b : [src EXCEPT !.line = x, !.open = b] = [line |-> x, open |-> b, r11 |-> r]
    <2> SUFFICES ASSUME NEW x, NEW b PROVE [src EXCEPT !.line = x, !.open = b] = [line |-> x, open |-> b, r11 |-> r]
        OBVIOUS
    <2>1. PICK m : m = [src EXCEPT !.line = x]
        OBVIOUS
    <2>2. m = [line |-> x, open |-> a, r11 |-> r]
        BY <2>1
    <2>3. [m EXCEPT !.open = b] = [line |-> x, open |-> b, r11 |-> r]
        BY ONLY <2>2
    <2> QED BY ONLY <2>1, <2>3, Zenon
<1>7. op \in {"plain", "system"} => SrcStep(taken, q) = [line |-> next, open |-> a, r11 |-> written]
    <2> SUFFICES ASSUME op \in {"plain", "system"} PROVE SrcStep(taken, q) = [line |-> next, open |-> a, r11 |-> written]
        OBVIOUS
    <2>1. SrcStep(taken, q) = [src EXCEPT !.line = next, !.r11 = written]
        BY ONLY <1>3, op \in {"plain", "system"}
    <2> QED BY ONLY <1>4, <2>1, Zenon
<1>8. op = "jcc" => SrcStep(taken, q) = [line |-> IF taken THEN to ELSE next, open |-> a, r11 |-> r]
    <2> SUFFICES ASSUME op = "jcc" PROVE SrcStep(taken, q) = [line |-> IF taken THEN to ELSE next, open |-> a, r11 |-> r]
        OBVIOUS
    <2>1. SrcStep(taken, q) = [src EXCEPT !.line = IF taken THEN to ELSE next]
        BY ONLY <1>3, op = "jcc"
    <2> QED BY ONLY <1>5, <2>1, Zenon
<1>9. op = "jmp" => SrcStep(taken, q) = [line |-> to, open |-> a, r11 |-> kept]
    <2> SUFFICES ASSUME op = "jmp" PROVE SrcStep(taken, q) = [line |-> to, open |-> a, r11 |-> kept]
        OBVIOUS
    <2>1. SrcStep(taken, q) = [src EXCEPT !.line = to, !.r11 = kept]
        BY ONLY <1>3, op = "jmp"
    <2> QED BY ONLY <1>4, <2>1, Zenon
<1>10. op = "call" => SrcStep(taken, q) = [line |-> to, open |-> Append(a, next), r11 |-> kept]
    BY ONLY <1>3
<1>11. op = "ret" /\ a = <<>> => SrcStep(taken, q) = [line |-> 0, open |-> a, r11 |-> r]
    <2> SUFFICES ASSUME op = "ret", a = <<>> PROVE SrcStep(taken, q) = [line |-> 0, open |-> a, r11 |-> r]
        OBVIOUS
    <2>1. SrcStep(taken, q) = [src EXCEPT !.line = 0]
        BY ONLY <1>3, op = "ret", a = <<>>
    <2> QED BY ONLY <1>5, <2>1, Zenon
<1>12. op = "ret" /\ a # <<>> => SrcStep(taken, q) = [line |-> a[Len(a)], open |-> Pop(a), r11 |-> r]
    <2> SUFFICES ASSUME op = "ret", a # <<>>
                 PROVE  SrcStep(taken, q) = [line |-> a[Len(a)], open |-> Pop(a), r11 |-> r]
        OBVIOUS
    <2>1. SrcStep(taken, q) = [src EXCEPT !.line = a[Len(a)], !.open = Pop(a)]
        BY ONLY <1>3, op = "ret", a # <<>>
    <2> QED BY ONLY <1>6, <2>1, Zenon
<1> QED BY ONLY <1>7, <1>8, <1>9, <1>10, <1>11, <1>12 DEF op, to, next, written, kept

LEMMA DstFacts ==
    ASSUME NEW k, NEW n, NEW b, NEW s, dst = [place |-> <<k, n>>, open |-> b, r11 |-> s], NEW taken \in BOOLEAN, NEW q,
           NEW item, item = text[k][n]
    PROVE  /\ item.do \in {"plain", "system"} =>
                DstStep(taken, q) = [place |-> <<k, ItemFrom(k, n + 1)>>, open |-> b,
                                     r11 |-> IF nodes[item.node].sets THEN item.node ELSE s]
           /\ item.do = "jcc" =>
                DstStep(taken, q) = [place |-> IF taken THEN DstTo(k, item, q) ELSE <<k, ItemFrom(k, n + 1)>>,
                                     open |-> b, r11 |-> s]
           /\ item.do = "jmp" =>
                DstStep(taken, q) = [place |-> DstTo(k, item, q), open |-> b, r11 |-> IF item.via THEN -1 ELSE s]
           /\ item.do = "call" =>
                DstStep(taken, q) = [place |-> DstTo(k, item, q), open |-> Append(b, <<k, ItemFrom(k, n + 1)>>),
                                     r11 |-> IF item.via THEN -1 ELSE s]
           /\ item.do = "ret" /\ b = <<>> => DstStep(taken, q) = [place |-> <<k, 0>>, open |-> b, r11 |-> s]
           /\ item.do = "ret" /\ b # <<>> => DstStep(taken, q) = [place |-> b[Len(b)], open |-> Pop(b), r11 |-> s]
<1>1. dst.place = <<k, n>> /\ dst.place[1] = k /\ dst.place[2] = n /\ dst.open = b /\ dst.r11 = s
    OBVIOUS
<1>2. ThenNow = item
    BY <1>1 DEF ThenNow
<1> DEFINE to == DstTo(k, item, q)
           next == <<k, ItemFrom(k, n + 1)>>
           written == IF nodes[item.node].sets THEN item.node ELSE s
           lowered == IF item.via THEN -1 ELSE s
           op == item.do
<1>3. DstStep(taken, q) =
        CASE op \in {"plain", "system"} -> [dst EXCEPT !.place = next, !.r11 = written]
          [] op = "jcc" -> [dst EXCEPT !.place = IF taken THEN to ELSE next]
          [] op = "jmp" -> [dst EXCEPT !.place = to, !.r11 = lowered]
          [] op = "call" -> [place |-> to, open |-> Append(b, next), r11 |-> lowered]
          [] op = "ret" -> IF b = <<>> THEN [dst EXCEPT !.place = <<k, 0>>]
                           ELSE [dst EXCEPT !.place = b[Len(b)], !.open = Pop(b)]
    BY <1>1, <1>2, Zenon DEF DstStep, DstTo
<1> HIDE DEF to, next, written, lowered, op
<1>4. \A x, w : [dst EXCEPT !.place = x, !.r11 = w] = [place |-> x, open |-> b, r11 |-> w]
    <2> SUFFICES ASSUME NEW x, NEW w PROVE [dst EXCEPT !.place = x, !.r11 = w] = [place |-> x, open |-> b, r11 |-> w]
        OBVIOUS
    <2>1. PICK m : m = [dst EXCEPT !.place = x]
        OBVIOUS
    <2>2. m = [place |-> x, open |-> b, r11 |-> s]
        BY <2>1
    <2>3. [m EXCEPT !.r11 = w] = [place |-> x, open |-> b, r11 |-> w]
        BY ONLY <2>2
    <2> QED BY ONLY <2>1, <2>3, Zenon
<1>5. \A x : [dst EXCEPT !.place = x] = [place |-> x, open |-> b, r11 |-> s]
    OBVIOUS
<1>6. \A x, c : [dst EXCEPT !.place = x, !.open = c] = [place |-> x, open |-> c, r11 |-> s]
    <2> SUFFICES ASSUME NEW x, NEW c PROVE [dst EXCEPT !.place = x, !.open = c] = [place |-> x, open |-> c, r11 |-> s]
        OBVIOUS
    <2>1. PICK m : m = [dst EXCEPT !.place = x]
        OBVIOUS
    <2>2. m = [place |-> x, open |-> b, r11 |-> s]
        BY <2>1
    <2>3. [m EXCEPT !.open = c] = [place |-> x, open |-> c, r11 |-> s]
        BY ONLY <2>2
    <2> QED BY ONLY <2>1, <2>3, Zenon
<1>7. op \in {"plain", "system"} => DstStep(taken, q) = [place |-> next, open |-> b, r11 |-> written]
    <2> SUFFICES ASSUME op \in {"plain", "system"} PROVE DstStep(taken, q) = [place |-> next, open |-> b, r11 |-> written]
        OBVIOUS
    <2>1. DstStep(taken, q) = [dst EXCEPT !.place = next, !.r11 = written]
        BY ONLY <1>3, op \in {"plain", "system"}
    <2> QED BY ONLY <1>4, <2>1, Zenon
<1>8. op = "jcc" => DstStep(taken, q) = [place |-> IF taken THEN to ELSE next, open |-> b, r11 |-> s]
    <2> SUFFICES ASSUME op = "jcc" PROVE DstStep(taken, q) = [place |-> IF taken THEN to ELSE next, open |-> b, r11 |-> s]
        OBVIOUS
    <2>1. DstStep(taken, q) = [dst EXCEPT !.place = IF taken THEN to ELSE next]
        BY ONLY <1>3, op = "jcc"
    <2> QED BY ONLY <1>5, <2>1, Zenon
<1>9. op = "jmp" => DstStep(taken, q) = [place |-> to, open |-> b, r11 |-> lowered]
    <2> SUFFICES ASSUME op = "jmp" PROVE DstStep(taken, q) = [place |-> to, open |-> b, r11 |-> lowered]
        OBVIOUS
    <2>1. DstStep(taken, q) = [dst EXCEPT !.place = to, !.r11 = lowered]
        BY ONLY <1>3, op = "jmp"
    <2> QED BY ONLY <1>4, <2>1, Zenon
<1>10. op = "call" => DstStep(taken, q) = [place |-> to, open |-> Append(b, next), r11 |-> lowered]
    BY ONLY <1>3
<1>11. op = "ret" /\ b = <<>> => DstStep(taken, q) = [place |-> <<k, 0>>, open |-> b, r11 |-> s]
    <2> SUFFICES ASSUME op = "ret", b = <<>> PROVE DstStep(taken, q) = [place |-> <<k, 0>>, open |-> b, r11 |-> s]
        OBVIOUS
    <2>1. DstStep(taken, q) = [dst EXCEPT !.place = <<k, 0>>]
        BY ONLY <1>3, op = "ret", b = <<>>
    <2> QED BY ONLY <1>5, <2>1, Zenon
<1>12. op = "ret" /\ b # <<>> => DstStep(taken, q) = [place |-> b[Len(b)], open |-> Pop(b), r11 |-> s]
    <2> SUFFICES ASSUME op = "ret", b # <<>>
                 PROVE  DstStep(taken, q) = [place |-> b[Len(b)], open |-> Pop(b), r11 |-> s]
        OBVIOUS
    <2>1. DstStep(taken, q) = [dst EXCEPT !.place = b[Len(b)], !.open = Pop(b)]
        BY ONLY <1>3, op = "ret", b # <<>>
    <2> QED BY ONLY <1>6, <2>1, Zenon
<1> QED BY ONLY <1>7, <1>8, <1>9, <1>10, <1>11, <1>12 DEF op, to, next, written, lowered

\* The calls that are open, source and text: each returns to a line and its item.
Pairs(a, b) ==
    /\ a \in Seq(Nat) /\ b \in Seq(Nat \X Nat) /\ Len(a) = Len(b)
    /\ \A m \in 1 .. Len(a) : Matched(a[m], b[m])

LEMMA PairsPush ==
    ASSUME Ready, NEW a, NEW b, Pairs(a, b), NEW line, NEW place, Matched(line, place)
    PROVE  Pairs(Append(a, line), Append(b, place))
<1>1. a \in Seq(Nat) /\ b \in Seq(Nat \X Nat) /\ Len(a) = Len(b) /\ line \in Nat /\ place \in Nat \X Nat
    BY MatchedTypes DEF Pairs
<1>2. /\ Append(a, line) \in Seq(Nat) /\ Len(Append(a, line)) = Len(a) + 1 /\ Append(a, line)[Len(a) + 1] = line
      /\ \A m \in 1 .. Len(a) : Append(a, line)[m] = a[m]
    BY <1>1, AppendProperties
<1>3. /\ Append(b, place) \in Seq(Nat \X Nat) /\ Len(Append(b, place)) = Len(b) + 1
      /\ Append(b, place)[Len(b) + 1] = place
      /\ \A m \in 1 .. Len(b) : Append(b, place)[m] = b[m]
    BY <1>1, AppendProperties
<1>4. Len(a) \in Nat
    BY <1>1, LenProperties
<1>5. ASSUME NEW m \in 1 .. Len(a) + 1 PROVE Matched(Append(a, line)[m], Append(b, place)[m])
    <2>1. CASE m = Len(a) + 1
        <3>1. Append(a, line)[m] = line /\ Append(b, place)[m] = place
            BY ONLY <1>1, <1>2, <1>3, <2>1
        <3> QED BY ONLY <3>1, Matched(line, place), Zenon
    <2>2. CASE m \in 1 .. Len(a)
        <3>1. Append(a, line)[m] = a[m] /\ Append(b, place)[m] = b[m]
            BY ONLY <1>1, <1>2, <1>3, <2>2
        <3>2. Matched(a[m], b[m])
            BY <2>2 DEF Pairs
        <3> QED BY <3>1, <3>2
    <2>3. m = Len(a) + 1 \/ m \in 1 .. Len(a)
        BY ONLY <1>4, m \in 1 .. Len(a) + 1
    <2> QED BY ONLY <2>1, <2>2, <2>3, Zenon
<1> QED BY <1>1, <1>2, <1>3, <1>5 DEF Pairs

LEMMA PopFacts ==
    ASSUME NEW S, NEW s \in Seq(S), Len(s) \in 1 .. Len(s)
    PROVE  /\ Pop(s) \in Seq(S) /\ Len(Pop(s)) = Len(s) - 1
           /\ \A m \in 1 .. Len(s) - 1 : Pop(s)[m] = s[m]
<1> DEFINE n == Len(s) - 1
<1>1. Len(s) \in Nat
    BY LenProperties
<1>2. n \in Nat /\ n < Len(s)
    BY ONLY <1>1, Len(s) \in 1 .. Len(s)
<1>3. \A m \in 1 .. n : s[m] \in S
    <2> SUFFICES ASSUME NEW m \in 1 .. n PROVE s[m] \in S
        OBVIOUS
    <2>1. m \in 1 .. Len(s)
        BY ONLY <1>1, <1>2
    <2> QED BY ONLY <2>1, s \in Seq(S), ElementOfSeq
<1> HIDE DEF n
<1>4. /\ SubSeq(s, 1, n) \in Seq(S) /\ Len(SubSeq(s, 1, n)) = IF 1 <= n THEN n - 1 + 1 ELSE 0
      /\ \A m \in 1 .. n - 1 + 1 : SubSeq(s, 1, n)[m] = s[1 + m - 1]
    <2>1. 1 \in Int /\ n \in Int
        BY <1>2
    <2> QED BY ONLY <1>3, <2>1, SubSeqProperties
<1>5. Pop(s) = SubSeq(s, 1, n)
    BY DEF Pop, n
<1> DEFINE t == SubSeq(s, 1, n)
<1> HIDE DEF t
<1>6. t \in Seq(S) /\ Len(t) = n /\ \A m \in 1 .. n : t[m] = s[m]
    <2>1. /\ t \in Seq(S) /\ Len(t) = IF 1 <= n THEN n - 1 + 1 ELSE 0
          /\ \A m \in 1 .. n - 1 + 1 : t[m] = s[1 + m - 1]
        BY <1>4 DEF t
    <2>2. (IF 1 <= n THEN n - 1 + 1 ELSE 0) = n /\ n - 1 + 1 = n /\ \A m \in 1 .. n : 1 + m - 1 = m
        BY ONLY <1>2
    <2>3. Len(t) = n
        BY ONLY <2>1, <2>2
    <2>4. ASSUME NEW m \in 1 .. n PROVE t[m] = s[m]
        <3>1. t[m] = s[1 + m - 1] /\ 1 + m - 1 = m
            BY ONLY <2>1, <2>2
        <3> QED BY ONLY <3>1
    <2> QED BY ONLY <2>1, <2>3, <2>4
<1> QED BY <1>5, <1>6 DEF t, n

LEMMA PairsPop ==
    ASSUME Ready, NEW a, NEW b, Pairs(a, b)
    PROVE  /\ a = <<>> <=> b = <<>>
           /\ a # <<>> => Matched(a[Len(a)], b[Len(b)]) /\ Pairs(Pop(a), Pop(b))
<1>1. a \in Seq(Nat) /\ b \in Seq(Nat \X Nat) /\ Len(a) = Len(b) /\ Len(a) \in Nat
    BY LenProperties DEF Pairs
<1>2. (a = <<>> <=> Len(a) = 0) /\ (b = <<>> <=> Len(b) = 0)
    BY <1>1, EmptySeq, LenProperties
<1>3. ASSUME a # <<>> PROVE Matched(a[Len(a)], b[Len(b)]) /\ Pairs(Pop(a), Pop(b))
    <2>1. Len(a) \in 1 .. Len(a) /\ Len(a) - 1 \in 0 .. Len(a)
        BY <1>1, <1>2, <1>3
    <2>2. /\ Pop(a) \in Seq(Nat) /\ Len(Pop(a)) = Len(a) - 1
          /\ \A m \in 1 .. Len(a) - 1 : Pop(a)[m] = a[m]
        BY ONLY <1>1, <2>1, PopFacts
    <2>3. /\ Pop(b) \in Seq(Nat \X Nat) /\ Len(Pop(b)) = Len(a) - 1
          /\ \A m \in 1 .. Len(a) - 1 : Pop(b)[m] = b[m]
        <3>1. /\ Pop(b) \in Seq(Nat \X Nat) /\ Len(Pop(b)) = Len(b) - 1
              /\ \A m \in 1 .. Len(b) - 1 : Pop(b)[m] = b[m]
            BY ONLY <1>1, <2>1, PopFacts
        <3> QED BY ONLY <1>1, <3>1
    <2>4. \A m \in 1 .. Len(a) - 1 : Matched(Pop(a)[m], Pop(b)[m])
        <3>1. \A m \in 1 .. Len(a) - 1 : m \in 1 .. Len(a)
            BY <1>1
        <3> QED BY <2>2, <2>3, <3>1 DEF Pairs
    <2>5. Matched(a[Len(a)], b[Len(b)])
        BY <1>1, <2>1 DEF Pairs
    <2> QED BY <2>2, <2>3, <2>4, <2>5 DEF Pairs
<1> QED BY <1>1, <1>2, <1>3

\* No open call returns to a line of V in a body that names the scratch register.
Spared(V, a, b) == \A m \in 1 .. Len(a) : a[m] \in V => ~ Uses(b[m][1])

LEMMA SparedPush ==
    ASSUME Ready, NEW a, NEW b, Pairs(a, b), NEW line, NEW place, Matched(line, place),
           NEW V, Spared(V, a, b), line \in V => ~ Uses(place[1])
    PROVE  Spared(V, Append(a, line), Append(b, place))
<1>1. a \in Seq(Nat) /\ b \in Seq(Nat \X Nat) /\ Len(a) = Len(b) /\ line \in Nat /\ place \in Nat \X Nat
    BY MatchedTypes DEF Pairs
<1>2. /\ Len(Append(a, line)) = Len(a) + 1 /\ Append(a, line)[Len(a) + 1] = line
      /\ \A m \in 1 .. Len(a) : Append(a, line)[m] = a[m]
    BY <1>1, AppendProperties
<1>3. Append(b, place)[Len(a) + 1] = place /\ \A m \in 1 .. Len(a) : Append(b, place)[m] = b[m]
    BY <1>1, AppendProperties
<1>4. Len(a) \in Nat
    BY <1>1, LenProperties
<1> DEFINE c == Append(a, line)
           d == Append(b, place)
<1> HIDE DEF c, d
<1>5. ASSUME NEW m \in 1 .. Len(a) + 1, c[m] \in V PROVE ~ Uses(d[m][1])
    <2>1. CASE m = Len(a) + 1
        <3>1. c[m] = line /\ d[m] = place
            BY ONLY <1>2, <1>3, <2>1 DEF c, d
        <3> QED BY ONLY <1>5, <3>1, line \in V => ~ Uses(place[1])
    <2>2. CASE m \in 1 .. Len(a)
        <3>1. c[m] = a[m] /\ d[m] = b[m]
            BY ONLY <1>2, <1>3, <2>2 DEF c, d
        <3>2. a[m] \in V => ~ Uses(b[m][1])
            BY ONLY <2>2, Spared(V, a, b) DEF Spared
        <3> QED BY ONLY <1>5, <3>1, <3>2
    <2>3. m = Len(a) + 1 \/ m \in 1 .. Len(a)
        BY ONLY <1>4, m \in 1 .. Len(a) + 1
    <2> QED BY ONLY <2>1, <2>2, <2>3, Zenon
<1>6. Len(c) = Len(a) + 1
    BY <1>2 DEF c
<1>7. Spared(V, c, d)
    BY ONLY <1>5, <1>6 DEF Spared
<1> QED BY <1>7 DEF c, d

LEMMA SparedPop ==
    ASSUME Ready, NEW a, NEW b, Pairs(a, b), a # <<>>, NEW V, Spared(V, a, b)
    PROVE  (a[Len(a)] \in V => ~ Uses(b[Len(b)][1])) /\ Spared(V, Pop(a), Pop(b))
<1>1. a \in Seq(Nat) /\ b \in Seq(Nat \X Nat) /\ Len(a) = Len(b) /\ Len(a) \in Nat
    BY LenProperties DEF Pairs
<1>2. Len(a) # 0
    BY <1>1, EmptySeq, LenProperties
<1>3. Len(a) \in 1 .. Len(a) /\ Len(b) \in 1 .. Len(b) /\ \A m \in 1 .. Len(a) - 1 : m \in 1 .. Len(a)
    BY ONLY <1>1, <1>2
<1>4. Len(Pop(a)) = Len(a) - 1 /\ \A m \in 1 .. Len(a) - 1 : Pop(a)[m] = a[m]
    BY ONLY <1>1, <1>3, PopFacts
<1>5. \A m \in 1 .. Len(a) - 1 : Pop(b)[m] = b[m]
    <2>1. \A m \in 1 .. Len(b) - 1 : Pop(b)[m] = b[m]
        BY ONLY <1>1, <1>3, PopFacts
    <2> QED BY ONLY <1>1, <2>1
<1>6. \A m \in 1 .. Len(a) : a[m] \in V => ~ Uses(b[m][1])
    BY DEF Spared
<1>7. ASSUME NEW m \in 1 .. Len(a) - 1, Pop(a)[m] \in V PROVE ~ Uses(Pop(b)[m][1])
    <2>1. Pop(a)[m] = a[m] /\ Pop(b)[m] = b[m] /\ m \in 1 .. Len(a)
        BY ONLY <1>3, <1>4, <1>5, m \in 1 .. Len(a) - 1
    <2> QED BY ONLY <1>6, <1>7, <2>1
<1>8. a[Len(a)] \in V => ~ Uses(b[Len(b)][1])
    BY ONLY <1>1, <1>3, <1>6
<1>9. Spared(V, Pop(a), Pop(b))
    BY ONLY <1>4, <1>7 DEF Spared
<1> QED BY <1>8, <1>9

\* Where the scratch register is live, in a body that names it, the machines have
\* the same in it, unless its value means nothing.
Kept(line, place, a, b, r, s) ==
    \A V : Live(V) =>
        /\ line \in V /\ Uses(place[1]) => r = 0 \/ s = r
        /\ Spared(V, a, b)

\* The machines are at a line and its item, or both functions have returned.
Beside(line, place) == Matched(line, place) \/ (line = 0 /\ place = <<place[1], 0>>)

Abreast(a, b) ==
    \E line, open, r11, place, back, s11 :
        /\ a = [line |-> line, open |-> open, r11 |-> r11]
        /\ b = [place |-> place, open |-> back, r11 |-> s11]
        /\ Beside(line, place) /\ Pairs(open, back) /\ Kept(line, place, open, back, r11, s11)

Together == phase = "run" /\ Sane => Abreast(src, dst)

LEMMA StepAbreast ==
    ASSUME Ready, phase = "run", Abreast(src, dst), src.line > 0, NEW taken \in BOOLEAN, NEW q \in FunctionLabels,
           GoName(Lines[q].name) \in Symbols
    PROVE  Abreast(SrcStep(taken, q), DstStep(taken, q))
<1>1. PICK p, open, r11, place, back, s11 :
        /\ src = [line |-> p, open |-> open, r11 |-> r11]
        /\ dst = [place |-> place, open |-> back, r11 |-> s11]
        /\ Beside(p, place) /\ Pairs(open, back) /\ Kept(p, place, open, back, r11, s11)
    BY DEF Abreast
<1>2. Matched(p, place)
    BY <1>1 DEF Beside
<1> DEFINE k == place[1]
           n == place[2]
           item == text[k][n]
<1>3. /\ place = <<k, n>> /\ p \in DOMAIN Lines /\ Lines[p].kind \in Code
      /\ item.node = p /\ item.do = Lines[p].op /\ k \in DOMAIN funcs
    BY <1>2, MatchedTypes DEF Matched
<1>4. Matched(p, <<k, n>>) /\ dst = [place |-> <<k, n>>, open |-> back, r11 |-> s11]
    BY <1>1, <1>2, <1>3
<1>16. ASSUME NEW V, Live(V) PROVE (p \in V /\ Uses(k) => r11 = 0 \/ s11 = r11) /\ Spared(V, open, back)
    BY <1>1, <1>16 DEF Kept
<1>17. nodes[p].sets = Lines[p].sets
    BY <1>3, NodeFacts DEF Ready
<1> HIDE DEF k, n, item
<1> DEFINE to == DstTo(k, item, q)
           next == <<k, ItemFrom(k, n + 1)>>
           S == SrcStep(taken, q)
           D == DstStep(taken, q)
<1>5. Lines[p].op \notin {"jmp", "ret"} => Matched(LineFrom(p + 1), next)
    BY <1>3, <1>4, MatchedNext
<1>6. Lines[p].op \in {"call", "jmp", "jcc"} => Matched(SrcTo(p, q), to)
    BY <1>3, <1>4, Targets DEF item
<1>7. item = text[k][n] /\ next[1] = k
    BY DEF item
<1>18. ASSUME NEW V, Live(V), LineFrom(p + 1) \in V, Uses(next[1]), Lines[p].op \notin {"jmp", "ret"}
       PROVE  Lines[p].op # "call" /\ (p \in V \/ (Lines[p].op \in {"plain", "system"} /\ Lines[p].sets))
    <2>1. Uses(k)
        BY ONLY <1>7, <1>18
    <2> QED BY ONLY Ready, <1>3, <1>4, <1>18, <2>1, LiveNext
<1>19. ASSUME NEW V, Live(V), SrcTo(p, q) \in V, Uses(to[1]), Lines[p].op \in {"call", "jmp", "jcc"},
              Lines[p].operand = "symbol"
       PROVE  (r11 = 0 \/ s11 = r11) /\ ~ item.via
    <2>1. p \in V /\ DstTo(k, text[k][n], q)[1] = k /\ ~ text[k][n].via
        BY ONLY Ready, phase = "run", <1>3, <1>4, <1>19, LiveTarget
    <2>2. to[1] = k /\ ~ item.via
        BY ONLY <1>7, <2>1
    <2>3. Uses(k)
        BY ONLY <1>19, <2>2
    <2> QED BY <1>16, <1>19, <2>1, <2>2, <2>3
<1>20. ASSUME NEW V, Live(V), Lines[p].op = "jcc" PROVE Lines[p].operand = "symbol"
    BY <1>3, <1>20, LiveFacts
<1> HIDE DEF to, next, S, D
<1> SUFFICES Abreast(S, D)
    BY DEF S, D
<1>8. ASSUME NEW line, NEW a, NEW r, NEW at, NEW b, NEW s,
             S = [line |-> line, open |-> a, r11 |-> r], D = [place |-> at, open |-> b, r11 |-> s],
             Beside(line, at), Pairs(a, b), Kept(line, at, a, b, r, s)
      PROVE  Abreast(S, D)
    BY <1>8 DEF Abreast
<1>9. CASE Lines[p].op \in {"plain", "system"}
    <2>1. S = [line |-> LineFrom(p + 1), open |-> open, r11 |-> IF Lines[p].sets THEN p ELSE r11]
        BY ONLY <1>1, <1>9, SrcFacts DEF S
    <2>2. D = [place |-> next, open |-> back, r11 |-> IF nodes[item.node].sets THEN item.node ELSE s11]
        BY ONLY <1>3, <1>4, <1>7, <1>9, DstFacts DEF D, next
    <2>3. Beside(LineFrom(p + 1), next)
        BY <1>5, <1>9 DEF Beside
    <2>4. Kept(LineFrom(p + 1), next, open, back, IF Lines[p].sets THEN p ELSE r11,
               IF nodes[item.node].sets THEN item.node ELSE s11)
        <3> DEFINE r == IF Lines[p].sets THEN p ELSE r11
                   s == IF nodes[item.node].sets THEN item.node ELSE s11
        <3> SUFFICES Kept(LineFrom(p + 1), next, open, back, r, s)
            OBVIOUS
        <3>1. CASE Lines[p].sets
            <4>1. s = r
                BY ONLY <1>3, <1>17, <3>1
            <4> HIDE DEF r, s
            <4>2. \A V : Live(V) => (LineFrom(p + 1) \in V /\ Uses(next[1]) => r = 0 \/ s = r) /\ Spared(V, open, back)
                <5> SUFFICES ASSUME NEW V, Live(V)
                             PROVE  (LineFrom(p + 1) \in V /\ Uses(next[1]) => r = 0 \/ s = r) /\ Spared(V, open, back)
                    OBVIOUS
                <5>1. Spared(V, open, back)
                    BY ONLY <1>16, Live(V)
                <5> QED BY ONLY <4>1, <5>1
            <4> QED BY ONLY <4>2 DEF Kept
        <3>2. CASE ~ Lines[p].sets
            <4>1. r = r11 /\ s = s11
                BY ONLY <1>3, <1>17, <3>2
            <4>2. ASSUME NEW V, Live(V), LineFrom(p + 1) \in V, Uses(next[1])
                  PROVE  r11 = 0 \/ s11 = r11
                <5>1. p \in V
                    BY ONLY <1>9, <1>18, <3>2, <4>2
                <5>2. Uses(k)
                    BY ONLY <1>7, <4>2
                <5> QED BY ONLY <1>16, <5>1, <5>2, <4>2
            <4> HIDE DEF r, s
            <4>3. \A V : Live(V) => (LineFrom(p + 1) \in V /\ Uses(next[1]) => r = 0 \/ s = r) /\ Spared(V, open, back)
                <5> SUFFICES ASSUME NEW V, Live(V)
                             PROVE  (LineFrom(p + 1) \in V /\ Uses(next[1]) => r = 0 \/ s = r) /\ Spared(V, open, back)
                    OBVIOUS
                <5>1. Spared(V, open, back)
                    BY ONLY <1>16, Live(V)
                <5>2. ASSUME LineFrom(p + 1) \in V, Uses(next[1]) PROVE r = 0 \/ s = r
                    BY ONLY <4>1, <4>2, <5>2, Live(V)
                <5> QED BY ONLY <5>1, <5>2
            <4> QED BY ONLY <4>3 DEF Kept
        <3> QED BY ONLY <3>1, <3>2
    <2> QED BY ONLY <1>1, <1>8, <2>1, <2>2, <2>3, <2>4
<1>10. CASE Lines[p].op = "jcc"
    <2>1. S = [line |-> IF taken THEN SrcTo(p, q) ELSE LineFrom(p + 1), open |-> open, r11 |-> r11]
        BY ONLY <1>1, <1>10, SrcFacts DEF S
    <2>2. D = [place |-> IF taken THEN to ELSE next, open |-> back, r11 |-> s11]
        BY ONLY <1>3, <1>4, <1>7, <1>10, DstFacts DEF D, next, to
    <2>3. Beside(IF taken THEN SrcTo(p, q) ELSE LineFrom(p + 1), IF taken THEN to ELSE next)
        BY <1>5, <1>6, <1>10 DEF Beside
    <2>4. Kept(IF taken THEN SrcTo(p, q) ELSE LineFrom(p + 1), IF taken THEN to ELSE next, open, back, r11, s11)
        <3>1. CASE taken
            BY ONLY <1>10, <1>16, <1>19, <1>20, <3>1 DEF Kept
        <3>2. CASE ~ taken
            BY ONLY <1>7, <1>10, <1>16, <1>18, <3>2 DEF Kept
        <3> QED BY ONLY <3>1, <3>2
    <2> QED BY ONLY <1>1, <1>8, <2>1, <2>2, <2>3, <2>4
<1>11. CASE Lines[p].op = "jmp"
    <2>1. S = [line |-> SrcTo(p, q), open |-> open, r11 |-> IF Lines[p].operand = "symbol" THEN r11 ELSE 0]
        BY ONLY <1>1, <1>11, SrcFacts DEF S
    <2>2. D = [place |-> to, open |-> back, r11 |-> IF item.via THEN -1 ELSE s11]
        BY ONLY <1>3, <1>4, <1>7, <1>11, DstFacts DEF D, to
    <2>3. Beside(SrcTo(p, q), to)
        BY <1>6, <1>11 DEF Beside
    <2>4. Kept(SrcTo(p, q), to, open, back, IF Lines[p].operand = "symbol" THEN r11 ELSE 0, IF item.via THEN -1 ELSE s11)
        BY ONLY <1>11, <1>16, <1>19 DEF Kept
    <2> QED BY ONLY <1>1, <1>8, <2>1, <2>2, <2>3, <2>4
<1>12. CASE Lines[p].op = "call"
    <2>1. S = [line |-> SrcTo(p, q), open |-> Append(open, LineFrom(p + 1)),
               r11 |-> IF Lines[p].operand = "symbol" THEN r11 ELSE 0]
        BY ONLY <1>1, <1>12, SrcFacts DEF S
    <2>2. D = [place |-> to, open |-> Append(back, next), r11 |-> IF item.via THEN -1 ELSE s11]
        BY ONLY <1>3, <1>4, <1>7, <1>12, DstFacts DEF D, next, to
    <2>3. Beside(SrcTo(p, q), to)
        BY <1>6, <1>12 DEF Beside
    <2>4. Pairs(Append(open, LineFrom(p + 1)), Append(back, next))
        BY <1>1, <1>5, <1>12, PairsPush
    <2>5. Kept(SrcTo(p, q), to, Append(open, LineFrom(p + 1)), Append(back, next),
               IF Lines[p].operand = "symbol" THEN r11 ELSE 0, IF item.via THEN -1 ELSE s11)
        <3>1. ASSUME NEW V, Live(V) PROVE Spared(V, Append(open, LineFrom(p + 1)), Append(back, next))
            <4>1. LineFrom(p + 1) \in V => ~ Uses(next[1])
                BY ONLY <1>12, <1>18, <3>1
            <4>2. Spared(V, open, back) /\ Pairs(open, back) /\ Matched(LineFrom(p + 1), next)
                BY <1>1, <1>5, <1>12, <1>16, <3>1
            <4> QED BY ONLY Ready, <4>1, <4>2, SparedPush
        <3>2. ASSUME NEW V, Live(V), SrcTo(p, q) \in V, Uses(to[1]), Lines[p].operand = "symbol"
              PROVE  (r11 = 0 \/ s11 = r11) /\ ~ item.via
            BY ONLY <1>12, <1>19, <3>2
        <3> QED BY ONLY <3>1, <3>2 DEF Kept
    <2> QED BY ONLY <1>8, <2>1, <2>2, <2>3, <2>4, <2>5
<1>13. CASE Lines[p].op = "ret" /\ open = <<>>
    <2>1. S = [line |-> 0, open |-> open, r11 |-> r11]
        BY ONLY <1>1, <1>13, SrcFacts DEF S
    <2>2. back = <<>>
        BY <1>1, <1>13, PairsPop
    <2>3. D = [place |-> <<k, 0>>, open |-> back, r11 |-> s11]
        BY ONLY <1>3, <1>4, <1>7, <1>13, <2>2, DstFacts DEF D
    <2>4. Beside(0, <<k, 0>>)
        BY DEF Beside
    <2>5. Kept(0, <<k, 0>>, open, back, r11, s11)
        <3>1. 0 \notin DOMAIN Lines
            BY ReadyPlaces
        <3> QED BY ONLY <1>16, <3>1 DEF Kept, Live
    <2> QED BY ONLY <1>1, <1>8, <2>1, <2>3, <2>4, <2>5
<1>14. CASE Lines[p].op = "ret" /\ open # <<>>
    <2>1. S = [line |-> open[Len(open)], open |-> Pop(open), r11 |-> r11]
        BY ONLY <1>1, <1>14, SrcFacts DEF S
    <2>2. back # <<>> /\ Matched(open[Len(open)], back[Len(back)]) /\ Pairs(Pop(open), Pop(back))
        BY <1>1, <1>14, PairsPop
    <2>3. D = [place |-> back[Len(back)], open |-> Pop(back), r11 |-> s11]
        BY ONLY <1>3, <1>4, <1>7, <1>14, <2>2, DstFacts DEF D
    <2>4. Beside(open[Len(open)], back[Len(back)])
        BY <2>2 DEF Beside
    <2>5. Kept(open[Len(open)], back[Len(back)], Pop(open), Pop(back), r11, s11)
        <3>1. ASSUME NEW V, Live(V)
              PROVE  (open[Len(open)] \in V => ~ Uses(back[Len(back)][1])) /\ Spared(V, Pop(open), Pop(back))
            BY <1>1, <1>14, <1>16, <3>1, SparedPop
        <3> QED BY ONLY <3>1 DEF Kept
    <2> QED BY ONLY <1>8, <2>1, <2>2, <2>3, <2>4, <2>5
<1>15. Lines[p].op \in {"call", "jmp", "jcc", "ret", "system", "plain"}
    BY <1>3, OpFacts DEF Ready
<1> QED BY ONLY <1>9, <1>10, <1>11, <1>12, <1>13, <1>14, <1>15

\* The machines are matched as long as functions and text stay.
LEMMA AbreastStays ==
    ASSUME UNCHANGED <<source, nodes, funcs, text>>, NEW a, NEW b, Abreast(a, b)
    PROVE  \A x, y : x = a /\ y = b => Abreast(x, y)'
<1>1. Lines' = Lines /\ nodes' = nodes /\ funcs' = funcs /\ text' = text /\ Code' = Code
    BY DEF Lines, Code
<1>2. \A k : Body(k)' = Body(k)
    BY <1>1 DEF Body
<1>3. \A line, place : Matched(line, place) => Matched(line, place)'
    BY ONLY <1>1, <1>2 DEF Matched
<1>4. \A line, place : Beside(line, place) => Beside(line, place)'
    BY ONLY <1>3 DEF Beside
<1>5. \A c, d : Pairs(c, d) => Pairs(c, d)'
    BY ONLY <1>3 DEF Pairs
<1>6. \A k : Uses(k)' = Uses(k)
    BY ONLY <1>1, <1>2 DEF Uses, CodeOf
<1>7. \A V : Live(V)' = Live(V)
    BY <1>1 DEF Live
<1>8. \A V, c, d : Spared(V, c, d) => Spared(V, c, d)'
    BY ONLY <1>6 DEF Spared
<1>9. \A line, place, c, d, r, s : Kept(line, place, c, d, r, s) => Kept(line, place, c, d, r, s)'
    BY ONLY <1>6, <1>7, <1>8 DEF Kept
<1> QED BY ONLY <1>4, <1>5, <1>9, Abreast(a, b) DEF Abreast

LEMMA EnterTogether ==
    ASSUME Ready, Enter
    PROVE  Together'
<1>1. UNCHANGED <<source, nodes, funcs, text>>
    BY DEF Enter, Unmoved, discovery
<1>2. PICK k \in DOMAIN funcs, q \in FunctionLabels :
        /\ funcs[k].name \in {Lines[q].name, GoName(Lines[q].name)}
        /\ src' = [line |-> LineFrom(q), open |-> <<>>, r11 |-> 0]
        /\ dst' = [place |-> PlaceOfFunction(funcs[k].name), open |-> <<>>, r11 |-> 0]
    BY DEF Enter
<1>3. Matched(LineFrom(q), PlaceOfFunction(funcs[k].name))
    <2>1. funcs[k].name \in Symbols
        BY DEF Symbols
    <2> QED BY <1>2, <2>1, MatchedFunction
<1>4. Pairs(<<>>, <<>>)
    BY DEF Pairs
<1>5. Abreast(src', dst')
    <2>1. Kept(LineFrom(q), PlaceOfFunction(funcs[k].name), <<>>, <<>>, 0, 0)
        BY DEF Kept, Spared
    <2> QED BY ONLY <1>2, <1>3, <1>4, <2>1, Zenon DEF Abreast, Beside
<1>6. \A x, y : x = src' /\ y = dst' => Abreast(x, y)'
    <2>1. \A a, b : Abreast(a, b) => \A x, y : x = a /\ y = b => Abreast(x, y)'
        BY <1>1, AbreastStays
    <2> QED BY ONLY <1>5, <2>1
<1> QED BY <1>6 DEF Together


LEMMA RunTogether ==
    ASSUME Ready, Abreast(src, dst), Run
    PROVE  Together'
<1>1. UNCHANGED <<source, nodes, funcs, text>> /\ phase = "run" /\ src.line > 0
    BY DEF Run, Unmoved, discovery
<1>2. PICK taken \in BOOLEAN, q \in FunctionLabels :
        GoName(Lines[q].name) \in Symbols /\ src' = SrcStep(taken, q) /\ dst' = DstStep(taken, q)
    BY DEF Run
<1>3. Abreast(SrcStep(taken, q), DstStep(taken, q))
    BY <1>1, <1>2, StepAbreast
<1>4. Abreast(src', dst')
    BY ONLY <1>2, <1>3
<1>5. \A x, y : x = src' /\ y = dst' => Abreast(x, y)'
    <2>1. \A a, b : Abreast(a, b) => \A x, y : x = a /\ y = b => Abreast(x, y)'
        BY <1>1, AbreastStays
    <2> QED BY ONLY <1>4, <2>1
<1> QED BY <1>5 DEF Together

LEMMA StayingTogether == Spec => []Together
<1>1. Init => Together
    BY DEF Init, Together
<1>2. TInv /\ DInv /\ OnlyNames /\ NInv /\ EInv /\ SInv /\ Together /\ [Next]_vars => Together'
    <2> SUFFICES ASSUME TInv, DInv, OnlyNames, NInv, EInv, SInv, Together, [Next]_vars, phase' = "run", Sane' PROVE Together'
        BY DEF Together
    <2>1. CASE UNCHANGED vars
        <3>1. UNCHANGED <<source, nodes, funcs, text, phase, src, dst>> /\ Lines' = Lines
            BY <2>1 DEF vars, discovery, machine, passes, Lines
        <3>2. Sane
            BY <3>1 DEF Sane
        <3>3. Abreast(src, dst)
            BY <3>1, <3>2 DEF Together
        <3>4. \A x, y : x = src /\ y = dst => Abreast(x, y)'
            <4>1. \A a, b : Abreast(a, b) => \A x, y : x = a /\ y = b => Abreast(x, y)'
                BY <3>1, AbreastStays
            <4> QED BY ONLY <3>3, <4>1
        <3>5. \A x, y : x = src' /\ y = dst' => Abreast(x, y)'
            BY ONLY <3>1, <3>4
        <3> QED BY <3>5 DEF Together
    <2>2. CASE Enter
        <3>1. Lines' = Lines /\ phase = "ready"
            BY <2>2 DEF Enter, Unmoved, Lines
        <3>2. Sane
            BY <3>1 DEF Sane
        <3>3. Ready
            BY <3>1, <3>2, ReadyFacts
        <3> QED BY <2>2, <3>3, EnterTogether
    <2>3. CASE Run
        <3>1. Lines' = Lines /\ phase = "run"
            BY <2>3 DEF Run, Unmoved, Lines
        <3>2. Sane
            BY <3>1 DEF Sane
        <3>3. Ready
            BY <3>1, <3>2, ReadyFacts
        <3>4. Abreast(src, dst)
            BY <3>1, <3>2 DEF Together
        <3> QED BY <2>3, <3>3, <3>4, RunTogether
    <2>4. CASE Next /\ ~ Enter /\ ~ Run
        BY <2>4, NotRunning
    <2> QED BY <2>1, <2>2, <2>3, <2>4
<1>3. Spec => []TInv
    BY InitTypes, StepTypes, PTL DEF Spec
<1> QED BY <1>1, <1>2, <1>3, Discovering, Naming, Emitting, Checking, PTL DEF Spec

\* Of a source laid out and named as compilers do it, whose control does not fall
\* out of its functions and whose calls and jumps say what they mean: the emitted
\* code executes what the source executes, line for line, through every call,
\* jump and return.
THEOREM ControlIsKept ==
    Spec => [](Laid(Lines) /\ NamesApart(Lines) /\ ControlStays(Lines) /\ TargetsNamed(Lines) => SameControl)
<1>1. TInv /\ DInv /\ OnlyNames /\ NInv /\ EInv /\ SInv /\ Together =>
          (Laid(Lines) /\ NamesApart(Lines) /\ ControlStays(Lines) /\ TargetsNamed(Lines) => SameControl)
    <2> SUFFICES ASSUME TInv, DInv, OnlyNames, NInv, EInv, SInv, Together, Sane, phase = "run"
                 PROVE  /\ src.line # -1
                        /\ src.line = 0 <=> dst.place[2] = 0
                        /\ src.line > 0 => dst.place[2] > 0 /\ ThenNow.node = src.line
        BY DEF SameControl, Sane
    <2>1. Ready
        BY ReadyFacts
    <2>2. PICK line, open, r11, place, back, s11 :
            /\ src = [line |-> line, open |-> open, r11 |-> r11]
            /\ dst = [place |-> place, open |-> back, r11 |-> s11]
            /\ Beside(line, place)
        BY DEF Together, Abreast
    <2>3. src.line = line /\ dst.place = place
        BY <2>2
    <2>4. CASE Matched(line, place)
        <3>1. line \in Nat /\ line > 0 /\ place[2] \in Nat /\ place[2] > 0 /\ text[place[1]][place[2]].node = line
            BY <2>1, <2>4, MatchedTypes
        <3> QED BY <2>3, <3>1 DEF ThenNow
    <2>5. CASE line = 0 /\ place = <<place[1], 0>>
        <3>1. place[2] = 0
            BY <2>5
        <3> QED BY <2>3, <2>5, <3>1
    <2> QED BY <2>2, <2>4, <2>5 DEF Beside
<1>2. Spec => []TInv
    BY InitTypes, StepTypes, PTL DEF Spec
<1> QED BY <1>1, <1>2, Discovering, Naming, Emitting, Checking, StayingTogether, PTL

\* Of such a source, that also knows what it reads in the scratch register: an
\* instruction that reads it finds what the source left in it, whatever calls and
\* jumps were lowered through it on the way.
THEOREM ScratchIsKept ==
    Spec => [](Laid(Lines) /\ NamesApart(Lines) /\ ControlStays(Lines) /\ TargetsNamed(Lines) /\ ScratchUsed(Lines)
                => ScratchKept)
<1>1. TInv /\ DInv /\ OnlyNames /\ NInv /\ EInv /\ SInv /\ Together =>
          (Laid(Lines) /\ NamesApart(Lines) /\ ControlStays(Lines) /\ TargetsNamed(Lines) /\ ScratchUsed(Lines)
            => ScratchKept)
    <2> SUFFICES ASSUME TInv, DInv, OnlyNames, NInv, EInv, SInv, Together, Sane, ScratchUsed(Lines),
                        phase = "run", src.line > 0, Now.regs \cap Scratch # {}, ~ Now.sets, src.r11 # 0
                 PROVE  dst.r11 = src.r11
        BY DEF ScratchKept, Sane
    <2>1. Ready
        BY ReadyFacts
    <2>2. PICK line, open, r11, place, back, s11 :
            /\ src = [line |-> line, open |-> open, r11 |-> r11]
            /\ dst = [place |-> place, open |-> back, r11 |-> s11]
            /\ Beside(line, place) /\ Kept(line, place, open, back, r11, s11)
        BY DEF Together, Abreast
    <2>3. src.line = line /\ src.r11 = r11 /\ dst.r11 = s11
        BY <2>2
    <2>4. Matched(line, place)
        BY <2>2, <2>3 DEF Beside
    <2>5. PICK V : Live(V)
        BY DEF ScratchUsed, Live
    <2>6. line \in DOMAIN Lines /\ Lines[line].kind \in Code /\ line \in Body(place[1]) /\ Now = Lines[line]
        BY <2>3, <2>4 DEF Matched, Now
    <2>7. line \in V
        BY <2>5, <2>6, LiveFacts
    <2>8. Uses(place[1])
        <3>1. nodes[line].kind = Lines[line].kind /\ nodes[line].regs = Lines[line].regs
            BY <2>6, NodeFacts
        <3> QED BY <2>6, <3>1 DEF Uses, CodeOf
    <2>9. r11 = 0 \/ s11 = r11
        BY ONLY <2>2, <2>5, <2>7, <2>8 DEF Kept
    <2> QED BY <2>3, <2>9
<1>2. Spec => []TInv
    BY InitTypes, StepTypes, PTL DEF Spec
<1> QED BY <1>1, <1>2, Discovering, Naming, Emitting, Checking, StayingTogether, PTL
=============================================================================
