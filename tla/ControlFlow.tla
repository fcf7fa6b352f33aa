------------------------------ MODULE ControlFlow ------------------------------
(***************************************************************************)
(* Control flow through a conversion: the companion file and the entries   *)
(* it asks for (internal/asm/companion.go, direct.go), the validations     *)
(* before encoding and the encoding of calls and jumps (internal/          *)
(* asm2plan9s/encoder.go), in the order of Process (internal/asm/          *)
(* pipeline.go); then the source and what was emitted for it run side by   *)
(* side.                                                                   *)
(***************************************************************************)
EXTENDS LabelRewrite

CONSTANTS
    MaxArgs,    \* words the C ABI passes in registers
    Stack,      \* the stack pointer and its parts
    Thread,     \* segment registers for thread-local storage
    Reserved,   \* registers of the Go runtime
    Scratch,    \* R11 and its parts
    MaxDepth    \* bound on the calls that are open in a run

(***************************************************************************)
(* An instruction: op is call, jmp, jcc (any conditional jump), ret,       *)
(* system (whatever else a leaf must not do by its opcode alone) or plain; *)
(* operand symbol (then ref and offset), register, memory, immediate or    *)
(* none; prefix; regs, the registers its operands name; sets, whether it   *)
(* writes the scratch register.                                            *)
(***************************************************************************)
ASSUME InstructionsAssumption ==
    \A s \in Sources : \A p \in DOMAIN s.nodes :
        LET n == s.nodes[p]
        IN  /\ n.kind = "inst" => n.op \in {"call", "jmp", "jcc", "ret", "system", "plain"}
            /\ n.kind = "synthetic" => n.op = "plain"

VARIABLES
    entries,    \* entries the companion file asks for: C name and arguments
    pending,    \* functions certified so far
    direct,     \* functions with a wrapper
    indirect,   \* lines whose native call goes through a register
    text,       \* what was emitted, function by function
    leaf,       \* the function a wrapper was entered for; 0 for a native entry
    src,        \* the source running: line, open calls, scratch register
    dst         \* the emitted code running: the same, with its function

passes == <<nodes, discovery, f, local>>
machine == <<leaf, src, dst>>
vars == <<source, nodes, phase, i, discovery, f, local, entries, pending, direct,
          indirect, text, machine>>

-----------------------------------------------------------------------------
Code == {"inst", "synthetic"}
CodeOf(k) == {p \in Body(k) : nodes[p].kind \in Code}
InstOf(k) == {p \in Body(k) : nodes[p].kind = "inst"}

LabelsOf(k) == {nodes[p].name : p \in {q \in Body(k) : nodes[q].kind = "label"}}
AllLabels == UNION {LabelsOf(k) : k \in DOMAIN funcs}
Symbols == {funcs[k].name : k \in DOMAIN funcs}

\* e.labels: pool labels are no targets.
JumpTargets == {l \in AllLabels : ~ IsDataLabel(l)}

\* A call or jump to a symbol.
nativeControlSymbol(p) == nodes[p].op \in {"call", "jmp", "jcc"} /\ nodes[p].operand = "symbol"

-----------------------------------------------------------------------------
(***************************************************************************)
(* parseCompanion.  A declaration is a function with a body, a request for *)
(* an entry, or one that no entry may be made of (a method, a linkname,    *)
(* type parameters, another name).                                         *)
(***************************************************************************)
Declarations == phase = "companion" /\ i <= Len(source.decls)
Decl == source.decls[i]

Acceptable(d) ==
    /\ d.kind = "entry" /\ d.slots /\ d.results <= 1
    /\ \A e \in entries : e.name # d.name

DeclareEntry ==
    /\ Declarations /\ Acceptable(Decl)
    /\ entries' = entries \cup {[name |-> Decl.name, args |-> Decl.args]}
    /\ i' = i + 1
    /\ UNCHANGED <<source, phase, passes, pending, direct, indirect, text, machine>>

IgnoreDeclaration ==
    /\ Declarations /\ Decl.kind = "go"
    /\ i' = i + 1
    /\ UNCHANGED <<source, phase, passes, entries, pending, direct, indirect, text, machine>>

Fail ==
    /\ phase' = "failed"
    /\ UNCHANGED <<source, i, passes, entries, pending, direct, indirect, text, machine>>

RejectDeclaration ==
    /\ Declarations /\ Decl.kind # "go" /\ ~ Acceptable(Decl)
    /\ Fail

\* A stage that only decides goes on to the next.
GoOn(next) ==
    /\ phase' = next
    /\ i' = 1
    /\ UNCHANGED <<source, passes, entries, pending, direct, indirect, text, machine>>

EndCompanion == phase = "companion" /\ i > Len(source.decls) /\ GoOn("scan")

\* A source without functions has no output.
NoFunctions ==
    /\ phase = "analyze" /\ found = <<>>
    /\ GoOn(IF entries = {} THEN "done" ELSE "failed")

-----------------------------------------------------------------------------
(***************************************************************************)
(* attachDirectEntries                                                     *)
(***************************************************************************)
CertifiedBranch(k, p) ==
    /\ nodes[p].operand = "symbol" /\ nodes[p].offset = 0
    /\ nodes[p].ref \in LabelsOf(k)

\* Wrong variant: a tail call is no call, so it may go anywhere.
CertifiedLineTailCall(k, p) ==
    /\ nodes[p].regs \cap (Stack \cup Thread \cup Reserved) = {}
    /\ nodes[p].op \notin {"call", "system"}
    /\ nodes[p].op = "ret" => nodes[p].operand = "none"
    /\ nodes[p].op = "jcc" => CertifiedBranch(k, p)

\* certifyDirectInstruction and certifyDirectSynthetic
CertifiedLine(k, p) ==
    /\ nodes[p].regs \cap (Stack \cup Thread \cup Reserved) = {}
    /\ nodes[p].op \notin {"call", "system"}
    /\ nodes[p].op = "ret" => nodes[p].operand = "none"
    /\ nodes[p].op \in {"jmp", "jcc"} => CertifiedBranch(k, p)

\* certifyDirectLeaf
Certified(k) ==
    /\ \A p \in CodeOf(k) : CertifiedLine(k, p)
    /\ \E p \in InstOf(k) : nodes[p].op = "ret"

Named(e) == {k \in DOMAIN funcs : funcs[k].name = e.name}
Attachable(e, k) == k \in Named(e) /\ funcs[k].export /\ e.args <= MaxArgs /\ Certified(k)
Waiting == {e \in entries : Named(e) \cap pending = {}}

\* Wrong variant: an entry is attached as soon as it is certified.
CertifyAttaching ==
    /\ phase = "renamed"
    /\ \E e \in Waiting, k \in DOMAIN funcs : /\ Attachable(e, k)
                                              /\ pending' = pending \cup {k}
                                              /\ direct' = direct \cup {k}
    /\ UNCHANGED <<source, phase, i, passes, entries, indirect, text, machine>>

Certify ==
    /\ phase = "renamed"
    /\ \E e \in Waiting, k \in DOMAIN funcs : Attachable(e, k) /\ pending' = pending \cup {k}
    /\ UNCHANGED <<source, phase, i, passes, entries, direct, indirect, text, machine>>

RejectEntry ==
    /\ phase = "renamed"
    /\ \E e \in Waiting : \A k \in DOMAIN funcs : ~ Attachable(e, k)
    /\ Fail

Attach ==
    /\ phase = "renamed" /\ Waiting = {}
    /\ direct' = pending
    /\ phase' = "scratch"
    /\ UNCHANGED <<source, i, passes, entries, pending, indirect, text, machine>>

-----------------------------------------------------------------------------
(***************************************************************************)
(* validateReservedScratch: calls of other functions and through memory    *)
(* are lowered through the scratch register.                               *)
(***************************************************************************)
\* Wrong variant: only calls count.
NeedsScratchCallOnly(p) ==
    IF nativeControlSymbol(p) THEN nodes[p].op = "call" /\ nodes[p].ref \notin AllLabels
    ELSE nodes[p].op = "call" /\ nodes[p].operand = "memory"

\* instructionNeedsReservedScratch
NeedsScratch(p) ==
    IF nativeControlSymbol(p) THEN nodes[p].ref \notin AllLabels
    ELSE nodes[p].op \in {"call", "jmp"} /\ nodes[p].operand = "memory"

ScratchFree(k) ==
    \/ \A p \in InstOf(k) : ~ NeedsScratch(p)
    \/ \A p \in CodeOf(k) : nodes[p].regs \cap Scratch = {}

AcceptScratch == phase = "scratch" /\ (\A k \in DOMAIN funcs : ScratchFree(k)) /\ GoOn("control")
RejectScratch == phase = "scratch" /\ (\E k \in DOMAIN funcs : ~ ScratchFree(k)) /\ Fail

(***************************************************************************)
(* validateNativeControlFlow                                               *)
(***************************************************************************)
\* Wrong variant: an offset is overlooked where the target is local.
ValidLocalAnyOffset(p) == nodes[p].ref \in AllLabels

ValidLocal(p) == nodes[p].ref \in AllLabels /\ nodes[p].offset = 0

ValidNative(p) ==
    /\ nodes[p].ref \notin AllLabels
    /\ ~ nodes[p].prefix /\ nodes[p].offset = 0
    /\ nodes[p].op \in {"call", "jmp"}
    /\ GoName(nodes[p].ref) \in Symbols

ValidControl(k) == \A p \in InstOf(k) : nativeControlSymbol(p) => ValidLocal(p) \/ ValidNative(p)

\* directNativeEdge does not ask for labels or prefixes.
Edges ==
    {p \in UNION {InstOf(k) : k \in DOMAIN funcs} :
        /\ nodes[p].op \in {"call", "jmp"} /\ nodes[p].operand = "symbol"
        /\ GoName(nodes[p].ref) \in Symbols}

\* Which edges become indirect is the matter of module CallGraph: any may.
AcceptControl ==
    /\ phase = "control"
    /\ \A k \in DOMAIN funcs : ValidControl(k)
    /\ indirect' \in SUBSET Edges
    /\ phase' = "encode"
    /\ f' = 1
    /\ i' = funcs[1].first
    /\ text' = <<<<>>>>
    /\ UNCHANGED <<source, nodes, discovery, local, entries, pending, direct, machine>>

RejectControl ==
    /\ phase = "control"
    /\ \E k \in DOMAIN funcs : ~ ValidControl(k)
    /\ Fail

-----------------------------------------------------------------------------
(***************************************************************************)
(* Emit and Encoder.Encode.  An item of the text stands for a node: do is  *)
(* its op, or label; the target is a label, a function or, with neither,   *)
(* in a register; via, when the scratch register is loaded with it.        *)
(***************************************************************************)
Item(p, label, fn, via) ==
    [node |-> p, do |-> IF nodes[p].kind = "label" THEN "label" ELSE nodes[p].op,
     label |-> label, fn |-> fn, via |-> via]

\* The machine code of a batch: a local target is in it, as a distance.
Assembled(p) == Item(p, IF nativeControlSymbol(p) THEN nodes[p].ref ELSE NoName, NoName, FALSE)

\* encodeDirect, encodeCall, encodeIndirectCall and encodeTailBranch; no item
\* is an error.
Encodings(p) ==
    LET n == nodes[p]
    IN  IF n.kind = "synthetic" \/ n.prefix \/ n.op \in {"plain", "system", "ret"} THEN {Assembled(p)}
        ELSE IF n.operand # "symbol" THEN {Item(p, NoName, NoName, n.operand = "memory")}
        ELSE IF n.op # "call" /\ n.ref \in JumpTargets THEN {Item(p, n.ref, NoName, FALSE)}
        ELSE {item \in {Item(p, NoName, GoName(n.ref), p \in indirect)} :
                n.offset = 0 /\ n.op # "jcc" /\ item.fn \in Symbols}

Encoding == phase = "encode" /\ InBody

Emit(item) ==
    /\ text' = [text EXCEPT ![f] = Append(@, item)]
    /\ i' = i + 1
    /\ UNCHANGED <<source, phase, passes, entries, pending, direct, indirect, machine>>

EncodeCode ==
    /\ Encoding /\ nodes[i].kind \in Code
    /\ \E item \in Encodings(i) : Emit(item)

\* A prefixed branch has no encoding outside of a batch, and a batch can fail.
EncodeError ==
    /\ Encoding /\ nodes[i].kind \in Code
    /\ Encodings(i) = {} \/ (nodes[i].prefix /\ nativeControlSymbol(i))
    /\ Fail

EmitLabel ==
    /\ Encoding /\ nodes[i].kind = "label" /\ ~ IsDataLabel(nodes[i].name)
    /\ Emit(Item(i, nodes[i].name, NoName, FALSE))

\* Directives, comments and pool labels leave nothing.
EmitNothing ==
    /\ Encoding
    /\ nodes[i].kind \notin Code
    /\ nodes[i].kind = "label" => IsDataLabel(nodes[i].name)
    /\ i' = i + 1
    /\ UNCHANGED <<source, phase, passes, entries, pending, direct, indirect, text, machine>>

EmitNextFunction ==
    /\ phase = "encode" /\ ~ InBody
    /\ IF f < Len(funcs)
       THEN f' = f + 1 /\ i' = funcs[f + 1].first /\ text' = Append(text, <<>>) /\ UNCHANGED phase
       ELSE phase' = "ready" /\ UNCHANGED <<f, i, text>>
    /\ UNCHANGED <<source, nodes, discovery, local, entries, pending, direct, indirect, machine>>

-----------------------------------------------------------------------------
(***************************************************************************)
(* The two machines.  A line of the source is its next instruction.  A     *)
(* place is 0 when the function has returned, -1 when control has gone     *)
(* where there is no code.  r11 is the line that last wrote the scratch    *)
(* register, 0 when its value means nothing, -1 when lowering wrote it.    *)
(***************************************************************************)
Least(S) == IF S = {} THEN -1 ELSE CHOOSE p \in S : \A q \in S : p <= q
LineFrom(p) == Least({q \in DOMAIN Lines : q >= p /\ Lines[q].kind \in Code})
ItemFrom(k, q) == Least({r \in DOMAIN text[k] : r >= q /\ text[k][r].do # "label"})

\* The line that a set of labels of the source leads to.
LineOf(labels) == IF labels = {} THEN -1 ELSE LineFrom(Least(labels))

AtLabel(k, name) == Least({r \in DOMAIN text[k] : text[k][r].do = "label" /\ text[k][r].label = name})

\* Labels of Go assembly are known in their TEXT only, symbols everywhere.
PlaceOfLabel(k, name) == <<k, IF AtLabel(k, name) = -1 THEN -1 ELSE ItemFrom(k, AtLabel(k, name))>>
PlaceOfFunction(name) ==
    LET k == Least({m \in DOMAIN funcs : funcs[m].name = name})
    IN  <<k, IF k = -1 THEN -1 ELSE ItemFrom(k, 1)>>

Now == Lines[src.line]
ThenNow == text[dst.place[1]][dst.place[2]]

Pop(stack) == SubSeq(stack, 1, Len(stack) - 1)

\* One line of the source; q is the label a register leads to.
SrcStep(taken, q) ==
    LET to == IF Now.operand # "symbol" THEN LineOf({q})
              ELSE IF Now.offset # 0 THEN -1 ELSE LineOf(Meaning(src.line))
        written == IF Now.sets THEN src.line ELSE src.r11
    IN  CASE Now.op \in {"plain", "system"} -> [src EXCEPT !.line = LineFrom(@ + 1), !.r11 = written]
          [] Now.op = "jcc" -> [src EXCEPT !.line = IF taken THEN to ELSE LineFrom(@ + 1)]
          [] Now.op = "jmp" -> [src EXCEPT !.line = to, !.r11 = IF Now.operand = "symbol" THEN @ ELSE 0]
          [] Now.op = "call" -> [line |-> to, open |-> Append(src.open, LineFrom(src.line + 1)),
                                 r11 |-> IF Now.operand = "symbol" THEN src.r11 ELSE 0]
          [] Now.op = "ret" -> IF src.open = <<>> THEN [src EXCEPT !.line = 0]
                               ELSE [src EXCEPT !.line = src.open[Len(src.open)], !.open = Pop(@)]

\* One item of the emitted code.
DstStep(taken, q) ==
    LET item == ThenNow
        k == dst.place[1]
        next == <<k, ItemFrom(k, dst.place[2] + 1)>>
        to == IF item.label # NoName THEN PlaceOfLabel(k, item.label)
              ELSE PlaceOfFunction(IF item.fn # NoName THEN item.fn ELSE GoName(Lines[q].name))
        lowered == IF item.via THEN -1 ELSE dst.r11
    IN  CASE item.do \in {"plain", "system"} ->
               [dst EXCEPT !.place = next, !.r11 = IF nodes[item.node].sets THEN item.node ELSE @]
          [] item.do = "jcc" -> [dst EXCEPT !.place = IF taken THEN to ELSE next]
          [] item.do = "jmp" -> [dst EXCEPT !.place = to, !.r11 = lowered]
          [] item.do = "call" -> [place |-> to, open |-> Append(dst.open, next), r11 |-> lowered]
          [] item.do = "ret" -> IF dst.open = <<>> THEN [dst EXCEPT !.place = <<k, 0>>]
                                ELSE [dst EXCEPT !.place = dst.open[Len(dst.open)], !.open = Pop(@)]

Unmoved == <<source, nodes, i, discovery, f, local, entries, pending, direct, indirect, text>>

\* A function is entered from C, or from Go through its wrapper, by the name
\* of its TEXT.  The comments of Clang have C names with their underscores.
Enter ==
    /\ phase = "ready"
    /\ phase' = "run"
    /\ \E k \in DOMAIN funcs, q \in FunctionLabels :
         /\ funcs[k].name \in {Lines[q].name, GoName(Lines[q].name)}
         /\ src' = [line |-> LineFrom(q), open |-> <<>>, r11 |-> 0]
         /\ dst' = [place |-> PlaceOfFunction(funcs[k].name), open |-> <<>>, r11 |-> 0]
         /\ leaf' \in {0} \cup (direct \cap {k})
    /\ UNCHANGED Unmoved

Run ==
    /\ phase = "run" /\ src.line > 0 /\ dst.place[2] > 0
    /\ Now.op = "call" => Len(src.open) < MaxDepth
    /\ \E taken \in BOOLEAN, q \in FunctionLabels :
         /\ GoName(Lines[q].name) \in Symbols      \* or its address cannot be taken
         /\ src' = SrcStep(taken, q)
         /\ dst' = DstStep(taken, q)
    /\ UNCHANGED <<Unmoved, phase, leaf>>

-----------------------------------------------------------------------------
Init ==
    /\ AnalyzeInit
    /\ LabelsInit
    /\ phase = "companion"
    /\ i = 1
    /\ entries = {}
    /\ pending = {}
    /\ direct = {}
    /\ indirect = {}
    /\ text = <<>>
    /\ leaf = 0
    /\ src = [line |-> 0, open |-> <<>>, r11 |-> 0]
    /\ dst = [place |-> <<0, 0>>, open |-> <<>>, r11 |-> 0]

\* The passes before the entries; a stage of discovery does not touch labels.
Passes ==
    /\ \/ AnalyzeNext /\ UNCHANGED <<f, local>>
       \/ LabelsNext
    /\ UNCHANGED <<entries, pending, direct, indirect, text, machine>>

Next ==
    \/ DeclareEntry \/ IgnoreDeclaration \/ RejectDeclaration \/ EndCompanion
    \/ Passes \/ NoFunctions
    \/ Certify \/ RejectEntry \/ Attach
    \/ AcceptScratch \/ RejectScratch \/ AcceptControl \/ RejectControl
    \/ EncodeCode \/ EncodeError \/ EmitLabel \/ EmitNothing \/ EmitNextFunction
    \/ Enter \/ Run

Spec == Init /\ [][Next]_vars
-----------------------------------------------------------------------------
\* Type invariant.
TypeOK ==
    /\ phase \in {"companion", "scan", "bounds", "analyze", "define", "rename", "renamed",
                  "scratch", "control", "encode", "ready", "run", "done", "failed"}
    /\ \/ i \in 1 .. Len(Lines) + 1
       \/ phase \in {"companion", "failed"} /\ i \in 1 .. Len(source.decls) + 1
    /\ DOMAIN nodes = DOMAIN Lines
    /\ \A k \in DOMAIN funcs : funcs[k].first \in 1 .. Len(Lines) + 1 /\ funcs[k].last \in 0 .. Len(Lines)
    /\ f \in 0 .. Len(funcs) + 1
    /\ \A d \in local : d.fn \in DOMAIN funcs
    /\ direct \subseteq pending /\ pending \subseteq DOMAIN funcs
    /\ indirect \subseteq DOMAIN Lines
    /\ Len(text) <= Len(funcs)
    /\ leaf \in {0} \cup direct

\* Entries are attached together or not at all: to the functions asked for, all
\* of them, each exported and certified.
EntriesAllOrNone ==
    direct # {} =>
        /\ {funcs[k].name : k \in direct} = {e.name : e \in entries}
        /\ \A k \in direct : funcs[k].export /\ Certified(k)

\* Sources in which control stays in a function until it jumps or returns, and
\* a label of a function that it jumps to or calls has code of the function behind it.
ControlStays(lines) ==
    LET Codes == {p \in DOMAIN lines : lines[p].kind \in Code}
        \* The code at or behind p is of the function with the label q.
        Reaches(p, q) ==
            \E r \in Codes : /\ r >= p /\ q \in Owner(lines, r)
                             /\ \A s \in Codes : s >= p => r <= s
    IN  /\ \A q \in LabelsOfFunctions(lines) : Reaches(q, q)
        /\ \A p \in Codes : \A q \in Owner(lines, p) :
             /\ lines[p].op \notin {"jmp", "ret"} => Reaches(p + 1, q)
             /\ lines[p].op \in {"call", "jmp", "jcc"} =>
                  \A r \in DOMAIN lines \ LabelsOfFunctions(lines) :
                     lines[r].kind = "label" /\ lines[r].name = lines[p].ref /\ q \in Owner(lines, r) => Reaches(r, q)

\* The names that a label of a function can have in the end.
NamesAfter(lines, r) == IF r \in LocalLabels(lines) THEN NewNames(lines, r) ELSE {lines[r].name}

\* The labels within functions that have the name the line p refers to.
Within(lines, p) ==
    {r \in DOMAIN lines :
        /\ lines[r].kind = "label" /\ lines[r].name = lines[p].ref
        /\ \E q \in Owner(lines, r) : r \in BodyOf(lines, q)}

OwnTargets(lines, p) == {r \in Within(lines, p) : Owner(lines, r) = Owner(lines, p)}

\* Sources in which calls and jumps say what they mean.  A label of the function
\* gets no name that is a pool's or a function's; a name that is only used within
\* other functions is used by two of them; and a symbol that Go spells like a
\* function is that function.
TargetsNamed(lines) ==
    \A p \in DOMAIN lines :
        lines[p].kind = "inst" /\ lines[p].op \in {"call", "jmp", "jcc"} /\ lines[p].operand = "symbol" =>
            /\ \A r \in OwnTargets(lines, p) : \A n \in NamesAfter(lines, r) :
                 n # NoName /\ ~ IsDataLabel(n) /\ \A m \in Marks(lines) : GoName(n) # GoName(Spelled(lines, m))
            /\ OwnTargets(lines, p) = {} /\ Within(lines, p) # {} =>
                 \E r, s \in Within(lines, p) \cap LocalLabels(lines) : Owner(lines, r) # Owner(lines, s)
            /\ Within(lines, p) = {} =>
                 /\ GoName(lines[p].ref) # NoName
                 /\ \A m \in Marks(lines) :
                      GoName(lines[p].ref) = GoName(Spelled(lines, m)) => lines[p].ref = Symbol(lines, m)

\* The code that control comes to from line p on.
NextCode(lines, p) ==
    {r \in DOMAIN lines :
        /\ lines[r].kind \in Code /\ r >= p
        /\ \A s \in DOMAIN lines : lines[s].kind \in Code /\ s >= p => r <= s}

\* The function of line p names the scratch register.
NamesScratch(lines, p) ==
    \E r \in DOMAIN lines :
        lines[r].kind \in Code /\ Owner(lines, r) = Owner(lines, p) /\ lines[r].regs \cap Scratch # {}

\* V has the lines where the scratch register may hold what is still read.  What
\* comes before one of them is in V as well, or sets the register, or calls a
\* function by name, which may return something in it; a call through a register
\* and one within the function leave nothing in it.  A function that takes
\* something in it is called by name only by functions that name it.
ScratchLive(lines, V) ==
    \A p \in {r \in DOMAIN lines : lines[r].kind \in Code} :
        LET byName == lines[p].operand = "symbol" /\ OwnTargets(lines, p) = {}
        IN  /\ lines[p].regs \cap Scratch # {} /\ ~ lines[p].sets => p \in V
            /\ lines[p].op \notin {"jmp", "ret"} /\ NextCode(lines, p + 1) \cap V # {} =>
                 \/ lines[p].op \in {"plain", "system"} /\ lines[p].sets
                 \/ lines[p].op = "call" /\ byName
                 \/ lines[p].op # "call" /\ p \in V
            /\ lines[p].op = "jcc" => lines[p].operand = "symbol"
            /\ lines[p].op \in {"call", "jmp", "jcc"} =>
                 /\ \A r \in OwnTargets(lines, p) : NextCode(lines, r) \cap V # {} => p \in V
                 /\ \A q \in LabelsOfFunctions(lines) :
                      byName /\ lines[q].name = lines[p].ref /\ NextCode(lines, q) \cap V # {}
                          => NamesScratch(lines, p)

\* Sources that know what they read in the scratch register.
ScratchUsed(lines) == \E V \in SUBSET {p \in DOMAIN lines : lines[p].kind \in Code} : ScratchLive(lines, V)

\* A leaf that Go enters calls nothing, stays in its own body, and names no
\* register that belongs to the stack, the thread or the runtime.
LeafContained ==
    phase = "run" /\ leaf # 0 /\ src.line # 0 =>
        /\ src.line \in Body(leaf)
        /\ src.open = <<>>
        /\ Now.op \notin {"call", "system"}
        /\ Now.op = "ret" => Now.operand = "none"
        /\ Now.regs \cap (Stack \cup Thread \cup Reserved) = {}

\* The emitted code executes what the source executes, line for line, through
\* every call, jump and return.
SameControl ==
    phase = "run" =>
        /\ src.line # -1
        /\ src.line = 0 <=> dst.place[2] = 0
        /\ src.line > 0 => dst.place[2] > 0 /\ ThenNow.node = src.line

\* An instruction that reads the scratch register finds what the source left
\* in it.
ScratchKept ==
    phase = "run" /\ src.line > 0 =>
        (Now.regs \cap Scratch # {} /\ ~ Now.sets /\ src.r11 # 0 => dst.r11 = src.r11)
=============================================================================
