------------------------------ MODULE PageRewrite ------------------------------
(***************************************************************************)
(* The rewriting of arm64 addresses in internal/asm/rewrite.go.            *)
(*                                                                         *)
(* Clang forms the address of a symbol in two halves, ADRP for its page    *)
(* and a PAGEOFF operand for the rest, or loads it from the GOT.  Go       *)
(* assembly has no such relocations, so four passes turn each ADRP into    *)
(* the load of an absolute address and each PAGEOFF into a number.  The    *)
(* passes follow the lines of the function, the code follows its jumps.    *)
(*                                                                         *)
(* This module runs the passes on a function, one action per iteration,    *)
(* and then executes the function as it was and as it is now side by side. *)
(***************************************************************************)
EXTENDS Integers, Sequences

CONSTANTS
    Reg,        \* registers
    Tables,     \* symbols found in a constant table (tableFor)
    Functions,  \* symbols that name a function of the module
    Unknown,    \* symbols that are neither
    MaxOff,     \* offsets are told apart up to here
    Programs    \* the function bodies considered

NoReg == 0
NoSym == "none"
Sym == Tables \cup Functions \cup Unknown

(***************************************************************************)
(* The nodes of a body.  adrp and gotadrp are ADRP with @PAGE and          *)
(* @GOTPAGE; add and load have a displacement, sym@PAGEOFF+off or, when    *)
(* sym is NoSym, the number off; load stands for every access with a base  *)
(* register and two operands, stores included (dst = NoReg).  A label is   *)
(* the target of a branch or jump, a lloh a label of the linker's.         *)
(* address is the SyntheticInst MOVD $sym+off, dst.                        *)
(***************************************************************************)
Op == {"adrp", "gotadrp", "add", "load", "gotload",
       "label", "lloh", "branch", "jump", "address"}
Fields == [op : Op, dst : Reg \cup {NoReg}, base : Reg \cup {NoReg}, sym : Sym \cup {NoSym},
           off : 0 .. MaxOff, to : Nat, line : Nat \ {0}]
Node == {n \in Fields : n.op \in {"add", "load", "gotload"} => n.base \in Reg}

\* What a register holds: the page of sym+off, the page of its GOT slot, the
\* address sym+off, or something else.
Value == [kind : {"page", "gotpage", "addr", "junk"}, sym : Sym \cup {NoSym}, off : 0 .. MaxOff]
Junk == [kind |-> "junk", sym |-> NoSym, off |-> 0]

ASSUME MaxOffAssumption == MaxOff \in Nat
ASSUME NamesAssumption ==
    NoReg \notin Reg /\ NoSym \notin Sym /\ Unknown \cap (Tables \cup Functions) = {}
ASSUME ProgramsAssumption ==
    \A p \in Programs : p \in Seq(Node) /\ \A i \in DOMAIN p : p[i].line = i

VARIABLES
    program,    \* the function as the compiler wrote it
    phase,      \* the pass, then "run", "end" or "failed"
    body,       \* fn.Body
    i,          \* the position the pass is at
    out,        \* what the pass has kept
    pc,         \* the line being executed
    before,     \* the registers, executing program
    after       \* the registers, executing body

execution == <<pc, before, after>>
vars == <<program, phase, body, i, out, pc, before, after>>

-----------------------------------------------------------------------------
Here == body[i]
At(pass) == phase = pass /\ i <= Len(body)

IsInst(n) == n.op \notin {"label", "lloh", "address"}
IsAdrp(n) == n.op \in {"adrp", "gotadrp"}

\* Wrong variant: every symbol is taken for a function.
KnownAlways(s) == TRUE

Known(s) == s \in Tables \cup Functions

Address(dst, sym, off, line) ==
    [op |-> "address", dst |-> dst, base |-> NoReg, sym |-> sym, off |-> off,
     to |-> 0, line |-> line]

Numbered(n) == [n EXCEPT !.sym = NoSym]

\* Wrong variant: a block label does not end the search.
NextInstAnyLabel(start) ==
    LET next == {j \in start .. Len(body) :
                    IsInst(body[j]) /\ \A k \in start .. j - 1 : ~ IsInst(body[k])}
    IN  IF next = {} THEN 0 ELSE CHOOSE j \in next : TRUE

\* nextInst: the next instruction, when only the linker's labels precede it.
NextInst(start) ==
    LET next == {j \in start .. Len(body) :
                    IsInst(body[j]) /\ \A k \in start .. j - 1 : body[k].op = "lloh"}
    IN  IF next = {} THEN 0 ELSE CHOOSE j \in next : TRUE

\* Positions after k that a scan for uses of base sees: it stops at the next
\* ADRP into base.
Scanned(k, base) ==
    {j \in k + 1 .. Len(body) :
        \A l \in k + 1 .. j : ~ (IsAdrp(body[l]) /\ body[l].dst = base)}

\* rewritePageBaseUses: of an add only the symbol is compared.
PageUses(k, base, sym) ==
    {j \in Scanned(k, base) :
        \/ body[j].op \in {"load", "gotload"} /\ body[j].base = base /\ body[j].sym = sym
        \/ body[j].op = "add" /\ body[j].sym = sym}

RewritePageUses(k, base, sym) ==
    [j \in DOMAIN body |->
        IF j \in PageUses(k, base, sym) THEN Numbered(body[j]) ELSE body[j]]

\* rewriteRemainingGOTPageUses
GOTUses(k, base, sym) ==
    {j \in Scanned(k, base) :
        /\ body[j].op \in {"load", "gotload"} /\ body[j].dst # NoReg
        /\ body[j].base = base /\ body[j].sym = sym}

RewriteGOTUses(k, base, sym, off) ==
    [j \in DOMAIN body |->
        IF j \in GOTUses(k, base, sym)
        THEN Address(body[j].dst, sym, off, body[j].line) ELSE body[j]]

\* Wrong variants: the second instruction of a pair is looked at again; one
\* more node is skipped.
ResumeAtSecond(j) == j
ResumeOneLate(j) == j + 2

\* i = j, and the loop's own increment.
Resume(j) == j + 1

Keep(nodes, next) ==
    /\ out' = out \o nodes
    /\ i' = next
    /\ UNCHANGED <<program, phase, execution>>

Fail ==
    /\ phase' = "failed"
    /\ UNCHANGED <<program, body, i, out, execution>>

-----------------------------------------------------------------------------
Init ==
    /\ program \in Programs
    /\ phase = "pairs"
    /\ body = program
    /\ i = 1
    /\ out = <<>>
    /\ pc = 1
    /\ before = [r \in Reg |-> Junk]
    /\ after = [r \in Reg |-> Junk]

(***************************************************************************)
(* rewriteSymbolAddresses: ADRP and the add that follows it.               *)
(***************************************************************************)

\* Position j completes the address begun here.
Pairs(j) ==
    /\ IsAdrp(Here) /\ j # 0
    /\ body[j].op = "add" /\ body[j].base = Here.dst /\ body[j].sym = Here.sym

RewritePair ==
    /\ At("pairs")
    /\ LET j == NextInst(i + 1)
       IN  /\ Pairs(j)
           /\ \/ /\ Known(Here.sym)
                 /\ Keep(<<Address(body[j].dst, Here.sym, body[j].off, Here.line)>>, Resume(j))
                 /\ UNCHANGED body
              \/ ~ Known(Here.sym) /\ Fail

KeepInPairs ==
    /\ At("pairs")
    /\ ~ Pairs(NextInst(i + 1))
    /\ Keep(<<Here>>, i + 1)
    /\ UNCHANGED body

(***************************************************************************)
(* rewriteGotLoads: ADRP and the load that follows it.                     *)
(***************************************************************************)

\* The access at j has the register set here for its base and a symbol, which
\* is not compared with the one here.
LoadsThrough(j) ==
    /\ IsAdrp(Here) /\ j # 0
    /\ body[j].op \in {"load", "gotload"}
    /\ body[j].base = Here.dst /\ body[j].sym # NoSym

\* A GOT load becomes the address; so do the later ones from the same slot.
RewriteGOTLoad ==
    /\ At("loads")
    /\ LET j == NextInst(i + 1)
       IN  /\ LoadsThrough(j) /\ body[j].op = "gotload"
           /\ \/ /\ Known(body[j].sym)
                 /\ Keep(<<Address(body[j].dst, body[j].sym, body[j].off, Here.line)>>, Resume(j))
                 /\ body' = RewriteGOTUses(j, Here.dst, body[j].sym, body[j].off)
              \/ ~ Known(body[j].sym) /\ Fail

\* A load from a table keeps its displacement on top of the table's address.
RewritePageLoad ==
    /\ At("loads")
    /\ LET j == NextInst(i + 1)
       IN  /\ LoadsThrough(j) /\ body[j].op = "load" /\ body[j].sym \in Tables
           /\ Keep(<<Address(Here.dst, body[j].sym, 0, Here.line), Numbered(body[j])>>, Resume(j))
           /\ body' = RewritePageUses(j, Here.dst, body[j].sym)

KeepInLoads ==
    /\ At("loads")
    /\ LET j == NextInst(i + 1)
       IN  LoadsThrough(j) => body[j].op = "load" /\ body[j].sym \notin Tables
    /\ Keep(<<Here>>, i + 1)
    /\ UNCHANGED body

(***************************************************************************)
(* rewriteRemainingPageBases: any other ADRP.                              *)
(***************************************************************************)

RejectBase ==
    /\ At("bases")
    /\ IsAdrp(Here)
    /\ \/ ~ Known(Here.sym)
       \/ Here.op = "gotadrp" /\ GOTUses(i, Here.dst, Here.sym) = {}
    /\ Fail

\* The loads become addresses, the base itself goes away.
RewriteGOTBase ==
    /\ At("bases")
    /\ Here.op = "gotadrp" /\ Known(Here.sym)
    /\ GOTUses(i, Here.dst, Here.sym) # {}
    /\ Keep(<<>>, i + 1)
    /\ body' = RewriteGOTUses(i, Here.dst, Here.sym, 0)

\* Wrong variant: the ADRP's addend is added whether its uses have one or not.
AddendTwice == Here.off

\* Uses carry their own offsets; without a use the base carries the ADRP's.
Addend == IF PageUses(i, Here.dst, Here.sym) = {} THEN Here.off ELSE 0

RewritePageBase ==
    /\ At("bases")
    /\ Here.op = "adrp" /\ Known(Here.sym)
    /\ Keep(<<Address(Here.dst, Here.sym, Addend, Here.line)>>, i + 1)
    /\ body' = RewritePageUses(i, Here.dst, Here.sym)

KeepInBases ==
    /\ At("bases")
    /\ ~ IsAdrp(Here)
    /\ Keep(<<Here>>, i + 1)
    /\ UNCHANGED body

\* fn.Body = out, and the next pass begins.
EndPass ==
    /\ phase \in {"pairs", "loads", "bases"}
    /\ i > Len(body)
    /\ phase' = CASE phase = "pairs" -> "loads"
                  [] phase = "loads" -> "bases"
                  [] phase = "bases" -> "offsets"
    /\ body' = out
    /\ out' = <<>>
    /\ i' = 1
    /\ UNCHANGED <<program, execution>>

(***************************************************************************)
(* rewriteRemainingPageOffsets: any other PAGEOFF, wherever its ADRP is.   *)
(***************************************************************************)

RewriteOffset ==
    /\ At("offsets")
    /\ Here.op \in {"load", "add"}
    /\ body' = [body EXCEPT ![i] = Numbered(Here)]
    /\ i' = i + 1
    /\ UNCHANGED <<program, phase, out, execution>>

RewriteGOTOffset ==
    /\ At("offsets")
    /\ Here.op = "gotload" /\ Here.sym # NoSym
    /\ \/ /\ Known(Here.sym)
          /\ body' = [body EXCEPT ![i] = Address(Here.dst, Here.sym, Here.off, Here.line)]
          /\ i' = i + 1
          /\ UNCHANGED <<program, phase, out, execution>>
       \/ ~ Known(Here.sym) /\ Fail

KeepInOffsets ==
    /\ At("offsets")
    /\ Here.op \notin {"load", "add"}
    /\ ~ (Here.op = "gotload" /\ Here.sym # NoSym)
    /\ i' = i + 1
    /\ UNCHANGED <<program, phase, body, out, execution>>

\* The end of rewriteFunction: an instruction whose text still has a relocation
\* is an error.
Check ==
    /\ phase = "offsets"
    /\ i > Len(body)
    /\ phase' = IF \E k \in DOMAIN body : IsAdrp(body[k]) \/ body[k].op = "gotload"
                THEN "failed" ELSE "run"
    /\ UNCHANGED <<program, body, i, out, execution>>

-----------------------------------------------------------------------------
(***************************************************************************)
(* The machine.  Line pc of program and the node of that line in body, if  *)
(* it is still there, are executed together; a branch goes either way.     *)
(***************************************************************************)

Plus(v, off) ==
    IF v.off + off <= MaxOff THEN [v EXCEPT !.kind = "addr", !.off = @ + off] ELSE Junk

\* The base register and the displacement of n together.  A page that is used
\* without PAGEOFF stands for the address: the compiler knows it to be aligned.
Sum(n, reg) ==
    LET v == reg[n.base]
    IN  CASE n.sym # NoSym /\ v.kind = "page" /\ v.sym = n.sym ->
                [kind |-> "addr", sym |-> n.sym, off |-> n.off]
          [] n.sym = NoSym /\ v.kind \in {"page", "addr"} -> Plus(v, n.off)
          [] OTHER -> Junk

Result(n, reg) ==
    CASE n.op = "adrp" -> [kind |-> "page", sym |-> n.sym, off |-> n.off]
      [] n.op = "gotadrp" -> [kind |-> "gotpage", sym |-> n.sym, off |-> 0]
      [] n.op = "address" -> [kind |-> "addr", sym |-> n.sym, off |-> n.off]
      [] n.op = "add" -> Sum(n, reg)
      [] n.op = "gotload" /\ reg[n.base].kind = "gotpage" /\ reg[n.base].sym = n.sym ->
            [kind |-> "addr", sym |-> n.sym, off |-> 0]
      [] OTHER -> Junk

Executed(nodes, reg) ==
    [r \in Reg |->
        IF \E n \in nodes : n.dst = r
        THEN Result(CHOOSE n \in nodes : n.dst = r, reg) ELSE reg[r]]

InProgram == {program[k] : k \in {pc} \cap DOMAIN program}
InBody == {body[k] : k \in {l \in DOMAIN body : body[l].line = pc}}

Execute ==
    /\ phase = "run"
    /\ pc \in DOMAIN program
    /\ before' = Executed(InProgram, before)
    /\ after' = Executed(InBody, after)
    /\ \/ program[pc].op # "jump" /\ pc' = pc + 1
       \/ program[pc].op \in {"branch", "jump"} /\ pc' = program[pc].to
    /\ UNCHANGED <<program, phase, body, i, out>>

\* The function returns, or its conversion has failed.
End ==
    /\ phase = "run"
    /\ pc \notin DOMAIN program
    /\ phase' = "end"
    /\ UNCHANGED <<program, body, i, out, execution>>

Finished == phase \in {"end", "failed"} /\ UNCHANGED vars

Next ==
    \/ RewritePair \/ KeepInPairs
    \/ RewriteGOTLoad \/ RewritePageLoad \/ KeepInLoads
    \/ RejectBase \/ RewriteGOTBase \/ RewritePageBase \/ KeepInBases
    \/ EndPass
    \/ RewriteOffset \/ RewriteGOTOffset \/ KeepInOffsets \/ Check
    \/ Execute \/ End
    \/ Finished

Spec == Init /\ [][Next]_vars

-----------------------------------------------------------------------------
TypeOK ==
    /\ program \in Seq(Node)
    /\ phase \in {"pairs", "loads", "bases", "offsets", "run", "end", "failed"}
    /\ body \in Seq(Node)
    /\ i \in 1 .. Len(body) + 1
    /\ out \in Seq(Node)
    /\ pc \in Nat
    /\ before \in [Reg -> Value]
    /\ after \in [Reg -> Value]

Accessed(nodes, reg) == {Sum(n, reg) : n \in {m \in nodes : m.op = "load"}}

\* On every path through the function, each access that reached a known address
\* reaches the same address after the passes, whichever of them rewrote the ADRP
\* and whichever rewrote the PAGEOFF.
SameAddress ==
    phase = "run" =>
        \A v \in Accessed(InProgram, before) :
            v.kind = "addr" => Accessed(InBody, after) = {v}

\* No pass swallows a label that code jumps to or a branch, makes one up, or
\* moves code across another line: a jump finds the code it found before.
Control(n) == n.op \in {"label", "branch", "jump"}
InOrder(nodes) == \A k, l \in DOMAIN nodes : k < l => nodes[k].line < nodes[l].line
ControlKept ==
    phase = "run" =>
        /\ \A k \in DOMAIN program : Control(program[k]) => \E l \in DOMAIN body : body[l] = program[k]
        /\ \A l \in DOMAIN body :
              Control(body[l]) => body[l].line \in DOMAIN program /\ body[l] = program[body[l].line]
        /\ InOrder(body)

\* A pass that compacts fn.Body in its own array (out := fn.Body[:0]) writes
\* behind the position it reads at.
OutBehind == phase \in {"pairs", "loads", "bases"} => Len(out) < i

\* Sources in which an access right behind an ADRP into its base register is the
\* other half of the address begun there.
HalvesMatch(p) ==
    \A k, j \in DOMAIN p :
        /\ IsAdrp(p[k]) /\ k < j /\ \A l \in k + 1 .. j - 1 : p[l].op = "lloh"
        /\ p[j].op \in {"load", "gotload"} /\ p[j].base = p[k].dst /\ p[j].sym # NoSym
        => p[j].sym = p[k].sym

(***************************************************************************)
(* Sources whose addresses survive the passes.                             *)
(***************************************************************************)
Access(n) == n.op \in {"add", "load"}

\* Line j comes right behind line k, but for the linker's labels.
Behind(p, k, j) == k \in DOMAIN p /\ j \in DOMAIN p /\ k < j /\ \A l \in k + 1 .. j - 1 : p[l].op = "lloh"

\* Line j completes the address begun at line k: they are rewritten together.
Completes(p, k, j) ==
    Behind(p, k, j) /\ IsAdrp(p[k]) /\ p[j].op \in {"add", "gotload"} /\ p[j].base = p[k].dst /\ p[j].sym = p[k].sym

Successors(p, k) ==
    (IF p[k].op = "jump" THEN {} ELSE {k + 1}) \cup (IF p[k].op \in {"branch", "jump"} THEN {p[k].to} ELSE {})

\* V has the lines where the register set at line k may still hold it.
Carries(p, k, V) ==
    /\ {k + 1} \cap DOMAIN p \subseteq V
    /\ \A l \in V : p[l].dst # p[k].dst => Successors(p, l) \cap DOMAIN p \subseteq V

\* The access at line u may find in its base register what line k put there.
Finds(p, u, k) ==
    Access(p[u]) /\ p[u].base = p[k].dst /\ \A V \in SUBSET DOMAIN p : Carries(p, k, V) => u \in V

\* The scan from the ADRP at line k sees the PAGEOFF at line u: no ADRP into the
\* register is between them.  Of an add only the symbol is compared, so another
\* ADRP may have come to it first.
Sees(p, k, u) ==
    /\ k < u /\ p[u].base = p[k].dst /\ p[u].sym = p[k].sym
    /\ \A l \in k + 1 .. u : ~ (IsAdrp(p[l]) /\ p[l].dst = p[k].dst)
    /\ \/ p[u].op = "load"
       \/ /\ p[u].op = "add"
          /\ \A m \in (1 .. u - 1) \ {k} : IsAdrp(p[m]) /\ p[m].sym = p[k].sym =>
                k < m /\ ~ \E j \in DOMAIN p : Behind(p, m, j) /\ p[j].op = "load" /\ p[j].base = p[m].dst

\* There is nothing that it could take for a use.
SeesNone(p, k) ==
    \A u \in DOMAIN p : k < u /\ p[u].sym = p[k].sym =>
        p[u].op # "add" /\ ~ (p[u].op \in {"load", "gotload"} /\ p[u].base = p[k].dst)

\* Operands as compilers write them: GOT slots have no addend, are loaded through
\* their page, and symbols with one are not accessed directly.
GOTApart(p) ==
    \A k \in DOMAIN p :
        /\ p[k].op = "gotload" => p[k].sym # NoSym /\ p[k].off = 0
        /\ \A j \in DOMAIN p :
              /\ p[k].op \in {"gotadrp", "gotload"} /\ p[j].op = "load" => p[k].sym # p[j].sym
              /\ p[k].op = "adrp" /\ Behind(p, k, j) /\ p[j].op = "gotload" => p[j].base # p[k].dst

WellFormed(p) ==
    \A k \in DOMAIN p :
        /\ p[k].op # "address"
        /\ IsAdrp(p[k]) => p[k].dst \in Reg /\ p[k].sym # NoSym
        /\ p[k].op \in {"label", "lloh", "branch", "jump"} => p[k].dst = NoReg
        /\ p[k].op \in {"branch", "jump"} /\ p[k].to \in DOMAIN p => p[p[k].to].op = "label"

\* A page that is completed in another register is not used again.
PagesUnshared(p) ==
    \A k, j \in DOMAIN p : Completes(p, k, j) /\ p[j].op = "add" /\ p[j].dst # p[k].dst =>
        \A u \in DOMAIN p \ {j} : ~ Finds(p, u, k)

\* A page with an addend that is used without PAGEOFF has no PAGEOFF behind it;
\* one that is used with PAGEOFF is seen to be.
AddendsCounted(p) ==
    \A k \in DOMAIN p : p[k].op = "adrp" /\ p[k].off # 0 /\ (\A j \in DOMAIN p : ~ Completes(p, k, j)) =>
        \A u \in DOMAIN p : Finds(p, u, k) =>
            /\ p[u].sym = NoSym => SeesNone(p, k)
            /\ p[u].sym = p[k].sym => \E v \in DOMAIN p : Sees(p, k, v)

Addressed(p) ==
    WellFormed(p) /\ GOTApart(p) /\ HalvesMatch(p) /\ PagesUnshared(p) /\ AddendsCounted(p)

\* "Unresolved relocations stop conversion": no function that forms the address
\* of a symbol the module does not have is converted.
UnresolvedFails ==
    phase = "run" =>
        \A k \in DOMAIN program : IsAdrp(program[k]) => program[k].sym \notin Unknown

=============================================================================
