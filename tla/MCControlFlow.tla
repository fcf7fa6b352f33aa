---------------------------- MODULE MCControlFlow ----------------------------
(***************************************************************************)
(* ControlFlow on sources of two functions, as GCC, Clang on ELF and Clang *)
(* on Mach-O lay them out, with the bodies that the passes tell apart.     *)
(***************************************************************************)
EXTENDS ControlFlow

First(n) == IF n = "" THEN "" ELSE SubSeq(n, 1, 1)
Rest(n) == SubSeq(n, 2, Len(n))

MCTrimPrefix(n) == IF First(n) = "_" THEN Rest(n) ELSE n
MCAddPrefix(n) == "_" \o n
MCGoName(n) == IF n = "f.x" THEN "f_x" ELSE MCTrimPrefix(n)
MCNativeName(n) == IF n = "_c2goasm_native_f" THEN n ELSE "_c2goasm_native_" \o n
MCScoped(fn, n) == fn \o "_" \o (IF First(n) = "." THEN Rest(n) ELSE n)
MCIsDataLabel(n) == n = ".LCPI0"
MCIsRelocationLabel(n) == n = "Lloh0"
MCStack == {"SP"}
MCThread == {"FS"}
MCReserved == {"BP"}
MCScratch == {"R11"}

Node(kind, name) ==
    [kind |-> kind, name |-> name, ref |-> NoName, isFunction |-> TRUE, known |-> TRUE,
     op |-> "none", operand |-> "none", offset |-> 0, prefix |-> FALSE, regs |-> {}, sets |-> FALSE]

Label(l) == Node("label", l)
Inst(op, operand, ref) ==
    [Node("inst", NoName) EXCEPT !.op = op, !.operand = operand, !.ref = ref]
Goto(op, ref) == Inst(op, "symbol", ref)
Plain(regs, sets) == [Inst("plain", "register", NoName) EXCEPT !.regs = regs, !.sets = sets]
Ret == Inst("ret", "none", NoName)
Prefixed(inst) == [inst EXCEPT !.prefix = TRUE]
Sets == Plain({"R11"}, TRUE)
Reads == Plain({"R11"}, FALSE)
Synthetic(regs) == [Plain(regs, FALSE) EXCEPT !.kind = "synthetic"]
Data(ref) == [Node("data", NoName) EXCEPT !.ref = ref]

\* Bodies of a function with the label l; other is the other function.
Leaves(l) ==
    {<<Ret>>, <<Sets, Reads, Ret>>,
     <<Label(l), Sets, Goto("jcc", l), Reads, Ret>>,
     <<Goto("jcc", l), Ret, Label(l), Prefixed(Goto("jmp", l))>>,
     <<Sets, Goto("jmp", l), Label("Lloh0"), Node("comment", NoName), Label(l), Synthetic({"R11"}), Ret>>}

\* The scratch register has an argument of this function.
Taking == <<Synthetic({"R11"}), Ret>>

Callers(l, other) ==
    {<<Goto("call", other), Ret>>,
     <<Goto("jcc", l), Goto("jmp", other), Label(l), Goto("call", other), Ret>>,
     <<Sets, Goto("call", other), Reads, Ret>>,
     <<Goto("jcc", l), Goto("jmp", other), Label(l), Ret>>,
     <<Sets, Goto("jmp", other)>>,
     <<Inst("call", "register", NoName), Inst("jmp", "memory", NoName)>>,
     <<Inst("call", "register", NoName), Sets, Reads, Ret>>,
     <<Inst("call", "memory", NoName), Sets, Synthetic({"R11"}), Ret>>,
     <<Sets, Inst("jmp", "memory", NoName)>>}

\* What one of the checks refuses, in an entry or altogether.
Refused(l, other) ==
    {<<r, Ret>> : r \in {Plain({r}, FALSE) : r \in {"SP", "FS", "BP"}} \cup
        {Inst("system", "none", NoName), Inst("jmp", "register", NoName), Synthetic({"SP"}),
         Prefixed(Goto("call", other)), Goto("jcc", other), Goto("jmp", "k"), Goto("call", "k"),
         [Goto("jmp", other) EXCEPT !.offset = 4], Goto("call", other)}}
    \cup {<<[Goto("jcc", l) EXCEPT !.offset = 4], Label(l), Ret>>, <<Goto("call", l), Label(l), Ret>>,
          <<Goto("jcc", l), Ret, Label(l), Goto("jmp", l)>>,
          <<Goto("jcc", l), Inst("ret", "immediate", NoName), Label(l), Ret>>,
          <<Label(l), Goto("jmp", l)>>,
          <<Prefixed([Goto("jcc", l) EXCEPT !.offset = 4]), Label(l), Ret>>}

\* A function as the three compilers lay it out.
GCC(n, body) ==
    <<Node("globl", n), Node("type", n), Label(n)>> \o body \o <<Node("size", n)>>
ClangELF(n, body) ==
    <<Node("globl", n), Node("begin", n), Node("type", n), Label(n)>> \o body \o <<Node("size", n)>>
MachO(n, body) == <<Node("globl", "_" \o n), Node("begin", n), Label("_" \o n)>> \o body
Static(n, body) == <<Node("type", n), Label(n)>> \o body \o <<Node("size", n)>>

Object == <<[Node("type", "tab") EXCEPT !.isFunction = FALSE], Label("tab"), Node("align", NoName),
            Data("tab"), Node("size", "tab")>>

\* Data in a body, some of which data refers to, and some of a directive that
\* isDataLabelAt does not know, which only code refers to.
Pool == <<Label(".LCPI0"), Data(NoName), Label("tab"), Node("align", NoName), Data("_f"), Data("tab")>>
Values == <<Label("vals"), [Data(NoName) EXCEPT !.known = FALSE]>>
ReadsValues == <<[Inst("plain", "memory", "vals") EXCEPT !.regs = {"BX"}], Ret>>

Go == [kind |-> "go", name |-> NoName, args |-> 0, results |-> 0, slots |-> TRUE]
Entry(n, args) == [Go EXCEPT !.kind = "entry", !.name = n, !.args = args, !.results = 1]

Both == <<Go, Entry("f", 2), Entry("g", 1)>>
Source(lines, decls) == [nodes |-> lines, decls |-> decls]

Pairs ==
    {Source(GCC("f", b) \o GCC("g", c), d) :
        b \in Leaves(".L1") \cup Callers(".L1", "g") \cup Refused(".L1", "g"),
        c \in Leaves(".L2") \cup Callers(".L2", "f"),
        d \in {<<>>, <<Entry("f", 2)>>}}
    \cup UNION {{Source(ClangELF("f", b) \o Object \o ClangELF(n, c), <<>>) :
        b \in Callers(".LBB0_1", n), c \in Leaves(".LBB1_1")} : n \in {"g", "_g"}}
    \cup {Source(GCC("f", b) \o GCC("g", Taking), <<>>) :
        b \in {<<Sets, Goto("jmp", "g")>>, <<Sets, Goto("call", "g"), Reads, Ret>>,
               <<Sets, Inst("call", "register", NoName), Sets, Inst("jmp", "register", NoName)>>}}
    \cup {Source(MachO("f", b \o Pool) \o MachO("g", c), Both) :
        b \in Leaves("LBB0_1") \cup Refused("LBB0_1", "_g"), c \in Leaves("LBB1_1")}

Clash == Source(GCC("f.x", <<Ret>>) \o GCC("f_x", <<Ret>>), <<>>)

\* Companion files, and sources that a pass refuses.
Others ==
    {Source(GCC("f", <<Ret>>) \o Static("g", <<[Inst("plain", "memory", "tab") EXCEPT !.regs = {"BX"}], Ret>>)
            \o Object, d) :
        d \in {<<>>, <<Go, Entry("f", 6)>>, <<Entry("f", 7)>>, <<Entry("f", 1), Entry("f", 1)>>,
               <<Entry("g", 1)>>, <<Entry("h", 1)>>, <<[Entry("f", 1) EXCEPT !.results = 2]>>,
               <<[Entry("f", 1) EXCEPT !.slots = FALSE]>>, <<[Go EXCEPT !.kind = "unusable"]>>}}
    \cup {Source(Object, d) : d \in {<<>>, <<Entry("f", 1)>>}}
    \cup {Source(MachO("f", b) \o MachO("g", ReadsValues \o Values \o Pool), <<>>) :
            b \in {<<Ret>>, ReadsValues, <<Goto("call", "_g"), Ret>>}}
    \cup {Clash,
          Source(GCC("f", <<Label("1"), Ret, Label("1"), Ret>>), <<>>),
          Source(GCC("_c2goasm_native_f", <<Ret>>) \o GCC("f", <<Ret>>), <<>>),
          Source(GCC("f", <<Label("1"), Ret>>) \o GCC("g", <<Label("1"), Ret>>)
                 \o GCC("h", <<Goto("jmp", "1")>>), <<>>),
          Source(GCC("f", <<Label("1"), Goto("jcc", "1"), Ret>>) \o
                 GCC("g", <<Label("1"), Goto("jcc", "1"), Ret>>), <<>>)}

MCSources == Pairs \cup Others

\* Functions named like another but for an underscore, or like a renamed label.
TwinSources ==
    {Source(GCC(n, <<Sets, Ret>>) \o GCC(m, <<Ret>>), <<Entry("f", 1)>>) :
        <<n, m>> \in {<<"f", "_f">>, <<"_f", "f">>}}
    \cup {Source(GCC("f", <<Goto("jcc", ".L3"), Goto("jmp", "f_L3"), Label(".L3"), Ret>>) \o
                 GCC("f_L3", <<Ret>>), <<>>)}

\* The hypotheses of ControlFlowProofs on sources; a name of two functions is
\* refused.
ASSUME MCLaid == \A s \in MCSources \ {Clash} : Laid(s.nodes)
ASSUME MCNamesApart == \A s \in MCSources : NamesApart(s.nodes)
ASSUME MCControlStays == \A s \in MCSources : ControlStays(s.nodes)
ASSUME MCTargetsNamed == \A s \in MCSources : TargetsNamed(s.nodes)
ASSUME MCScratchUsed == \A s \in MCSources : ScratchUsed(s.nodes)
=============================================================================
