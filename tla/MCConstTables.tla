---------------------------- MODULE MCConstTables ----------------------------
(***************************************************************************)
(* ConstTables on sources of up to eleven lines: two data sections of any  *)
(* kinds around a label and its data, aliases that chain, fork or form a   *)
(* cycle, commons in any section, and code that refers to all of them.     *)
(***************************************************************************)
EXTENDS ConstTables

MCName == {"x", "_x", "y", "_y", "a", "b", "_f", "f", "m", "."}
MCStrip == [n \in MCName |-> CASE n = "_x" -> "x" [] n = "_y" -> "y" [] n = "_f" -> "f" [] OTHER -> n]
MCFunctions == {"f"}

Line(op) ==
    [op |-> op, name |-> NoName, sym |-> "m", add |-> 0, sub |-> NoName, width |-> 1,
     val |-> 0, size |-> 0, bytes |-> <<>>, section |-> ".text", w |-> FALSE]

Section(name, w) == [Line("section") EXCEPT !.section = name, !.w = w]
LabelLine(l) == [Line("label") EXCEPT !.name = l]
Number(v, width) == [Line("number") EXCEPT !.val = v, !.width = width]
Sum(sym, add, width) == [Line("symbol") EXCEPT !.sym = sym, !.add = add, !.width = width]
Diff(sym, sub, width) == [Line("symbol") EXCEPT !.sym = sym, !.sub = sub, !.width = width]
Text(bytes) == [Line("bytes") EXCEPT !.bytes = bytes]
Zero(n) == [Line("zero") EXCEPT !.size = n]
Align(n) == [Line("align") EXCEPT !.width = n]
Comm(l, size, align) == [Line("common") EXCEPT !.name = l, !.size = size, !.width = align]
Alias(l, sym, add) == [Line("set") EXCEPT !.name = l, !.sym = sym, !.add = add]
Ref(op, sym, add) == [Line(op) EXCEPT !.sym = sym, !.add = add]

TextLine == Section(".text", FALSE)
RO == Section(".rodata", FALSE)
RW == Section(".data", TRUE)
Sections == {TextLine, RO, RW, Section("__DATA,__const", FALSE), Section("bss", FALSE),
             Section("const", FALSE)}

\* Bytes, numbers and references of every width and in every order, or none.
Data ==
    {Align(8), Number(-2, 2), Number(300, 4), Text(<<5, 6, 0>>), Zero(4), Line("unsupported"),
     Sum("x", 4, 8), Sum("_y", 1, 8), Sum("_y", -1, 8), Sum("m", 0, 8), Sum("x", 0, 4),
     Diff("_y", "x", 2), Diff(".", "x", 1), Diff("m", "x", 4)}

TwoSections ==
    {<<s, LabelLine("x"), d, u, LabelLine("_y"), e, g>> :
        s \in Sections \ {TextLine}, d \in Data, u \in Sections \cup {Align(8)},
        e \in Data, g \in {Align(4), Number(1, 1)}}

Commons ==
    {<<s, LabelLine("x"), Number(7, 1), Comm("_y", n, 4), LabelLine("a"), d, Comm("b", 3, 1),
       TextLine, LabelLine("_f"), Ref("lea", "_f", 0), Ref("access", "_y", 1)>> :
        s \in Sections \ {TextLine}, n \in {0, 2}, d \in Data}

Aliases ==
    {<<RW, LabelLine("x"), Number(1, 4), Alias("a", p, 2), Alias("b", q, k), Sum(r, 0, 8), Alias("_y", "x", c),
       TextLine, Ref("lea", "b", 1)>> :
        p \in {"x", "b", "m", "_y"}, q \in {"x", "a", "b", "f"}, k \in {-3, 0, 1},
        r \in {"a", "b", "_y"}, c \in {-1, 4}}
    \cup {<<RW, [Alias("a", "x", 0) EXCEPT !.sub = "_y"], LabelLine("x"), Number(1, 4)>>}

Code ==
    {<<LabelLine("_f"), r, s, g, LabelLine("x"), Text(<<1, 2>>), LabelLine("_y"), Sum("x", 0, 8), TextLine>> :
        r \in {Ref(op, sym, 1) : op \in {"lea", "gotmov", "access", "gotuse", "odd"},
                                 sym \in {"x", "_y", "_f", "m"}},
        s \in {Ref("lea", "_y", -1), Ref("gotmov", "_f", 0)}, g \in Sections}

MCPrograms == TwoSections \cup Commons \cup Aliases \cup Code

\* What the proofs about names suppose of a source holds of all of these.
ASSUME MCSources == \A p \in MCPrograms : Distinct(p) /\ PlainText(p)

\* A common between the functions of a text section.
TextPrograms ==
    {<<TextLine, Comm("x", 4, 4), LabelLine("_f"), c, Ref("lea", "_f", 0)>> :
        c \in {Number(3, 1), Ref("access", "x", 0)}}
    \cup {<<Section(".text.f.constprop", FALSE), LabelLine("_f"), Number(3, 1), Ref("lea", "_f", 0)>>}

\* The C variables x and _x, as a Mach-O compiler spells them.
TwinPrograms ==
    {<<s, LabelLine("x"), Number(1, 8), LabelLine("_x"), Number(2, 8), LabelLine("_y"), Sum(r, 0, 8)>> :
        s \in {RO, RW}, r \in {"x", "_x"}}
=============================================================================
