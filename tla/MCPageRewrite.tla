---------------------------- MODULE MCPageRewrite ----------------------------
(***************************************************************************)
(* PageRewrite on functions of two registers: straight code, a loop, a     *)
(* diamond, and a block laid out before the one that sets up its base.     *)
(***************************************************************************)
EXTENDS PageRewrite

MCReg == 1 .. 2
MCTables == {"table"}
MCFunctions == {"function"}
MCUnknown == {"missing"}
MCMaxOff == 3

Plain(op, line) ==
    [op |-> op, dst |-> NoReg, base |-> NoReg, sym |-> NoSym, off |-> 0, to |-> 0, line |-> line]
To(op, line, target) == [Plain(op, line) EXCEPT !.to = target]
Label(line) == Plain("label", line)

Nodes(op, dst, base, sym, off, line) ==
    [op : {op}, dst : dst, base : base, sym : sym, off : off, to : {0}, line : {line}]
Bases(dst, line) ==
    Nodes("adrp", dst, {NoReg}, {"table"}, 0 .. 1, line)
        \cup Nodes("adrp", dst, {NoReg}, {"function"}, {0}, line)
        \cup Nodes("gotadrp", dst, {NoReg}, {"function"}, {0}, line)
Adds(base, line) ==
    Nodes("add", MCReg, base, {"table"}, 0 .. 1, line) \cup Nodes("add", MCReg, base, {"function", "missing"}, {0}, line)
Uses(base, line) ==
    Nodes("load", {NoReg}, base, {"table"}, 0 .. 1, line) \cup Nodes("load", {NoReg}, base, {NoSym}, {0}, line)
Loads(base, line) == Nodes("load", MCReg, base, {"table"}, {0}, line)
GotLoads(base, line) == Nodes("gotload", MCReg, base, {"function", "missing"}, {0}, line)

First(line) ==
    Bases({1}, line) \cup Nodes("adrp", {1}, {NoReg}, {"missing"}, {0}, line)
        \cup Nodes("gotadrp", {1}, {NoReg}, {"missing"}, {0}, line)
Item(base, line) ==
    Bases(MCReg, line) \cup Adds(base, line) \cup Uses(base, line)
    \cup Loads(base, line) \cup GotLoads(base, line)

\* A shape is a set of functions and the paths through them, each a sequence of
\* lines.
Straight ==
    [code : {<<a, b, c, d>> : a \in First(1), b \in Item({1}, 2) \cup {Plain("lloh", 2), Label(2)},
                              c \in Item(MCReg, 3), d \in Uses(MCReg, 4)},
     paths : {{<<1, 2, 3, 4>>}}]

Loop ==
    [code : {<<a, Label(2), b, c, To("branch", 5, 2), d>> :
                a \in First(1), b \in Item({1}, 3), c \in Item(MCReg, 4), d \in Uses(MCReg, 6)},
     paths : {{<<1, 2, 3, 4, 5, 6>>, <<1, 2, 3, 4, 5, 2, 3, 4, 5, 6>>}}]

OutOfLine ==
    [code : {<<To("jump", 1, 5), Label(2), c, To("jump", 4, 9), Label(5), a, b, To("jump", 8, 2)>> :
                a \in First(6), b \in Item({1}, 7), c \in Uses(MCReg, 3)},
     paths : {{<<1, 5, 6, 7, 8, 2, 3, 4>>}}]

Diamond ==
    [code : {<<To("branch", 1, 5), a, b, To("jump", 4, 7), Label(5), c, Label(7), d>> :
                a \in First(2), b \in Item({1}, 3), c \in Bases(MCReg, 6), d \in Uses(MCReg, 8)},
     paths : {{<<1, 2, 3, 4, 7, 8>>, <<1, 5, 6, 7, 8>>}}]

\* Code that no path reaches.
Dead ==
    [code : {<<To("jump", 1, 3), b, Label(3), a, d>> : a \in First(4), b \in GotLoads({1}, 2), d \in Uses({1}, 5)},
     paths : {{<<1, 3, 4, 5>>}}]

Shapes == Straight \cup Loop \cup OutOfLine \cup Diamond \cup Dead

MCPrograms == {p \in {f.code : f \in Shapes} : Addressed(p)}

(***************************************************************************)
(* The functions for the findings are what a compiler writes: each access  *)
(* finds its page, or some address, on every path.                         *)
(***************************************************************************)
\* Along the path, every PAGEOFF finds the page of its symbol in its base
\* register, with its own addend or none, and every other access some address.
Reaches(p, path, k) ==
    LET use == p[path[k]]
        Sets(j) == p[path[j]].dst = use.base
    IN  \E j \in 1 .. k - 1 :
            /\ Sets(j)
            /\ IF use.sym # NoSym
               THEN /\ p[path[j]].op = IF use.op = "gotload" THEN "gotadrp" ELSE "adrp"
                    /\ p[path[j]].sym = use.sym
                    /\ p[path[j]].off \in {0, use.off}
               ELSE p[path[j]].op \in {"adrp", "add", "gotload"}
            /\ \A l \in j + 1 .. k - 1 : ~ Sets(l)

\* A page with an addend is used with PAGEOFF, or without, but not both.
OneUse(p) ==
    (\E k \in DOMAIN p : p[k].op = "adrp" /\ p[k].off # 0) =>
        ~ \E k, j \in DOMAIN p : p[k].op = "load" /\ p[k].sym = NoSym /\ p[j].base # NoReg /\ p[j].sym # NoSym

Compiled(f) ==
    /\ OneUse(f.code)
    /\ \A path \in f.paths : \A k \in DOMAIN path :
        f.code[path[k]].base # NoReg => Reaches(f.code, path, k)

Functional == {f.code : f \in {g \in Shapes : Compiled(g)}}

\* An address is formed in one register from a page that stays in another, and
\* the page is used again.
SharedBase(p) ==
    \E k, j \in DOMAIN p :
        /\ IsAdrp(p[k]) /\ k < j /\ \A l \in k + 1 .. j - 1 : p[l].op = "lloh"
        /\ p[j].op = "add" /\ p[j].base = p[k].dst /\ p[j].dst # p[k].dst
        /\ \E l \in DOMAIN p \ {j} : p[l].base = p[k].dst

\* An ADRP with an addend has its uses before it, or after the next ADRP into
\* the same register.
UsedElsewhere(p) ==
    \E k \in DOMAIN p :
        LET uses == {j \in DOMAIN p : p[j].base = p[k].dst /\ p[j].sym = p[k].sym}
            seen(j) == j > k /\ \A l \in k + 1 .. j : ~ (IsAdrp(p[l]) /\ p[l].dst = p[k].dst)
        IN  p[k].op = "adrp" /\ p[k].off # 0 /\ uses # {} /\ \A j \in uses : ~ seen(j)

\* Every access has a PAGEOFF, and every ADRP of a symbol the same addend.
Uniform(p) ==
    /\ \A k \in DOMAIN p : p[k].op = "load" => p[k].sym # NoSym
    /\ \A k, j \in DOMAIN p : p[k].op = "adrp" /\ p[j].op = "adrp" => p[k].off = p[j].off

\* The functions of each family without the other; either set is enough to break
\* SameAddress.
SharedBasePrograms == {p \in Functional : Uniform(p) /\ ~ UsedElsewhere(p)}
AddendPrograms == {p \in Functional : Uniform(p) /\ ~ SharedBase(p)}
SharedPrograms == SharedBasePrograms \cup AddendPrograms

=============================================================================
