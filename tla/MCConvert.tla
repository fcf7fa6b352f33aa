------------------------------- MODULE MCConvert -------------------------------
(***************************************************************************)
(* Convert on functions of up to three lines of machine code, of lengths   *)
(* that fill and overfill each group, with labels between them.            *)
(***************************************************************************)
EXTENDS Convert

Text(name, comment) == [parts |-> <<>>, text |-> name, comment |-> comment]
MCHeader == <<Text("", "plain")>>

\* Lengths of instructions; 0 stands for a label.
Shapes == UNION {[1 .. n -> {0, 1, 3, 7, 8, 12}] : n \in 1 .. 3}
Shapes64 == {<<4, 4>>, <<0, 4, 0>>, <<4, 0, 4>>, <<0>>}

Start(s, k) == FoldSeq(+, 0, SubSeq(s, 1, k - 1))
Bytes(s, k) == [b \in 1 .. s[k] |-> Start(s, k) + b]

\* Code and, on arm64, decoded instructions have the source's line as a comment,
\* which may have a width in it (DWORD PTR); other lines have none.
Comment(k) == IF k % 2 = 0 THEN "width" ELSE "plain"
LastLine(target, k) ==
    IF target = "arm64" THEN Text("ADD", Comment(k)) ELSE Text("JMP", "none")
Output(target, s) ==
    <<Text("TEXT", "none")>> \o
    [k \in DOMAIN s |-> IF s[k] = 0 THEN Text("label", "none") ELSE Raw(target, Bytes(s, k), Comment(k))]
    \o IF Len(s) = 3 THEN <<>> ELSE <<LastLine(target, Len(s))>>

Options == SUBSET {"strip", "compact", "format"}

Command(target, o, accepted, lines) ==
    [target |-> target, options |-> o, accepted |-> accepted, lines |-> lines]

MCCommands ==
    {Command("amd64", o, TRUE, Output("amd64", s)) : s \in Shapes, o \in Options}
    \cup {Command("arm64", o, TRUE, Output("arm64", s)) : s \in Shapes64, o \in Options}
    \cup {Command("amd64", o, accepted, <<>>) : o \in Options, accepted \in BOOLEAN}

MCPrevious == {<<>>, <<Text("a", "none"), Text("b", "none"), Text("c", "none"), Text("d", "none"),
                       Text("e", "none"), Text("f", "none"), Text("g", "none")>>}
=============================================================================
