------------------------------- MODULE DataLines -------------------------------
(***************************************************************************)
(* EmitTables of internal/asm/constants.go: constant tables as lines of Go *)
(* assembly.                                                               *)
(*                                                                         *)
(* A table is a run of bytes, some of them symbol references.  Go's linker *)
(* lays a symbol out from its DATA lines alone, so the lines of a table    *)
(* must follow each other without gap or overlap up to the size in its     *)
(* GLOBL line, and a reference must have a line of its own.                *)
(***************************************************************************)
EXTENDS Integers, Sequences

CONSTANTS
    Name,       \* spellings of labels and symbols
    Strip       \* strings.TrimPrefix(name, "_")

NoName == "none"
Byte == 0 .. 255
Widths == {1, 2, 4, 8}

\* Offsets may be negative until the conversion has checked them.  `name' is
\* the symbol as the source spells it, sym what parseReloc makes of it.
Reloc == [offset : Nat, width : Widths, name : Name, sym : Name, add : Int, sub : Name \cup {NoName}]
NoReloc == [offset |-> 0, width |-> 0]

ASSUME StripAssumption ==
    /\ Strip \in [Name -> Name]
    /\ NoName \notin Name

VARIABLES
    tables,     \* the tables: labels, data, relocs (a set) and writable
    t,          \* the table being emitted
    pos,        \* the position in it
    lines       \* its DATA lines so far

emission == <<t, pos, lines>>

-----------------------------------------------------------------------------
\* Labels of the table that a lookup of sym may return.
Matching(table, sym) == {l \in DOMAIN table.labels : sym \in {l, Strip[l]}}

\* dataLabelLocation: the first table with a match, and in it whichever match
\* the iteration over the map meets first.
Locations(sym) ==
    UNION {{[table |-> k, offset |-> tables[k].labels[l]] : l \in Matching(tables[k], sym)} :
             k \in {n \in DOMAIN tables : \A m \in 1 .. n - 1 : Matching(tables[m], sym) = {}}}

\* relocExpr: a place in a table, or a symbol of the program (table 0).
Targets(r) ==
    IF Locations(r.sym) = {} THEN {[table |-> 0, sym |-> r.sym, offset |-> r.add]}
    ELSE {[table |-> l.table, sym |-> NoName, offset |-> l.offset + r.add] : l \in Locations(r.sym)}

AllZero(data) == \A k \in DOMAIN data : data[k] = 0

\* A table that needs no DATA lines.
Blank(table) == table.writable /\ table.relocs = {} /\ AllZero(table.data)

Size(table) == ((Len(table.data) + 7) \div 8) * 8

Padded(table, p) == IF p < Len(table.data) THEN table.data[p + 1] ELSE 0

Here == tables[t]

\* The references not yet emitted, and among them the next in the sorted order.
Left == {r \in Here.relocs : \A k \in DOMAIN lines : lines[k].reloc # r}
IsNext(r) == r \in Left /\ \A q \in Left : r.offset <= q.offset

\* Where the bytes from here must stop: at the next reference or the end.
End ==
    IF \E r \in Left : IsNext(r) /\ r.offset > pos
    THEN (CHOOSE r \in Left : IsNext(r)).offset
    ELSE Size(Here)

\* Wrong variant: only the alignment is looked at.
FitsAligned(width) == pos % width = 0

Fits(width) == pos % width = 0 /\ pos + width <= End

\* 8, halved until it fits.
Width == CHOOSE w \in Widths : /\ w = 1 \/ Fits(w)
                               /\ \A v \in Widths : v > w => ~ Fits(v)

Emit(width, bytes, r, target) ==
    /\ lines' = Append(lines, [pos |-> pos, width |-> width, bytes |-> bytes,
                               reloc |-> r, target |-> target])
    /\ pos' = pos + width
    /\ UNCHANGED <<tables, t>>

Emitting == t <= Len(tables) /\ ~ Blank(Here) /\ pos < Size(Here)

EmitReloc ==
    /\ Emitting
    /\ \E r \in Left :
         /\ IsNext(r) /\ r.offset = pos
         /\ \E target \in Targets(r) : Emit(r.width, <<>>, r, target)

EmitBytes ==
    /\ Emitting
    /\ \A r \in Left : IsNext(r) => r.offset # pos
    /\ Emit(Width, [k \in 1 .. Width |-> Padded(Here, pos + k - 1)], NoReloc, {})

\* The GLOBL line, with the size of the padded table.
EmitGlobl ==
    /\ t <= Len(tables)
    /\ Blank(Here) \/ pos >= Size(Here)
    /\ t' = t + 1
    /\ pos' = 0
    /\ lines' = <<>>
    /\ UNCHANGED tables

EmitNext == EmitReloc \/ EmitBytes \/ EmitGlobl

-----------------------------------------------------------------------------
(***************************************************************************)
(* What EmitTables is given.  collectConstTables and resolveConstRelocs    *)
(* see to it: a reference left in a table takes eight bytes of its data,   *)
(* which no other reference takes.                                         *)
(***************************************************************************)
Apart(r, q) == r.offset + r.width <= q.offset \/ q.offset + q.width <= r.offset

Emittable(table) ==
    /\ table.data \in Seq(Byte)
    /\ table.relocs \subseteq Reloc
    /\ \A r \in table.relocs :
         /\ r.width = 8 /\ r.offset + r.width <= Len(table.data)
         /\ \A q \in table.relocs : q = r \/ Apart(r, q)

\* EmitTables on such tables.
LinesInit ==
    /\ tables \in Seq({tables[k] : k \in DOMAIN tables})
    /\ \A k \in DOMAIN tables : Emittable(tables[k])
    /\ t = 1 /\ pos = 0 /\ lines = <<>>

LinesSpec == LinesInit /\ [][EmitNext]_<<tables, emission>>

\* The DATA lines follow each other from 0 on; a line has a reference, at its
\* place, or the bytes of the padded table, where there is no reference.
LineHolds(table, line) ==
    IF line.reloc \in table.relocs
    THEN line.pos = line.reloc.offset /\ line.width = line.reloc.width
    ELSE /\ line.width \in Widths /\ line.bytes \in Seq(Byte)
         /\ Len(line.bytes) = line.width
         /\ \A k \in 1 .. line.width : line.bytes[k] = Padded(table, line.pos + k - 1)
         /\ \A r \in table.relocs :
              r.offset + r.width <= line.pos \/ line.pos + line.width <= r.offset

Tiled ==
    t <= Len(tables) =>
        /\ \A k \in DOMAIN lines :
             /\ LineHolds(Here, lines[k])
             /\ lines[k].pos = IF k = 1 THEN 0 ELSE lines[k - 1].pos + lines[k - 1].width
        /\ pos = IF lines = <<>> THEN 0 ELSE lines[Len(lines)].pos + lines[Len(lines)].width
        /\ pos <= Size(Here)
        /\ pos = Size(Here) => Left = {}
=============================================================================
