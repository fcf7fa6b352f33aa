------------------------------ MODULE ConstTables ------------------------------
(***************************************************************************)
(* Constant tables: internal/asm/constants.go and the references to them   *)
(* from amd64 code in internal/asm/rewrite.go.                             *)
(*                                                                         *)
(* collectConstTables reads the lines of the source once, lifting what     *)
(* lies in data sections into tables; aliases and the references between   *)
(* tables are resolved afterwards, then those of the code, and EmitTables  *)
(* (module DataLines) writes the tables out.  One action per line, alias,  *)
(* reference and DATA line.                                                *)
(***************************************************************************)
EXTENDS DataLines, FiniteSets

CONSTANTS
    Functions,      \* the functions of the program, by their Go names
    Programs        \* the sources considered: sequences of lines

(***************************************************************************)
(* A line of the source.  op is                                            *)
(*   section     a section directive, of the section named                 *)
(*   common      .comm, .lcomm, .zerofill: size zero bytes at an alignment *)
(*   set         an alias                                                  *)
(*   bytes       strings and base64, decoded                               *)
(*   number      one of .byte ... .quad with a number                      *)
(*   symbol      the same with an expression sym+add or sym-sub            *)
(*   unsupported the same with any other expression                        *)
(*   zero, align                                                           *)
(*   label                                                                 *)
(*   lea, gotmov, gotuse, access, odd   instructions that name a symbol    *)
(***************************************************************************)
\* The section names that contain one of the markers of isDataSection.
DataSections == {"data", "bss", "rodata", "cstring", "const", ".data", ".bss", ".rodata",
                 ".data.rel.ro", "__DATA,__data", "__DATA,__const", "__TEXT,__const",
                 ".text.f.constprop"}

\* Directives of their own, without the arguments that isWritableDataSection
\* looks at; .data and .bss are known without any.
BareSections == {"rodata", "cstring", "const"}

isDataSection(n) == n.section \in DataSections

\* w is the flag "w" of an ELF section.
isWritableDataSection(n) ==
    \/ n.section \in {"data", "bss"}
    \/ n.section # ".data.rel.ro" /\ (n.w \/ n.section \in {".data", ".bss", "__DATA,__data"})

Dot == "."

SourceLine ==
    [op : {"section", "common", "set", "bytes", "number", "symbol", "unsupported", "zero", "align",
           "label", "lea", "gotmov", "gotuse", "access", "odd"},
     name : Name \cup {NoName}, sym : Name, add : Int, sub : Name \cup {NoName},
     width : Nat, val : Int, size : Nat, bytes : Seq(Byte), section : STRING, w : BOOLEAN]

\* Directives give numbers their width, and what can be named has a name.
\* A size or an alignment that is no positive number counts as zero.
ASSUME ProgramsAssumption ==
    \A p \in Programs :
        /\ p \in Seq(SourceLine)
        /\ \A k \in DOMAIN p :
             /\ p[k].op \in {"number", "symbol"} => p[k].width \in Widths
             /\ p[k].op \in {"label", "common", "set"} => p[k].name \in Name

VARIABLES
    program,    \* the source
    phase,      \* "scan", "aliases", "relocs", "code", "emit", "done" or "failed"
    line,       \* the line being read
    cur,        \* the table being filled, if any: a sequence of at most one
    inData,     \* whether the lines read are data
    aliases,    \* aliases not resolved yet, with their expressions
    todo,       \* those the current round has still to visit
    rounds,     \* rounds left
    progress,   \* whether this round resolved one
    unbound,    \* references of tables still to be looked at
    addresses   \* what the code's references became

resolution == <<aliases, todo, rounds, progress, unbound, addresses>>
vars == <<program, phase, line, cur, inData, aliases, todo, rounds, progress, unbound,
          addresses, tables, t, pos, lines>>

-----------------------------------------------------------------------------
With(f, x, v) == [y \in DOMAIN f \cup {x} |-> IF y = x THEN v ELSE f[y]]
Without(f, x) == [y \in DOMAIN f \ {x} |-> f[y]]

\* The k-th byte of a number, two's complement; numbers here fit in 24 bits.
NumberByte(v, k) == IF k < 3 THEN (v \div 256 ^ k) % 256 ELSE IF v < 0 THEN 255 ELSE 0
LittleEndian(v, width) == [k \in 1 .. width |-> NumberByte(v, k - 1)]
Zeros(n) == [k \in 1 .. n |-> 0]

\* Bytes up to the next multiple of align.
Padding(data, align) == Zeros(IF align > 0 THEN (- Len(data)) % align ELSE 0)

Current == program[line]

NewTable(writable) ==
    [labels |-> <<>>, data |-> <<>>, from |-> <<>>, relocs |-> {}, writable |-> writable]

\* `from', which the code does not have, is the line each byte comes from, 0
\* for padding.
ExtendedFrom(source, table, bytes) ==
    [table EXCEPT !.data = @ \o bytes, !.from = @ \o [k \in DOMAIN bytes |-> source]]
Extended(table, bytes) == ExtendedFrom(line, table, bytes)
Labelled(table, l) == [table EXCEPT !.labels = With(@, l, Len(table.data))]

\* Wrong variant: empty tables are kept.
FlushedEmpty == tables \o cur

\* flush: an empty table is dropped, its labels with it.
Flushed == IF cur # <<>> /\ cur[1].data # <<>> THEN tables \o cur ELSE tables

\* Wrong variant: whatever table is open is taken.
ReusesAny(writable) == cur # <<>>

Reuses(writable) == cur # <<>> /\ cur[1].writable = writable

Collecting == inData /\ cur # <<>>

Read(newTables, newCur, newInData) ==
    /\ tables' = newTables
    /\ cur' = newCur
    /\ inData' = newInData
    /\ line' = line + 1
    /\ UNCHANGED <<program, phase, t, pos, lines, todo, rounds, progress, unbound, addresses>>

ReadInto(table) == Read(tables, <<table>>, inData) /\ UNCHANGED aliases

Fail ==
    /\ phase' = "failed"
    /\ UNCHANGED <<program, line, cur, inData, tables, resolution, emission>>

Scanning == phase = "scan" /\ line <= Len(program)

-----------------------------------------------------------------------------
Init ==
    /\ program \in Programs
    /\ phase = "scan"
    /\ line = 1
    /\ cur = <<>>
    /\ inData = FALSE
    /\ aliases = <<>>
    /\ todo = {}
    /\ rounds = 0
    /\ progress = FALSE
    /\ unbound = {}
    /\ addresses = {}
    /\ tables = <<>>
    /\ t = 1
    /\ pos = 0
    /\ lines = <<>>

(***************************************************************************)
(* collectConstTables, the lines.                                          *)
(***************************************************************************)
DataSection ==
    /\ Scanning /\ Current.op = "section" /\ isDataSection(Current)
    /\ Current.section \notin BareSections
    /\ LET w == isWritableDataSection(Current)
       IN  IF Reuses(w) THEN Read(tables, cur, TRUE) ELSE Read(Flushed, <<NewTable(w)>>, TRUE)
    /\ UNCHANGED aliases

\* The slice of no arguments from the second on is out of range: a panic, which
\* Run recovers and reports.
RejectSection ==
    /\ Scanning /\ Current.op = "section" /\ Current.section \in BareSections
    /\ Fail

\* Wrong variant: the open table stays open.
TextSectionOpen ==
    /\ Scanning /\ Current.op = "section" /\ ~ isDataSection(Current)
    /\ Read(tables, cur, inData)
    /\ UNCHANGED aliases

TextSection ==
    /\ Scanning /\ Current.op = "section" /\ ~ isDataSection(Current)
    /\ Read(Flushed, <<>>, FALSE)
    /\ UNCHANGED aliases

\* Wrong variant: the name is placed before the padding.
CommonUnpadded ==
    /\ Scanning /\ Current.op = "common"
    /\ LET table == IF Reuses(TRUE) THEN cur[1] ELSE NewTable(TRUE)
           named == Labelled(table, Current.name)
           aligned == ExtendedFrom(0, named, Padding(table.data, Current.width))
       IN  Read(IF Reuses(TRUE) THEN tables ELSE Flushed, <<Extended(aligned, Zeros(Current.size))>>, TRUE)
    /\ UNCHANGED aliases

\* .comm, .lcomm and .zerofill name their own section: they open a writable
\* table, or use the one that is open, and leave it open.
Common ==
    /\ Scanning /\ Current.op = "common"
    /\ LET table == IF Reuses(TRUE) THEN cur[1] ELSE NewTable(TRUE)
           aligned == ExtendedFrom(0, table, Padding(table.data, Current.width))
       IN  Read(IF Reuses(TRUE) THEN tables ELSE Flushed,
                <<Extended(Labelled(aligned, Current.name), Zeros(Current.size))>>, TRUE)
    /\ UNCHANGED aliases

SetAlias ==
    /\ Scanning /\ Current.op = "set"
    /\ aliases' = With(aliases, Current.name,
                       [name |-> Current.sym, sym |-> Strip[Current.sym],
                        add |-> Current.add, sub |-> Current.sub])
    /\ Read(tables, cur, inData)

\* What a line adds to the open table.
DataOf(n) ==
    CASE n.op = "bytes"  -> n.bytes
      [] n.op = "number" -> LittleEndian(n.val, n.width)
      [] n.op = "symbol" -> Zeros(n.width)
      [] n.op = "zero"   -> Zeros(n.size)
      [] n.op = "align"  -> Padding(cur[1].data, n.width)

PutBytes ==
    /\ Scanning /\ Collecting
    /\ Current.op \in {"bytes", "number", "zero", "align"}
    /\ ReadInto(Extended(cur[1], DataOf(Current)))

PutReloc ==
    /\ Scanning /\ Collecting /\ Current.op = "symbol"
    /\ LET r == [offset |-> Len(cur[1].data), width |-> Current.width, name |-> Current.sym,
                 sym |-> Strip[Current.sym], add |-> Current.add,
                 sub |-> IF Current.sub = NoName THEN NoName ELSE Strip[Current.sub]]
       IN  ReadInto([Extended(cur[1], DataOf(Current)) EXCEPT !.relocs = @ \cup {r}])

RejectData ==
    /\ Scanning /\ Collecting /\ Current.op = "unsupported"
    /\ Fail

Label ==
    /\ Scanning /\ Collecting /\ Current.op = "label"
    /\ ReadInto(Labelled(cur[1], Current.name))

Skip ==
    /\ Scanning
    /\ \/ Current.op \in {"lea", "gotmov", "gotuse", "access", "odd"}
       \/ Current.op \notin {"section", "common", "set"} /\ ~ Collecting
    /\ Read(tables, cur, inData)
    /\ UNCHANGED aliases

EndScan ==
    /\ phase = "scan" /\ line > Len(program)
    /\ phase' = "aliases"
    /\ tables' = Flushed
    /\ cur' = <<>>
    /\ inData' = FALSE
    /\ todo' = DOMAIN aliases
    /\ rounds' = Cardinality(DOMAIN aliases)
    /\ UNCHANGED <<program, line, aliases, progress, unbound, addresses, emission>>

(***************************************************************************)
(* collectConstTables, the aliases: as many rounds as there are aliases,   *)
(* in each round every alias that is left, in any order.                   *)
(***************************************************************************)
Resolving == phase = "aliases" /\ rounds > 0

SkipAlias ==
    /\ Resolving
    /\ \E a \in todo :
         /\ aliases[a].sub # NoName \/ Locations(aliases[a].sym) = {}
         /\ todo' = todo \ {a}
    /\ UNCHANGED <<program, phase, line, cur, inData, aliases, rounds, progress, unbound,
                   addresses, tables, emission>>

ResolveAlias ==
    /\ Resolving
    /\ \E a \in todo :
         /\ aliases[a].sub = NoName
         /\ \E l \in Locations(aliases[a].sym) :
              LET offset == l.offset + aliases[a].add
              IN  /\ offset >= 0
                  /\ tables' = [tables EXCEPT ![l.table].labels = With(@, a, offset)]
         /\ aliases' = Without(aliases, a)
         /\ todo' = todo \ {a}
    /\ progress' = TRUE
    /\ UNCHANGED <<program, phase, line, cur, inData, rounds, unbound, addresses, emission>>

RejectAlias ==
    /\ Resolving
    /\ \E a \in todo :
         /\ aliases[a].sub = NoName
         /\ \E l \in Locations(aliases[a].sym) : l.offset + aliases[a].add < 0
    /\ Fail

\* Wrong variant: one round.
AnotherNever == FALSE

Another == progress /\ rounds > 1

\* Wrong variant: rounds go on until every alias is resolved.
NextRoundUntilNone ==
    /\ Resolving /\ todo = {} /\ aliases # <<>>
    /\ todo' = DOMAIN aliases
    /\ progress' = FALSE
    /\ UNCHANGED <<program, phase, line, cur, inData, aliases, rounds, unbound, addresses, tables, emission>>

NextRound ==
    /\ Resolving /\ todo = {} /\ Another
    /\ rounds' = rounds - 1
    /\ todo' = DOMAIN aliases
    /\ progress' = FALSE
    /\ UNCHANGED <<program, phase, line, cur, inData, aliases, unbound, addresses, tables, emission>>

\* No alias is left, or this round resolved none.
EndAliases ==
    /\ phase = "aliases"
    /\ rounds = 0 \/ (todo = {} /\ ~ Another)
    /\ phase' = "relocs"
    /\ unbound' = UNION {{[table |-> k, reloc |-> r] : r \in tables[k].relocs} : k \in DOMAIN tables}
    /\ UNCHANGED <<program, line, cur, inData, aliases, todo, rounds, progress, addresses, tables, emission>>

(***************************************************************************)
(* resolveConstRelocs                                                      *)
(***************************************************************************)
SideLocations(u, sym) ==
    IF sym = Dot THEN {[table |-> u.table, offset |-> u.reloc.offset]} ELSE Locations(sym)

Bound(u) ==
    /\ unbound' = unbound \ {u}
    /\ UNCHANGED <<program, phase, line, cur, inData, aliases, todo, rounds, progress,
                   addresses, emission>>

\* The difference of two labels is a number once both are in one table.
WriteDifference ==
    /\ phase = "relocs"
    /\ \E u \in unbound :
         /\ u.reloc.sub # NoName
         /\ \E left \in SideLocations(u, u.reloc.sym), right \in SideLocations(u, u.reloc.sub) :
              /\ left.table = right.table
              /\ LET bytes == LittleEndian(left.offset - right.offset, u.reloc.width)
                     o == u.reloc.offset
                 IN  tables' = [tables EXCEPT
                       ![u.table].data = [k \in DOMAIN @ |->
                           IF k \in o + 1 .. o + u.reloc.width THEN bytes[k - o] ELSE @[k]],
                       ![u.table].relocs = @ \ {u.reloc}]
         /\ Bound(u)

\* Wrong variant: a narrow reference is kept like a wide one.
KeepNarrowReloc ==
    /\ phase = "relocs"
    /\ \E u \in unbound : u.reloc.sub = NoName /\ Bound(u)
    /\ UNCHANGED tables

KeepReloc ==
    /\ phase = "relocs"
    /\ \E u \in unbound :
         /\ u.reloc.sub = NoName /\ u.reloc.width = 8
         /\ \/ Locations(u.reloc.sym) = {}
            \/ \E l \in Locations(u.reloc.sym) : l.offset + u.reloc.add >= 0
         /\ Bound(u)
    /\ UNCHANGED tables

RejectReloc ==
    /\ phase = "relocs"
    /\ \E u \in unbound :
         \/ /\ u.reloc.sub # NoName
            /\ \/ SideLocations(u, u.reloc.sym) = {} \/ SideLocations(u, u.reloc.sub) = {}
               \/ \E left \in SideLocations(u, u.reloc.sym), right \in SideLocations(u, u.reloc.sub) :
                    left.table # right.table
         \/ u.reloc.sub = NoName /\ u.reloc.width # 8
         \/ /\ u.reloc.sub = NoName
            /\ \E l \in Locations(u.reloc.sym) : l.offset + u.reloc.add < 0
    /\ Fail

EndRelocs ==
    /\ phase = "relocs" /\ unbound = {}
    /\ phase' = "code"
    /\ line' = 1
    /\ UNCHANGED <<program, cur, inData, tables, resolution, emission>>

(***************************************************************************)
(* rewriteAMD64SymbolReferences: instructions with a RIP-relative operand. *)
(***************************************************************************)

\* tableFor: the first table with exactly this label.
TableFor(name) ==
    {[table |-> k, sym |-> NoName, offset |-> tables[k].labels[name]] :
        k \in {n \in DOMAIN tables : name \in DOMAIN tables[n].labels
                 /\ \A m \in 1 .. n - 1 : name \notin DOMAIN tables[m].labels}}

\* tableForAMD64
TableForAMD64(sym) == IF TableFor(sym) # {} THEN TableFor(sym) ELSE TableFor(Strip[sym])

\* Wrong variant: the displacement is lost.
PlacedAtLabel(place, add) == place

Placed(place, add) == [place EXCEPT !.offset = @ + add]

\* The address an operand stands for: a place in a table before a function.
Address(n) ==
    IF TableForAMD64(n.sym) # {} THEN {Placed(p, n.add) : p \in TableForAMD64(n.sym)}
    ELSE {Placed([table |-> 0, sym |-> f, offset |-> 0], n.add) : f \in Functions \cap {Strip[n.sym]}}

AtReference == phase = "code" /\ line <= Len(program)
                 /\ Current.op \in {"lea", "gotmov", "gotuse", "access", "odd"}

\* lea, and mov from the GOT, load the address; other instructions access it.
RewriteReference ==
    /\ AtReference
    /\ \E a \in Address(Current) :
         /\ \/ Current.op \in {"lea", "gotmov"}
            \/ Current.op = "access" /\ a.table # 0
         /\ addresses' = addresses \cup {[line |-> line, address |-> a]}
    /\ line' = line + 1
    /\ UNCHANGED <<program, phase, cur, inData, aliases, todo, rounds, progress, unbound, tables, emission>>

RejectReference ==
    /\ AtReference
    /\ \/ Current.op \in {"gotuse", "odd"}
       \/ Address(Current) = {}
       \/ Current.op = "access" /\ \E a \in Address(Current) : a.table = 0
    /\ Fail

SkipLine ==
    /\ phase = "code" /\ line <= Len(program)
    /\ Current.op \notin {"lea", "gotmov", "gotuse", "access", "odd"}
    /\ line' = line + 1
    /\ UNCHANGED <<program, phase, cur, inData, tables, resolution, emission>>

EndCode ==
    /\ phase = "code" /\ line > Len(program)
    /\ phase' = "emit"
    /\ UNCHANGED <<program, line, cur, inData, tables, resolution, emission>>

EmitTables ==
    /\ phase = "emit"
    /\ EmitNext
    /\ UNCHANGED <<program, phase, line, cur, inData, resolution>>

EndEmit ==
    /\ phase = "emit" /\ t > Len(tables)
    /\ phase' = "done"
    /\ UNCHANGED <<program, line, cur, inData, tables, resolution, emission>>

Next ==
    \/ DataSection \/ RejectSection \/ TextSection \/ Common \/ SetAlias
    \/ PutBytes \/ PutReloc \/ RejectData
    \/ Label \/ Skip \/ EndScan
    \/ SkipAlias \/ ResolveAlias \/ RejectAlias \/ NextRound \/ EndAliases
    \/ WriteDifference \/ KeepReloc \/ RejectReloc \/ EndRelocs
    \/ RewriteReference \/ RejectReference \/ SkipLine \/ EndCode
    \/ EmitTables \/ EndEmit

Spec == Init /\ [][Next]_vars /\ WF_vars(Next)
-----------------------------------------------------------------------------
(***************************************************************************)
(* What the source means to its assembler: a section directive holds until *)
(* the next one, and .comm, .lcomm and .zerofill allocate elsewhere.       *)
(***************************************************************************)
SectionOf(k) ==
    {j \in 1 .. k - 1 : program[j].op = "section"
                          /\ \A i \in j + 1 .. k - 1 : program[i].op # "section"}
IsData(k) == \E j \in SectionOf(k) : program[j].section \in DataSections \ {".text.f.constprop"}
IsWritable(k) == \E j \in SectionOf(k) : isWritableDataSection(program[j])

\* The place add bytes on.
Beyond(p, add) == [p EXCEPT !.offset = @ + add]

\* The number of bytes line k defines.
Bytes(k) ==
    CASE program[k].op = "bytes" -> Len(program[k].bytes)
      [] program[k].op \in {"number", "symbol"} -> program[k].width
      [] program[k].op \in {"zero", "common"} -> program[k].size
      [] OTHER -> 0

PlacesOf(k) ==
    UNION {{[table |-> n, sym |-> NoName, offset |-> p - 1] :
             p \in {q \in DOMAIN tables[n].from : tables[n].from[q] = k}} : n \in DOMAIN tables}

Collected == phase \notin {"scan", "failed"}

\* Type invariant.
TypeOK ==
    /\ phase \in {"scan", "aliases", "relocs", "code", "emit", "done", "failed"}
    /\ line \in 1 .. Len(program) + 1
    /\ Len(cur) <= 1 /\ inData \in BOOLEAN /\ (inData => cur # <<>>)
    /\ todo \subseteq DOMAIN aliases
    /\ rounds \in Nat /\ progress \in BOOLEAN
    /\ \A k \in DOMAIN tables : tables[k].data # <<>> /\ Len(tables[k].from) = Len(tables[k].data)
    /\ \A table \in {tables[k] : k \in DOMAIN tables} \cup {cur[k] : k \in DOMAIN cur} :
         table.data \in Seq(Byte) /\ \A l \in DOMAIN table.labels : table.labels[l] \in Nat
    /\ t \in 1 .. Len(tables) + 1 /\ pos \in Nat

Defines(k) == (IsData(k) \/ program[k].op = "common") /\ Bytes(k) > 0

\* The lines that give a name a place.
DefinedAt(name) == {k \in DOMAIN program : program[k].op \in {"label", "common", "set"} /\ program[k].name = name}

\* The lines whose names stand at the bytes of line k.
LabelsAt(k) ==
    IF program[k].op = "common" THEN {k} ELSE {j \in {k - 1} \cap DOMAIN program : program[j].op = "label"}

\* The names a line gives a place, and those it uses.
Gives(n) == {x \in {n.name} : n.op \in {"label", "common", "set"}}
Uses(n) ==
    {x \in {n.sym, n.sub} \ {NoName} :
        n.op \in {"set", "symbol", "lea", "gotmov", "gotuse", "access", "odd"}}

\* Names as compilers write them: each is defined once, and none is told from
\* another only by the underscore that parseReloc and tableForAMD64 strip.
Distinct(p) ==
    \A i, j \in DOMAIN p :
        /\ Gives(p[i]) \cap Gives(p[j]) # {} => i = j
        /\ \A x \in Gives(p[i]), y \in Gives(p[j]) \cup Uses(p[j]) :
             {x, Strip[x]} \cap {y, Strip[y]} # {} => x = y
        /\ \A y \in Uses(p[j]) : Strip[y] = Dot => y = Dot

\* Sources in which a label that collectConstTables reads as data, since a data
\* section or a common, is data to the assembler too.
ReadAsData(p, k) ==
    \E j \in 1 .. k - 1 :
        /\ p[j].op = "common" \/ (p[j].op = "section" /\ isDataSection(p[j]))
        /\ \A i \in j + 1 .. k - 1 : p[i].op # "section"
PlainText(p) ==
    \A k \in DOMAIN p : p[k].op = "label" /\ ReadAsData(p, k) =>
        \E j \in 1 .. k - 1 :
            /\ p[j].op = "section" /\ p[j].section \in DataSections \ {".text.f.constprop"}
            /\ \A i \in j + 1 .. k - 1 : p[i].op # "section"

\* The bytes of a line that defines data are in one table, once and together,
\* and what is writable is in a writable table.
BytesKept ==
    Collected => \A k \in DOMAIN program : Defines(k) =>
        /\ Cardinality(PlacesOf(k)) = Bytes(k)
        /\ \A p, q \in PlacesOf(k) : p.table = q.table /\ p.offset - q.offset < Bytes(k)
        /\ \A p \in PlacesOf(k) : IsWritable(k) \/ program[k].op = "common" => tables[p.table].writable

\* A label that is defined once stands at the first of the bytes that follow
\* it, whatever sections, commons and aliases lie between it and its use.
LabelsStand ==
    Collected => \A k \in DOMAIN program : Defines(k) => \A j \in LabelsAt(k) :
        DefinedAt(program[j].name) = {j} =>
            \E p \in PlacesOf(k) :
                /\ TableFor(program[j].name) = {p}
                /\ \A q \in PlacesOf(k) : p.offset <= q.offset

\* Once the aliases are resolved, an alias of anything in a table, itself an
\* alias or not, stands at the right distance from it, whatever the order in
\* which the map of aliases was gone through.
AliasesResolved ==
    Collected /\ phase # "aliases" => \A k \in DOMAIN program :
        LET n == program[k]
        IN  /\ n.op = "set" /\ n.sub = NoName
            /\ \A j \in k + 1 .. Len(program) : ~ (program[j].op = "set" /\ program[j].name = n.name)
            => TableFor(n.name) = {Beyond(p, n.add) : p \in TableFor(n.sym)}

\* A reference leads to the label it is spelled with: the bytes of a label
\* difference, the target in a DATA line, and the address in the code.
ReferencesKept ==
    /\ phase \in {"code", "emit", "done"} => \A k \in DOMAIN program :
         program[k].op = "symbol" /\ IsData(k) /\ {program[k].sym, program[k].sub} \cap {NoName, Dot} = {} =>
             \A p \in PlacesOf(k), q \in TableFor(program[k].sym), r \in TableFor(program[k].sub) :
                 (\A m \in PlacesOf(k) : p.offset <= m.offset) =>
                     tables[p.table].data[p.offset + 1] = NumberByte(q.offset - r.offset, 0)
    /\ \A k \in DOMAIN lines : lines[k].reloc # NoReloc =>
         LET home == TableFor(lines[k].reloc.name)
         IN  IF home = {} THEN lines[k].target.table = 0
             ELSE home = {Beyond(lines[k].target, - lines[k].reloc.add)}
    /\ \A a \in addresses :
         LET home == TableFor(program[a.line].sym)
         IN  IF home = {} THEN a.address.table = 0
             ELSE home = {Beyond(a.address, - program[a.line].add)}

\* The address of a label of code is that of the code, never a place in a
\* table of data.
CodeStaysCode ==
    \A a \in addresses, k \in DOMAIN program :
        /\ program[k].op = "label" /\ ~ IsData(k)
        /\ program[a.line].sym = program[k].name
        => a.address.table = 0

\* What is handed to EmitTables is what its proof assumes.
TablesEmittable ==
    phase = "emit" => \A k \in DOMAIN tables : Emittable(tables[k])

\* The conversion of constants ends, also when aliases form a cycle.
Terminates == <>(phase \in {"done", "failed"})
=============================================================================
