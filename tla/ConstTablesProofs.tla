---------------------------- MODULE ConstTablesProofs ----------------------------
(***************************************************************************)
(* The conversion of constants hands EmitTables only tables it can emit,   *)
(* for every source, so the DATA lines of the whole program tile them.     *)
(***************************************************************************)
EXTENDS ConstTables, DataLinesProofs, FiniteSetTheorems, SequenceTheorems

(***************************************************************************)
(* The types.  A table is sound if its references lie in its data and      *)
(* apart from each other.                                                  *)
(***************************************************************************)
Spelling == Name \cup {NoName}
LabelMaps == UNION {[S -> Nat] : S \in SUBSET Spelling}

Table == [labels : LabelMaps, data : Seq(Byte), from : Seq(Nat),
          relocs : SUBSET Reloc, writable : BOOLEAN]

Within(table) == \A r \in table.relocs : r.offset + r.width <= Len(table.data)
Spread(table) == \A r, q \in table.relocs : q = r \/ Apart(r, q)

SoundTable ==
    {table \in Table : /\ Len(table.from) = Len(table.data)
                       /\ Within(table)
                       /\ Spread(table)}

Alias == [name : Name, sym : Name, add : Int, sub : Name \cup {NoName}]
AliasMaps == UNION {[S -> Alias] : S \in SUBSET Name}

Phases == {"scan", "aliases", "relocs", "code", "emit", "done", "failed"}

(***************************************************************************)
(* The inductive invariant.                                                *)
(***************************************************************************)
Source == program \in Programs /\ line \in 1 .. Len(program) + 1 /\ phase \in Phases

Tables ==
    /\ tables \in Seq(SoundTable)
    /\ \A k \in DOMAIN tables : tables[k].data # <<>>
    /\ cur \in Seq(SoundTable) /\ Len(cur) <= 1
    /\ inData \in BOOLEAN /\ (inData => cur # <<>>)

Resolution ==
    /\ aliases \in AliasMaps /\ IsFiniteSet(DOMAIN aliases)
    /\ todo \subseteq DOMAIN aliases /\ (phase = "scan" => todo = {})
    /\ rounds \in Nat /\ progress \in BOOLEAN

\* A reference that is narrower than an address has still to be resolved.
References ==
    /\ phase = "relocs" =>
         /\ unbound \subseteq [table : Nat, reloc : Reloc]
         /\ \A u \in unbound : u.table \in DOMAIN tables /\ u.reloc \in tables[u.table].relocs
         /\ \A k \in DOMAIN tables : \A r \in tables[k].relocs :
              r.width = 8 \/ [table |-> k, reloc |-> r] \in unbound
    /\ phase \in {"code", "emit", "done"} =>
         \A k \in DOMAIN tables : \A r \in tables[k].relocs : r.width = 8

Idle == t = 1 /\ pos = 0 /\ lines = <<>>

Emission ==
    /\ phase \notin {"emit", "done"} => Idle
    /\ phase \in {"emit", "done"} => IInv
    /\ t > Len(tables) => pos = 0

TInv == Source /\ Tables /\ Resolution /\ References /\ Emission

-----------------------------------------------------------------------------
(***************************************************************************)
(* Facts about the operators.                                              *)
(***************************************************************************)
LEMMA CurrentFacts ==
    ASSUME Source, line <= Len(program)
    PROVE  /\ Current \in SourceLine
           /\ Current.op \in {"number", "symbol"} => Current.width \in Widths
           /\ Current.op \in {"label", "common", "set"} => Current.name \in Name
           /\ line \in Nat /\ line + 1 \in 1 .. Len(program) + 1
<1>1. program \in Seq(SourceLine) /\ line \in DOMAIN program /\ Len(program) \in Nat
  BY ProgramsAssumption DEF Source
<1>2. program[line] \in SourceLine
  BY <1>1
<1>3. /\ program[line].op \in {"number", "symbol"} => program[line].width \in Widths
      /\ program[line].op \in {"label", "common", "set"} => program[line].name \in Name
  <2>1. program \in Programs
    BY DEF Source
  <2>2. \A k \in DOMAIN program :
          /\ program[k].op \in {"number", "symbol"} => program[k].width \in Widths
          /\ program[k].op \in {"label", "common", "set"} => program[k].name \in Name
    BY <2>1, ProgramsAssumption
  <2> QED
    BY <1>1, <2>2, Zenon
<1>4. line \in Nat /\ line + 1 \in 1 .. Len(program) + 1
  BY <1>1
<1> QED
  BY <1>2, <1>3, <1>4 DEF Current

LEMMA LineFields ==
    ASSUME NEW n \in SourceLine
    PROVE  /\ n.name \in Spelling /\ n.sym \in Name /\ n.add \in Int /\ n.sub \in Spelling
           /\ n.width \in Nat /\ n.val \in Int /\ n.size \in Nat /\ n.bytes \in Seq(Byte)
           /\ n.w \in BOOLEAN
  BY DEF SourceLine, Spelling

LEMMA WidthsAreNatural == Widths \subseteq Nat /\ \A w \in Widths : w > 0
  BY DEF Widths

\* A byte of a number is a byte, and so is padding.
LEMMA NumberByteFacts ==
    ASSUME NEW v \in Int, NEW k \in Nat
    PROVE  NumberByte(v, k) \in Byte
<1>1. CASE k = 0
  <2>1. NumberByte(v, 0) = (v \div 256 ^ 0) % 256
    BY DEF NumberByte
  <2>2. 256 ^ 0 = 1
    OBVIOUS
  <2> QED
    BY <1>1, <2>1, <2>2 DEF Byte
<1>2. CASE k = 1
  <2>1. NumberByte(v, 1) = (v \div 256 ^ 1) % 256
    BY DEF NumberByte
  <2>2. 256 ^ 1 = 256
    OBVIOUS
  <2> QED
    BY <1>2, <2>1, <2>2 DEF Byte
<1>3. CASE k = 2
  <2>1. NumberByte(v, 2) = (v \div 256 ^ 2) % 256
    BY DEF NumberByte
  <2>2. 256 ^ 2 = 65536
    OBVIOUS
  <2> QED
    BY <1>3, <2>1, <2>2 DEF Byte
<1>4. CASE k >= 3
  BY <1>4 DEF NumberByte, Byte
<1> QED
  BY <1>1, <1>2, <1>3, <1>4

LEMMA LittleEndianFacts ==
    ASSUME NEW v \in Int, NEW width \in Nat
    PROVE  /\ LittleEndian(v, width) \in Seq(Byte)
           /\ Len(LittleEndian(v, width)) = width
           /\ \A k \in 1 .. width : LittleEndian(v, width)[k] \in Byte
<1>1. \A k \in 1 .. width : NumberByte(v, k - 1) \in Byte
  BY NumberByteFacts
<1> QED
  BY <1>1 DEF LittleEndian

LEMMA ZerosFacts ==
    ASSUME NEW n \in Nat
    PROVE  Zeros(n) \in Seq(Byte) /\ Len(Zeros(n)) = n
<1>1. 0 \in Byte
  BY DEF Byte
<1> QED
  BY <1>1 DEF Zeros

LEMMA PaddingFacts ==
    ASSUME NEW data \in Seq(Byte), NEW align \in Nat
    PROVE  Padding(data, align) \in Seq(Byte)
<1>1. (IF align > 0 THEN (- Len(data)) % align ELSE 0) \in Nat
  <2>1. Len(data) \in Nat
    OBVIOUS
  <2> HIDE DEF Byte
  <2>2. - Len(data) \in Int
    BY <2>1
  <2> DEFINE n == - Len(data)
  <2>3. ASSUME align > 0 PROVE n % align \in Nat
    <3>1. n \in Int
      BY <2>2
    <3> HIDE DEF n
    <3> QED
      BY <2>3, <3>1
  <2> QED
    BY <2>3
<1> QED
  BY <1>1, ZerosFacts DEF Padding

LEMMA WithFacts ==
    ASSUME NEW S, NEW T, NEW f \in UNION {[D -> T] : D \in SUBSET S}, NEW x \in S, NEW v \in T
    PROVE  /\ With(f, x, v) \in UNION {[D -> T] : D \in SUBSET S}
           /\ DOMAIN With(f, x, v) = DOMAIN f \cup {x}
<1>1. PICK D \in SUBSET S : f \in [D -> T]
  OBVIOUS
<1>2. With(f, x, v) \in [D \cup {x} -> T]
  BY <1>1 DEF With
<1>3. D \cup {x} \in SUBSET S
  BY <1>1
<1> QED
  BY <1>1, <1>2, <1>3

LEMMA LabelMapFacts ==
    ASSUME NEW f \in LabelMaps, NEW x \in Spelling, NEW v \in Nat
    PROVE  With(f, x, v) \in LabelMaps
  BY WithFacts DEF LabelMaps

LEMMA AliasMapFacts ==
    ASSUME NEW f \in AliasMaps
    PROVE  /\ \A x \in DOMAIN f : x \in Spelling /\ f[x].add \in Int
           /\ \A x \in Name, v \in Alias : With(f, x, v) \in AliasMaps
           /\ \A x : Without(f, x) \in AliasMaps
<1>1. \A x \in DOMAIN f : x \in Spelling /\ f[x].add \in Int
  BY DEF AliasMaps, Alias, Spelling
<1>2. \A x \in Name, v \in Alias : With(f, x, v) \in AliasMaps
  BY WithFacts DEF AliasMaps
<1>3. ASSUME NEW x PROVE Without(f, x) \in AliasMaps
  <2>1. PICK D \in SUBSET Name : f \in [D -> Alias]
    BY DEF AliasMaps
  <2>2. Without(f, x) \in [D \ {x} -> Alias] /\ D \ {x} \in SUBSET Name
    BY <2>1 DEF Without
  <2> QED
    BY <2>2 DEF AliasMaps
<1> QED
  BY <1>1, <1>2, <1>3

LEMMA NewTableFacts ==
    ASSUME NEW w \in BOOLEAN
    PROVE  /\ NewTable(w) \in SoundTable /\ NewTable(w).writable = w
           /\ NewTable(w).from = <<>> /\ NewTable(w).data = <<>>
           /\ DOMAIN NewTable(w).labels = {}
<1>1. <<>> \in LabelMaps
  <2>1. <<>> \in [{} -> Nat]
    OBVIOUS
  <2>2. {} \in SUBSET Spelling
    OBVIOUS
  <2> QED
    BY <2>1, <2>2 DEF LabelMaps
<1>2. NewTable(w) \in Table
  BY <1>1 DEF NewTable, Table
<1>3. /\ NewTable(w).relocs = {} /\ NewTable(w).from = <<>> /\ NewTable(w).data = <<>>
      /\ NewTable(w).writable = w
  BY DEF NewTable
<1>4. DOMAIN NewTable(w).labels = {}
  BY DEF NewTable
<1> QED
  BY <1>2, <1>3, <1>4 DEF SoundTable, Within, Spread

LEMMA TableFields ==
    ASSUME NEW table \in SoundTable
    PROVE  /\ table \in Table
           /\ table.labels \in LabelMaps /\ table.data \in Seq(Byte) /\ table.from \in Seq(Nat)
           /\ table.relocs \subseteq Reloc /\ table.writable \in BOOLEAN
           /\ Len(table.data) \in Nat /\ Len(table.from) = Len(table.data)
           /\ Within(table) /\ Spread(table)
<1>1. table \in Table
  BY DEF SoundTable
<1>2. /\ table.labels \in LabelMaps /\ table.data \in Seq(Byte) /\ table.from \in Seq(Nat)
      /\ table.relocs \subseteq Reloc /\ table.writable \in BOOLEAN
  BY <1>1 DEF Table
<1> QED
  BY <1>1, <1>2 DEF SoundTable

\* Bytes at the end of a table leave its references where they are.
LEMMA ExtendedFacts ==
    ASSUME NEW table \in SoundTable, NEW source \in Nat, NEW bytes \in Seq(Byte)
    PROVE  LET e == ExtendedFrom(source, table, bytes)
           IN  /\ e \in SoundTable
               /\ e.data = table.data \o bytes
               /\ e.from = table.from \o [k \in DOMAIN bytes |-> source]
               /\ e.relocs = table.relocs /\ e.labels = table.labels
               /\ e.writable = table.writable
<1> DEFINE e == ExtendedFrom(source, table, bytes)
           f == [k \in DOMAIN bytes |-> source]
<1>1. /\ table \in Table /\ table.data \in Seq(Byte) /\ table.from \in Seq(Nat)
      /\ Len(table.data) \in Nat /\ Len(table.from) = Len(table.data)
      /\ Within(table) /\ Spread(table) /\ table.relocs \subseteq Reloc
  BY TableFields
<1>2. f \in Seq(Nat) /\ Len(f) = Len(bytes)
  OBVIOUS
<1>3. table.data \o bytes \in Seq(Byte) /\ table.from \o f \in Seq(Nat)
  BY <1>1, <1>2
<1>4. Len(table.data \o bytes) = Len(table.data) + Len(bytes) /\ Len(table.from \o f) = Len(table.from) + Len(f)
  <2> HIDE DEF f
  <2> QED
    BY <1>1, <1>2, ConcatProperties
<1>5. e = [table EXCEPT !.data = table.data \o bytes, !.from = table.from \o f]
  BY DEF ExtendedFrom
<1> HIDE DEF e, f
<1>6. /\ e.data = table.data \o bytes /\ e.from = table.from \o f
      /\ e.relocs = table.relocs /\ e.labels = table.labels /\ e.writable = table.writable
  BY <1>1, <1>5 DEF Table
<1>7. e \in Table
  BY <1>1, <1>3, <1>5 DEF Table
<1>8. Len(bytes) \in Nat
  OBVIOUS
<1>9. Within(e)
  <2> SUFFICES ASSUME NEW r \in table.relocs PROVE r.offset + r.width <= Len(e.data)
    BY <1>6 DEF Within
  <2>1. r.offset + r.width <= Len(table.data)
    BY <1>1 DEF Within
  <2>2. r.offset \in Nat /\ r.width \in Nat
    BY <1>1, WidthsAreNatural DEF Reloc
  <2> QED
    BY <1>1, <1>4, <1>6, <1>8, <2>1, <2>2
<1>10. Spread(e)
  BY <1>1, <1>6 DEF Spread
<1>11. Len(e.from) = Len(e.data)
  BY <1>1, <1>2, <1>4, <1>6
<1>12. e \in SoundTable
  BY <1>7, <1>9, <1>10, <1>11 DEF SoundTable
<1> QED
  BY <1>6, <1>12 DEF e, f

\* A label more leaves all else.
LEMMA RelabelledFacts ==
    ASSUME NEW table \in SoundTable, NEW m \in LabelMaps
    PROVE  LET e == [table EXCEPT !.labels = m]
           IN  /\ e \in SoundTable
               /\ e.data = table.data /\ e.from = table.from
               /\ e.relocs = table.relocs /\ e.writable = table.writable
<1> DEFINE e == [table EXCEPT !.labels = m]
<1>1. /\ table \in Table /\ Len(table.from) = Len(table.data)
      /\ Within(table) /\ Spread(table)
  BY TableFields
<1>2. /\ e \in Table /\ e.data = table.data /\ e.from = table.from
      /\ e.relocs = table.relocs /\ e.writable = table.writable
  BY <1>1 DEF Table
<1> HIDE DEF e
<1>3. e \in SoundTable
  BY <1>1, <1>2 DEF SoundTable, Within, Spread
<1> QED
  BY <1>2, <1>3 DEF e

LEMMA LabelledFacts ==
    ASSUME NEW table \in SoundTable, NEW l \in Spelling
    PROVE  LET e == Labelled(table, l)
           IN  /\ e \in SoundTable
               /\ e.data = table.data /\ e.from = table.from
               /\ e.relocs = table.relocs /\ e.writable = table.writable
<1>1. table.labels \in LabelMaps /\ Len(table.data) \in Nat
  BY TableFields
<1>2. With(table.labels, l, Len(table.data)) \in LabelMaps
  BY <1>1, WithFacts DEF LabelMaps
<1>3. Labelled(table, l) = [table EXCEPT !.labels = With(table.labels, l, Len(table.data))]
  BY DEF Labelled
<1> QED
  BY <1>2, <1>3, RelabelledFacts

LEMMA CurFacts ==
    ASSUME Tables, cur # <<>>
    PROVE  cur[1] \in SoundTable /\ Len(cur) = 1 /\ cur = <<cur[1]>>
<1>1. cur \in Seq(SoundTable) /\ Len(cur) <= 1
  BY DEF Tables
<1>2. Len(cur) = 1
  BY <1>1, EmptySeq
<1> QED
  BY <1>1, <1>2

\* flush keeps every table that has data.
LEMMA FlushedFacts ==
    ASSUME Tables
    PROVE  /\ Flushed \in Seq(SoundTable)
           /\ \A k \in DOMAIN Flushed : Flushed[k].data # <<>>
<1>1. tables \in Seq(SoundTable) /\ cur \in Seq(SoundTable) /\ Len(cur) <= 1
  BY DEF Tables
<1>2. CASE cur # <<>> /\ cur[1].data # <<>>
  <2>1. Flushed = tables \o cur
    BY <1>2 DEF Flushed
  <2>2. Len(cur) = 1
    BY <1>2, CurFacts
  <2>3. /\ Flushed \in Seq(SoundTable) /\ Len(Flushed) = Len(tables) + 1
        /\ \A i \in 1 .. Len(tables) + 1 :
              Flushed[i] = IF i <= Len(tables) THEN tables[i] ELSE cur[i - Len(tables)]
    <3>1. /\ tables \o cur \in Seq(SoundTable) /\ Len(tables \o cur) = Len(tables) + Len(cur)
          /\ \A i \in 1 .. Len(tables) + Len(cur) :
              (tables \o cur)[i] = IF i <= Len(tables) THEN tables[i] ELSE cur[i - Len(tables)]
      BY <1>1, ConcatProperties
    <3> QED
      BY <2>1, <2>2, <3>1
  <2>4. DOMAIN Flushed = 1 .. Len(tables) + 1 /\ Len(tables) \in Nat /\ DOMAIN tables = 1 .. Len(tables)
    BY <1>1, <2>3, LenProperties
  <2>5. ASSUME NEW k \in DOMAIN Flushed PROVE Flushed[k].data # <<>>
    <3>1. CASE k \in 1 .. Len(tables)
      <4>1. Flushed[k] = tables[k] /\ k \in DOMAIN tables
        BY <2>3, <2>4, <3>1
      <4> QED
        BY <4>1 DEF Tables
    <3>2. CASE k = Len(tables) + 1
      <4>1. Flushed[k] = cur[1]
        BY <2>3, <2>4, <3>2
      <4> QED
        BY <1>2, <4>1
    <3> QED
      BY <2>4, <3>1, <3>2
  <2> QED
    BY <2>3, <2>5
<1>3. CASE ~ (cur # <<>> /\ cur[1].data # <<>>)
  BY <1>1, <1>3 DEF Flushed, Tables
<1> QED
  BY <1>2, <1>3

-----------------------------------------------------------------------------
(***************************************************************************)
(* The steps of collectConstTables.                                        *)
(***************************************************************************)
\* A line that leaves sound tables behind keeps the invariant.
LEMMA ReadKeeps ==
    ASSUME TInv, Scanning,
           NEW nt \in Seq(SoundTable), \A k \in DOMAIN nt : nt[k].data # <<>>,
           NEW nc \in Seq(SoundTable), Len(nc) <= 1,
           NEW nd \in BOOLEAN, nd => nc # <<>>,
           Read(nt, nc, nd),
           aliases' \in AliasMaps, IsFiniteSet(DOMAIN aliases')
    PROVE  TInv'
<1>1. /\ program' = program /\ phase' = "scan" /\ phase = "scan" /\ line' = line + 1
      /\ tables' = nt /\ cur' = nc /\ inData' = nd
      /\ t' = t /\ pos' = pos /\ lines' = lines
      /\ todo' = todo /\ rounds' = rounds /\ progress' = progress
  BY DEF Read, Scanning
<1>2. Source'
  <2>1. line + 1 \in 1 .. Len(program) + 1
    BY CurrentFacts DEF TInv, Scanning
  <2> QED
    BY <1>1, <2>1 DEF TInv, Source, Phases
<1>3. Tables'
  BY <1>1 DEF Tables
<1>4. Resolution'
  BY <1>1 DEF TInv, Resolution
<1>5. References'
  BY <1>1 DEF References
<1>6. Emission'
  BY <1>1 DEF TInv, Emission, Idle
<1> QED
  BY <1>2, <1>3, <1>4, <1>5, <1>6 DEF TInv

\* A line that goes into the open table.
LEMMA ReadIntoKeeps ==
    ASSUME TInv, Scanning, Collecting, NEW table \in SoundTable, ReadInto(table)
    PROVE  TInv'
<1>1. Read(tables, <<table>>, inData) /\ aliases' = aliases
  BY DEF ReadInto
<1>2. /\ tables \in Seq(SoundTable) /\ \A k \in DOMAIN tables : tables[k].data # <<>>
      /\ inData \in BOOLEAN
  BY DEF TInv, Tables
<1>3. /\ <<table>> \in Seq(SoundTable) /\ Len(<<table>>) <= 1 /\ <<table>> # <<>>
  OBVIOUS
<1>4. aliases \in AliasMaps /\ IsFiniteSet(DOMAIN aliases)
  BY DEF TInv, Resolution
<1> QED
  BY <1>1, <1>2, <1>3, <1>4, ReadKeeps

LEMMA FailKeeps ==
    ASSUME TInv, phase \notin {"emit", "done"}, Fail
    PROVE  TInv'
<1>1. /\ phase' = "failed" /\ program' = program /\ line' = line /\ cur' = cur /\ inData' = inData
      /\ tables' = tables /\ aliases' = aliases /\ todo' = todo /\ rounds' = rounds
      /\ progress' = progress /\ t' = t /\ pos' = pos /\ lines' = lines
  BY DEF Fail, resolution, emission
<1>2. Source'
  BY <1>1 DEF TInv, Source, Phases
<1>3. Tables' /\ Resolution'
  BY <1>1 DEF TInv, Tables, Resolution
<1>4. References' /\ Emission'
  BY <1>1 DEF TInv, References, Emission, Idle
<1> QED
  BY <1>2, <1>3, <1>4 DEF TInv

\* What the proofs of the steps take from the invariant.
LEMMA ScanFacts ==
    ASSUME TInv, Scanning
    PROVE  /\ Current \in SourceLine /\ Tables
           /\ Current.op \in {"number", "symbol"} => Current.width \in Widths
           /\ Current.op \in {"label", "common", "set"} => Current.name \in Name
           /\ line \in Nat
           /\ tables \in Seq(SoundTable) /\ \A k \in DOMAIN tables : tables[k].data # <<>>
           /\ cur \in Seq(SoundTable) /\ Len(cur) <= 1
           /\ inData \in BOOLEAN /\ (inData => cur # <<>>)
           /\ aliases \in AliasMaps /\ IsFiniteSet(DOMAIN aliases)
<1>1. Source /\ Tables /\ line <= Len(program)
  BY DEF TInv, Scanning
<1>2. /\ Current \in SourceLine
      /\ Current.op \in {"number", "symbol"} => Current.width \in Widths
      /\ Current.op \in {"label", "common", "set"} => Current.name \in Name
      /\ line \in Nat
  BY <1>1, CurrentFacts
<1>3. aliases \in AliasMaps /\ IsFiniteSet(DOMAIN aliases)
  BY DEF TInv, Resolution
<1> QED
  BY <1>1, <1>2, <1>3 DEF Tables

LEMMA WritableIsBoolean == ASSUME NEW n \in SourceLine PROVE isWritableDataSection(n) \in BOOLEAN
<1>1. n.w \in BOOLEAN
  BY LineFields
<1> QED
  BY <1>1 DEF isWritableDataSection

\* A new table, or the one that is open.
LEMMA OpenedFacts ==
    ASSUME TInv, Scanning, NEW w \in BOOLEAN
    PROVE  /\ Reuses(w) => cur[1] \in SoundTable /\ cur # <<>>
           /\ NewTable(w) \in SoundTable
           /\ Flushed \in Seq(SoundTable) /\ \A k \in DOMAIN Flushed : Flushed[k].data # <<>>
<1>1. Tables
  BY DEF TInv
<1> QED
  BY <1>1, CurFacts, FlushedFacts, NewTableFacts DEF Reuses

LEMMA DataSectionKeeps ==
    ASSUME TInv, DataSection
    PROVE  TInv'
<1> DEFINE w == isWritableDataSection(Current)
<1>1. Scanning /\ aliases' = aliases
  BY DEF DataSection
<1>2. w \in BOOLEAN
  BY <1>1, ScanFacts, WritableIsBoolean
<1>3. IF Reuses(w) THEN Read(tables, cur, TRUE) ELSE Read(Flushed, <<NewTable(w)>>, TRUE)
  BY DEF DataSection
<1> HIDE DEF w
<1>4. CASE Reuses(w)
  BY <1>1, <1>2, <1>3, <1>4, ScanFacts, OpenedFacts, ReadKeeps
<1>5. CASE ~ Reuses(w)
  <2>1. Read(Flushed, <<NewTable(w)>>, TRUE)
    BY <1>3, <1>5
  <2>2. <<NewTable(w)>> \in Seq(SoundTable) /\ Len(<<NewTable(w)>>) <= 1 /\ <<NewTable(w)>> # <<>>
    BY <1>1, <1>2, OpenedFacts
  <2> QED
    BY <1>1, <1>2, <2>1, <2>2, ScanFacts, OpenedFacts, ReadKeeps
<1> QED
  BY <1>4, <1>5

LEMMA TextSectionKeeps ==
    ASSUME TInv, TextSection
    PROVE  TInv'
<1>1. Scanning /\ Read(Flushed, <<>>, FALSE) /\ aliases' = aliases
  BY DEF TextSection
<1>2. Flushed \in Seq(SoundTable) /\ \A k \in DOMAIN Flushed : Flushed[k].data # <<>>
  BY <1>1, OpenedFacts
<1>3. <<>> \in Seq(SoundTable) /\ Len(<<>>) <= 1
  BY EmptySeq
<1> QED
  BY <1>1, <1>2, <1>3, ScanFacts, ReadKeeps

LEMMA CommonKeeps ==
    ASSUME TInv, Common
    PROVE  TInv'
<1> DEFINE table == IF Reuses(TRUE) THEN cur[1] ELSE NewTable(TRUE)
           aligned == ExtendedFrom(0, table, Padding(table.data, Current.width))
           named == Labelled(aligned, Current.name)
           full == Extended(named, Zeros(Current.size))
           nt == IF Reuses(TRUE) THEN tables ELSE Flushed
<1>1. Scanning /\ Read(nt, <<full>>, TRUE) /\ aliases' = aliases /\ Current.op = "common"
  BY DEF Common
<1>2. Current \in SourceLine /\ Current.name \in Spelling /\ Current.width \in Nat
      /\ Current.size \in Nat /\ line \in Nat
  BY <1>1, ScanFacts, LineFields
<1>3. table \in SoundTable
  BY <1>1, OpenedFacts
<1> HIDE DEF table
<1>4. Padding(table.data, Current.width) \in Seq(Byte)
  BY <1>2, <1>3, TableFields, PaddingFacts
<1>5. aligned \in SoundTable
  BY <1>3, <1>4, ExtendedFacts
<1> HIDE DEF aligned
<1>6. named \in SoundTable
  BY <1>2, <1>5, LabelledFacts
<1> HIDE DEF named
<1>7. full \in SoundTable
  BY <1>2, <1>6, ExtendedFacts, ZerosFacts DEF Extended
<1> HIDE DEF full
<1>8. nt \in Seq(SoundTable) /\ \A k \in DOMAIN nt : nt[k].data # <<>>
  BY <1>1, OpenedFacts, ScanFacts
<1>9. <<full>> \in Seq(SoundTable) /\ Len(<<full>>) <= 1 /\ <<full>> # <<>>
  BY <1>7
<1> HIDE DEF nt
<1> QED
  BY <1>1, <1>8, <1>9, ScanFacts, ReadKeeps

LEMMA SetAliasKeeps ==
    ASSUME TInv, SetAlias
    PROVE  TInv'
<1> DEFINE a == [name |-> Current.sym, sym |-> Strip[Current.sym],
                 add |-> Current.add, sub |-> Current.sub]
<1>1. /\ Scanning /\ Current.op = "set" /\ Read(tables, cur, inData)
      /\ aliases' = With(aliases, Current.name, a)
  BY DEF SetAlias
<1>2. /\ Current \in SourceLine /\ Current.name \in Name
      /\ Current.sym \in Name /\ Current.add \in Int /\ Current.sub \in Name \cup {NoName}
  BY <1>1, ScanFacts, LineFields DEF Spelling
<1>3. a \in Alias
  BY <1>2, StripAssumption DEF Alias
<1> HIDE DEF a
<1>4. /\ With(aliases, Current.name, a) \in AliasMaps
      /\ DOMAIN With(aliases, Current.name, a) = DOMAIN aliases \cup {Current.name}
  <2>1. With(aliases, Current.name, a) \in AliasMaps
    BY <1>1, <1>2, <1>3, ScanFacts, AliasMapFacts
  <2>2. DOMAIN With(aliases, Current.name, a) = DOMAIN aliases \cup {Current.name}
    BY DEF With
  <2> QED
    BY <2>1, <2>2
<1>5. IsFiniteSet(DOMAIN aliases')
  BY <1>1, <1>4, ScanFacts, FS_AddElement
<1> QED
  BY <1>1, <1>4, <1>5, ScanFacts, ReadKeeps

\* What a line adds is bytes.
LEMMA DataOfFacts ==
    ASSUME TInv, Scanning, Collecting, Current.op \in {"bytes", "number", "symbol", "zero", "align"}
    PROVE  DataOf(Current) \in Seq(Byte) /\ (Current.op = "symbol" => Len(DataOf(Current)) = Current.width)
<1>1. /\ Current.bytes \in Seq(Byte) /\ Current.val \in Int /\ Current.width \in Nat
      /\ Current.size \in Nat /\ cur[1].data \in Seq(Byte)
  <2>1. Current \in SourceLine /\ Tables /\ cur # <<>>
    BY ScanFacts DEF Collecting
  <2> QED
    BY <2>1, LineFields, CurFacts, TableFields
<1>2. CASE Current.op = "bytes"
  BY <1>1, <1>2 DEF DataOf
<1>3. CASE Current.op = "number"
  BY <1>1, <1>3, LittleEndianFacts DEF DataOf
<1>4. CASE Current.op = "symbol"
  BY <1>1, <1>4, ZerosFacts DEF DataOf
<1>5. CASE Current.op = "zero"
  BY <1>1, <1>5, ZerosFacts DEF DataOf
<1>6. CASE Current.op = "align"
  BY <1>1, <1>6, PaddingFacts DEF DataOf
<1> QED
  BY <1>2, <1>3, <1>4, <1>5, <1>6

LEMMA PutBytesKeeps ==
    ASSUME TInv, PutBytes
    PROVE  TInv'
<1>1. /\ Scanning /\ Collecting /\ Current.op \in {"bytes", "number", "zero", "align"}
      /\ ReadInto(Extended(cur[1], DataOf(Current)))
  BY DEF PutBytes
<1>2. cur[1] \in SoundTable /\ line \in Nat
  BY <1>1, ScanFacts, CurFacts DEF Collecting
<1>3. DataOf(Current) \in Seq(Byte)
  BY <1>1, DataOfFacts
<1>4. Extended(cur[1], DataOf(Current)) \in SoundTable
  BY <1>2, <1>3, ExtendedFacts DEF Extended
<1> QED
  BY <1>1, <1>4, ReadIntoKeeps

\* A reference at the end of the data, in bytes added for it, is apart from
\* the references before it.
LEMMA ReferredFacts ==
    ASSUME NEW table \in SoundTable, NEW e \in SoundTable, NEW r \in Reloc,
           e.relocs = table.relocs, r.offset = Len(table.data),
           Len(e.data) = Len(table.data) + r.width
    PROVE  [e EXCEPT !.relocs = @ \cup {r}] \in SoundTable
<1> DEFINE f == [e EXCEPT !.relocs = @ \cup {r}]
<1>1. /\ e \in Table /\ e.relocs \subseteq Reloc /\ Len(e.from) = Len(e.data)
      /\ Within(e) /\ Spread(e) /\ Within(table) /\ Len(table.data) \in Nat
  BY TableFields
<1>2. /\ f \in Table /\ f.data = e.data /\ f.from = e.from /\ f.relocs = e.relocs \cup {r}
  BY <1>1 DEF Table
<1> HIDE DEF f
<1>3. \A q \in table.relocs \cup {r} : q.offset \in Nat /\ q.width \in Nat
  <2>1. \A q \in Reloc : q.offset \in Nat /\ q.width \in Nat
    BY WidthsAreNatural DEF Reloc
  <2> QED
    BY <1>1, <2>1
<1>4. \A q \in table.relocs : q.offset + q.width <= r.offset
  BY <1>1 DEF Within
<1>5. Within(f)
  BY <1>1, <1>2, <1>3 DEF Within
<1>6. Spread(f)
  <2> SUFFICES ASSUME NEW p \in table.relocs \cup {r}, NEW q \in table.relocs \cup {r}
               PROVE  q = p \/ Apart(p, q)
    BY <1>2 DEF Spread
  <2>1. CASE p \in table.relocs /\ q \in table.relocs
    BY <1>1, <2>1 DEF Spread
  <2>2. CASE p = r /\ q \in table.relocs
    BY <1>4, <2>2 DEF Apart
  <2>3. CASE p \in table.relocs /\ q = r
    BY <1>4, <2>3 DEF Apart
  <2> QED
    BY <2>1, <2>2, <2>3
<1>7. f \in SoundTable
  BY <1>1, <1>2, <1>5, <1>6 DEF SoundTable
<1> QED
  BY <1>7 DEF f

LEMMA PutRelocKeeps ==
    ASSUME TInv, PutReloc
    PROVE  TInv'
<1> DEFINE r == [offset |-> Len(cur[1].data), width |-> Current.width, name |-> Current.sym,
                 sym |-> Strip[Current.sym], add |-> Current.add,
                 sub |-> IF Current.sub = NoName THEN NoName ELSE Strip[Current.sub]]
           e == Extended(cur[1], DataOf(Current))
<1>1. /\ Scanning /\ Collecting /\ Current.op = "symbol"
      /\ ReadInto([e EXCEPT !.relocs = @ \cup {r}])
  BY DEF PutReloc
<1>2. /\ cur[1] \in SoundTable /\ Len(cur[1].data) \in Nat /\ cur[1].data \in Seq(Byte)
      /\ line \in Nat
  BY <1>1, ScanFacts, CurFacts, TableFields DEF Collecting
<1>3. /\ Current.sym \in Name /\ Current.add \in Int /\ Current.sub \in Name \cup {NoName}
      /\ Current.width \in Widths
  BY <1>1, ScanFacts, LineFields DEF Spelling
<1>4. r \in Reloc
  BY <1>2, <1>3, StripAssumption DEF Reloc
<1>5. r.offset = Len(cur[1].data) /\ r.width = Current.width
  OBVIOUS
<1> HIDE DEF r
<1>6. DataOf(Current) \in Seq(Byte) /\ Len(DataOf(Current)) = Current.width
  BY <1>1, DataOfFacts
<1>7. e \in SoundTable /\ e.relocs = cur[1].relocs /\ e.data = cur[1].data \o DataOf(Current)
  BY <1>2, <1>6, ExtendedFacts DEF Extended
<1>8. Len(e.data) = Len(cur[1].data) + r.width
  <2>1. Len(cur[1].data \o DataOf(Current)) = Len(cur[1].data) + Len(DataOf(Current))
    BY <1>2, <1>6, ConcatProperties
  <2> QED
    BY <1>5, <1>6, <1>7, <2>1
<1> HIDE DEF e
<1>9. [e EXCEPT !.relocs = @ \cup {r}] \in SoundTable
  BY <1>2, <1>4, <1>5, <1>7, <1>8, ReferredFacts
<1> QED
  BY <1>1, <1>9, ReadIntoKeeps

LEMMA LabelKeeps ==
    ASSUME TInv, Label
    PROVE  TInv'
<1>1. /\ Scanning /\ Collecting /\ Current.op = "label"
      /\ ReadInto(Labelled(cur[1], Current.name))
  BY DEF Label
<1>2. cur[1] \in SoundTable /\ Current.name \in Spelling
  BY <1>1, ScanFacts, CurFacts DEF Collecting, Spelling
<1>3. Labelled(cur[1], Current.name) \in SoundTable
  BY <1>2, LabelledFacts
<1> QED
  BY <1>1, <1>3, ReadIntoKeeps

LEMMA SkipKeeps ==
    ASSUME TInv, Skip
    PROVE  TInv'
<1>1. Scanning /\ Read(tables, cur, inData) /\ aliases' = aliases
  BY DEF Skip
<1> QED
  BY <1>1, ScanFacts, ReadKeeps

LEMMA EndScanKeeps ==
    ASSUME TInv, EndScan
    PROVE  TInv'
<1>1. /\ phase = "scan" /\ phase' = "aliases" /\ tables' = Flushed /\ cur' = <<>> /\ inData' = FALSE
      /\ todo' = DOMAIN aliases /\ rounds' = Cardinality(DOMAIN aliases)
      /\ program' = program /\ line' = line /\ aliases' = aliases /\ progress' = progress
      /\ t' = t /\ pos' = pos /\ lines' = lines
  BY DEF EndScan, emission
<1>2. Tables /\ Resolution
  BY DEF TInv
<1>3. Flushed \in Seq(SoundTable) /\ \A k \in DOMAIN Flushed : Flushed[k].data # <<>>
  BY <1>2, FlushedFacts
<1>4. <<>> \in Seq(SoundTable) /\ Len(<<>>) <= 1
  BY EmptySeq
<1>5. Cardinality(DOMAIN aliases) \in Nat
  BY <1>2, FS_CardinalityType DEF Resolution
<1>6. Source'
  BY <1>1 DEF TInv, Source, Phases
<1>7. Tables'
  BY <1>1, <1>3, <1>4 DEF Tables
<1>8. Resolution'
  BY <1>1, <1>2, <1>5 DEF Resolution
<1>9. References' /\ Emission'
  BY <1>1 DEF TInv, References, Emission, Idle
<1> QED
  BY <1>6, <1>7, <1>8, <1>9 DEF TInv

-----------------------------------------------------------------------------
(***************************************************************************)
(* The aliases.                                                            *)
(***************************************************************************)
LEMMA TableIsSound ==
    ASSUME Tables, NEW k \in DOMAIN tables
    PROVE  tables[k] \in SoundTable /\ tables[k].data # <<>> /\ k \in Nat
<1>1. tables \in Seq(SoundTable) /\ tables[k].data # <<>>
  BY DEF Tables
<1>2. k \in 1 .. Len(tables) /\ Len(tables) \in Nat
  BY <1>1, LenProperties
<1>3. tables[k] \in SoundTable
  BY <1>1, <1>2, ElementOfSeq
<1> QED
  BY <1>1, <1>2, <1>3

\* A label that is found is in a table, at one of its offsets.
LEMMA LocationsFacts ==
    ASSUME Tables, NEW sym, NEW l \in Locations(sym)
    PROVE  l.table \in DOMAIN tables /\ l.offset \in Nat
<1>1. PICK k \in DOMAIN tables : l \in {[table |-> k, offset |-> tables[k].labels[x]] : x \in Matching(tables[k], sym)}
  BY DEF Locations
<1>2. PICK x \in Matching(tables[k], sym) : l = [table |-> k, offset |-> tables[k].labels[x]]
  BY <1>1
<1>3. x \in DOMAIN tables[k].labels
  BY DEF Matching
<1>4. tables[k].labels \in LabelMaps
  BY TableIsSound, TableFields
<1>5. tables[k].labels[x] \in Nat
  BY <1>3, <1>4 DEF LabelMaps
<1> QED
  BY <1>2, <1>5

\* One table is replaced by another with data.
LEMMA ReplacedFacts ==
    ASSUME Tables, NEW n \in DOMAIN tables, NEW e \in SoundTable, e.data # <<>>,
           tables' = [tables EXCEPT ![n] = e], UNCHANGED <<cur, inData>>
    PROVE  /\ Tables'
           /\ DOMAIN tables' = DOMAIN tables /\ Len(tables') = Len(tables)
           /\ \A k \in DOMAIN tables : tables'[k] = IF k = n THEN e ELSE tables[k]
<1>1. tables \in Seq(SoundTable) /\ n \in 1 .. Len(tables) /\ DOMAIN tables = 1 .. Len(tables)
  BY LenProperties DEF Tables
<1>2. /\ tables' \in Seq(SoundTable) /\ Len(tables') = Len(tables)
      /\ \A k \in 1 .. Len(tables) : tables'[k] = IF k = n THEN e ELSE tables[k]
  BY <1>1, ExceptSeq
<1>3. DOMAIN tables' = DOMAIN tables
  BY <1>1, <1>2, LenProperties
<1>4. \A k \in DOMAIN tables' : tables'[k].data # <<>>
  BY <1>1, <1>2, <1>3 DEF Tables
<1>5. Tables'
  BY <1>2, <1>4 DEF Tables
<1> QED
  BY <1>1, <1>2, <1>3, <1>5

LEMMA SkipAliasKeeps ==
    ASSUME TInv, SkipAlias
    PROVE  TInv'
<1>1. PICK a \in todo : todo' = todo \ {a}
  BY DEF SkipAlias
<1>2. /\ phase' = phase /\ phase = "aliases" /\ program' = program /\ line' = line /\ cur' = cur
      /\ inData' = inData /\ tables' = tables /\ aliases' = aliases /\ rounds' = rounds
      /\ progress' = progress /\ t' = t /\ pos' = pos /\ lines' = lines
  BY DEF SkipAlias, Resolving, emission
<1>3. Source' /\ Tables'
  BY <1>2 DEF TInv, Source, Tables
<1>4. Resolution'
  BY <1>1, <1>2 DEF TInv, Resolution
<1>5. References' /\ Emission'
  BY <1>2 DEF TInv, References, Emission, Idle
<1> QED
  BY <1>3, <1>4, <1>5 DEF TInv

LEMMA ResolveAliasKeeps ==
    ASSUME TInv, ResolveAlias
    PROVE  TInv'
<1>1. /\ phase' = phase /\ phase = "aliases" /\ program' = program /\ line' = line /\ cur' = cur
      /\ inData' = inData /\ rounds' = rounds /\ progress' = TRUE
      /\ t' = t /\ pos' = pos /\ lines' = lines
  BY DEF ResolveAlias, Resolving, emission
<1>2. PICK a \in todo :
        /\ \E l \in Locations(aliases[a].sym) :
             LET offset == l.offset + aliases[a].add
             IN  /\ offset >= 0
                 /\ tables' = [tables EXCEPT ![l.table].labels = With(@, a, offset)]
        /\ aliases' = Without(aliases, a)
        /\ todo' = todo \ {a}
  BY DEF ResolveAlias
<1>3. PICK l \in Locations(aliases[a].sym) :
        /\ l.offset + aliases[a].add >= 0
        /\ tables' = [tables EXCEPT ![l.table].labels = With(@, a, l.offset + aliases[a].add)]
  BY <1>2
<1>4. /\ Tables /\ aliases \in AliasMaps /\ IsFiniteSet(DOMAIN aliases) /\ a \in DOMAIN aliases
      /\ todo \subseteq DOMAIN aliases /\ rounds \in Nat
  BY DEF TInv, Resolution
<1>5. a \in Spelling /\ aliases[a].add \in Int
  BY <1>4, AliasMapFacts
<1>6. l.table \in DOMAIN tables /\ l.offset \in Nat
  BY <1>4, LocationsFacts
<1> DEFINE old == tables[l.table]
           m == With(old.labels, a, l.offset + aliases[a].add)
           e == [old EXCEPT !.labels = m]
<1>7. old \in SoundTable /\ old.data # <<>> /\ old.labels \in LabelMaps
  BY <1>4, <1>6, TableIsSound, TableFields
<1>8. tables' = [tables EXCEPT ![l.table] = e]
  BY <1>3
<1> HIDE DEF old
<1>9. l.offset + aliases[a].add \in Nat
  BY <1>3, <1>5, <1>6
<1>10. m \in LabelMaps
  BY <1>5, <1>7, <1>9, LabelMapFacts
<1> HIDE DEF m
<1>11. e \in SoundTable /\ e.data # <<>>
  BY <1>7, <1>10, RelabelledFacts
<1> HIDE DEF e
<1>12. Tables' /\ Len(tables') = Len(tables)
  BY <1>1, <1>4, <1>6, <1>8, <1>11, ReplacedFacts
<1>13. Resolution'
  <2>1. aliases' \in AliasMaps
    BY <1>2, <1>4, AliasMapFacts
  <2>2. DOMAIN aliases' = DOMAIN aliases \ {a}
    BY <1>2 DEF Without
  <2>3. IsFiniteSet(DOMAIN aliases')
    BY <1>4, <2>2, FS_RemoveElement
  <2> QED
    BY <1>1, <1>2, <1>4, <2>1, <2>2, <2>3 DEF Resolution
<1>14. Source' /\ References' /\ Emission'
  BY <1>1, <1>12 DEF TInv, Source, References, Emission, Idle
<1> QED
  BY <1>12, <1>13, <1>14 DEF TInv

LEMMA NextRoundKeeps ==
    ASSUME TInv, NextRound
    PROVE  TInv'
<1>1. /\ phase' = phase /\ phase = "aliases" /\ program' = program /\ line' = line /\ cur' = cur
      /\ inData' = inData /\ tables' = tables /\ aliases' = aliases /\ rounds' = rounds - 1
      /\ progress' = FALSE /\ todo' = DOMAIN aliases /\ rounds > 1
      /\ t' = t /\ pos' = pos /\ lines' = lines
  BY DEF NextRound, Resolving, Another, emission
<1>2. Source' /\ Tables'
  BY <1>1 DEF TInv, Source, Tables
<1>3. Resolution'
  <2>1. rounds - 1 \in Nat
    BY <1>1 DEF TInv, Resolution
  <2> QED
    BY <1>1, <2>1 DEF TInv, Resolution
<1>4. References' /\ Emission'
  BY <1>1 DEF TInv, References, Emission, Idle
<1> QED
  BY <1>2, <1>3, <1>4 DEF TInv

LEMMA EndAliasesKeeps ==
    ASSUME TInv, EndAliases
    PROVE  TInv'
<1>1. /\ phase' = "relocs" /\ phase = "aliases" /\ program' = program /\ line' = line /\ cur' = cur
      /\ inData' = inData /\ tables' = tables /\ aliases' = aliases /\ rounds' = rounds
      /\ progress' = progress /\ todo' = todo
      /\ t' = t /\ pos' = pos /\ lines' = lines
      /\ unbound' = UNION {{[table |-> k, reloc |-> r] : r \in tables[k].relocs} : k \in DOMAIN tables}
  BY DEF EndAliases, emission
<1>2. Source' /\ Tables' /\ Resolution'
  BY <1>1 DEF TInv, Source, Phases, Tables, Resolution
<1>3. References'
  <2>1. ASSUME NEW u \in unbound'
        PROVE  /\ u \in [table : Nat, reloc : Reloc]
               /\ u.table \in DOMAIN tables /\ u.reloc \in tables[u.table].relocs
    <3>1. PICK k \in DOMAIN tables : u \in {[table |-> k, reloc |-> r] : r \in tables[k].relocs}
      BY <1>1
    <3>2. PICK r \in tables[k].relocs : u = [table |-> k, reloc |-> r]
      BY <3>1
    <3>3. k \in Nat /\ r \in Reloc
      BY TableIsSound, TableFields DEF TInv
    <3> QED
      BY <3>2, <3>3
  <2>2. ASSUME NEW k \in DOMAIN tables, NEW r \in tables[k].relocs
        PROVE  [table |-> k, reloc |-> r] \in unbound'
    BY <1>1
  <2> QED
    BY <1>1, <2>1, <2>2 DEF References
<1>4. Emission'
  BY <1>1 DEF TInv, Emission, Idle
<1> QED
  BY <1>2, <1>3, <1>4 DEF TInv

-----------------------------------------------------------------------------
(***************************************************************************)
(* The steps of resolveConstRelocs.                                        *)
(***************************************************************************)
Written(table, d, r) == [table EXCEPT !.data = d, !.relocs = @ \ {r}]

\* The bytes of a reference overwritten, and the reference gone.
LEMMA WrittenFacts ==
    ASSUME NEW table \in SoundTable, NEW r, NEW d \in Seq(Byte), Len(d) = Len(table.data)
    PROVE  LET e == Written(table, d, r)
           IN  /\ e \in SoundTable /\ e.data = d /\ e.from = table.from
               /\ e.relocs = table.relocs \ {r} /\ e.labels = table.labels
               /\ e.writable = table.writable
<1> DEFINE e == Written(table, d, r)
<1>1. /\ table \in Table /\ table.relocs \subseteq Reloc
      /\ Len(table.from) = Len(table.data) /\ Within(table) /\ Spread(table)
  BY TableFields
<1>2. /\ e \in Table /\ e.data = d /\ e.relocs = table.relocs \ {r} /\ e.from = table.from
      /\ e.labels = table.labels /\ e.writable = table.writable
  BY <1>1 DEF Table, Written
<1> HIDE DEF e
<1>3. Within(e) /\ Spread(e)
  BY <1>1, <1>2 DEF Within, Spread
<1>4. e \in SoundTable
  BY <1>1, <1>2, <1>3 DEF SoundTable
<1> QED
  BY <1>2, <1>4 DEF e

\* A reference of the table at hand lies in its data.
LEMMA UnboundFacts ==
    ASSUME TInv, phase = "relocs", NEW u \in unbound
    PROVE  /\ u.table \in DOMAIN tables /\ u.reloc \in tables[u.table].relocs
           /\ tables[u.table] \in SoundTable /\ tables[u.table].data # <<>>
           /\ u.reloc \in Reloc /\ u.reloc.offset \in Nat
           /\ u.reloc.width \in Widths /\ u.reloc.width \in Nat
<1>1. u.table \in DOMAIN tables /\ u.reloc \in tables[u.table].relocs /\ Tables
  BY DEF TInv, References
<1>2. tables[u.table] \in SoundTable /\ tables[u.table].data # <<>>
  BY <1>1, TableIsSound
<1>3. u.reloc \in Reloc
  BY <1>1, <1>2, TableFields
<1>4. u.reloc.offset \in Nat /\ u.reloc.width \in Widths
  BY <1>3 DEF Reloc
<1> QED
  BY <1>1, <1>2, <1>3, <1>4, WidthsAreNatural

LEMMA SideFacts ==
    ASSUME TInv, phase = "relocs", NEW u \in unbound, NEW sym, NEW l \in SideLocations(u, sym)
    PROVE  l.table \in DOMAIN tables /\ l.offset \in Int
<1>1. CASE sym = Dot
  BY <1>1, UnboundFacts DEF SideLocations
<1>2. CASE sym # Dot
  <2>1. l \in Locations(sym) /\ Tables
    BY <1>2 DEF SideLocations, TInv
  <2> QED
    BY <2>1, LocationsFacts
<1> QED
  BY <1>1, <1>2

LEMMA WriteDifferenceKeeps ==
    ASSUME TInv, WriteDifference
    PROVE  TInv'
<1>1. phase = "relocs"
  BY DEF WriteDifference
<1>2. PICK u \in unbound :
        /\ \E left \in SideLocations(u, u.reloc.sym), right \in SideLocations(u, u.reloc.sub) :
              LET bytes == LittleEndian(left.offset - right.offset, u.reloc.width)
                  o == u.reloc.offset
              IN  tables' = [tables EXCEPT
                       ![u.table].data = [k \in DOMAIN @ |->
                           IF k \in o + 1 .. o + u.reloc.width THEN bytes[k - o] ELSE @[k]],
                       ![u.table].relocs = @ \ {u.reloc}]
        /\ Bound(u)
  BY DEF WriteDifference
<1>3. PICK left \in SideLocations(u, u.reloc.sym), right \in SideLocations(u, u.reloc.sub) :
              LET bytes == LittleEndian(left.offset - right.offset, u.reloc.width)
                  o == u.reloc.offset
              IN  tables' = [tables EXCEPT
                       ![u.table].data = [k \in DOMAIN @ |->
                           IF k \in o + 1 .. o + u.reloc.width THEN bytes[k - o] ELSE @[k]],
                       ![u.table].relocs = @ \ {u.reloc}]
  BY <1>2
<1> DEFINE old == tables[u.table]
           bytes == LittleEndian(left.offset - right.offset, u.reloc.width)
           o == u.reloc.offset
           w == u.reloc.width
           n == Len(old.data)
           d == [k \in DOMAIN old.data |-> IF k \in o + 1 .. o + w THEN bytes[k - o] ELSE old.data[k]]
           e == Written(old, d, u.reloc)
<1>4. tables' = [tables EXCEPT ![u.table] = e]
  BY <1>3 DEF Written
<1>5. /\ u.table \in DOMAIN tables /\ u.reloc \in old.relocs /\ old \in SoundTable
      /\ old.data # <<>> /\ o \in Nat /\ w \in Nat
  BY <1>1, UnboundFacts
<1>6. left.offset \in Int /\ right.offset \in Int
  BY <1>1, SideFacts
<1>7. \A k \in 1 .. w : bytes[k] \in Byte
  <2>1. left.offset - right.offset \in Int
    BY <1>6
  <2> QED
    BY <1>5, <2>1, LittleEndianFacts
<1> HIDE DEF old, bytes, o, w
<1>8. \A k \in DOMAIN old.data : d[k] \in Byte
  <2> SUFFICES ASSUME NEW k \in DOMAIN old.data PROVE d[k] \in Byte
    OBVIOUS
  <2>1. old.data \in Seq(Byte) /\ k \in 1 .. Len(old.data) /\ Len(old.data) \in Nat
    BY <1>5, TableFields, LenProperties
  <2>2. CASE k \in o + 1 .. o + w
    <3>1. k - o \in 1 .. w
      BY <1>5, <2>1, <2>2
    <3>2. d[k] = bytes[k - o]
      BY <2>2
    <3> QED
      BY <1>7, <3>1, <3>2
  <2>3. CASE k \notin o + 1 .. o + w
    <3>1. d[k] = old.data[k]
      BY <2>3
    <3> QED
      BY <2>1, <3>1, ElementOfSeq
  <2> QED
    BY <2>2, <2>3
<1>9. old.data \in Seq(Byte) /\ n \in Nat /\ DOMAIN old.data = 1 .. n /\ n # 0
  BY <1>5, TableFields, LenProperties, EmptySeq
<1>10. /\ e \in SoundTable /\ e.data # <<>> /\ e.relocs = old.relocs \ {u.reloc}
  <2>1. d \in [1 .. n -> Byte]
    BY <1>8, <1>9
  <2> HIDE DEF d, n
  <2>2. d \in Seq(Byte) /\ Len(d) = n
    BY <1>9, <2>1
  <2>3. d # <<>>
    BY <1>9, <2>2, EmptySeq
  <2>4. Len(d) = Len(old.data)
    BY <2>2 DEF n
  <2>5. e \in SoundTable /\ e.data = d /\ e.relocs = old.relocs \ {u.reloc}
    BY <1>5, <2>2, <2>4, WrittenFacts
  <2> QED
    BY <2>3, <2>5
<1> HIDE DEF e
<1>11. /\ phase' = phase /\ program' = program /\ line' = line /\ cur' = cur
       /\ inData' = inData /\ aliases' = aliases /\ rounds' = rounds
       /\ progress' = progress /\ todo' = todo
       /\ t' = t /\ pos' = pos /\ lines' = lines /\ unbound' = unbound \ {u}
  BY <1>2 DEF Bound, emission
<1>12. /\ Tables' /\ DOMAIN tables' = DOMAIN tables /\ Len(tables') = Len(tables)
       /\ \A k \in DOMAIN tables : tables'[k] = IF k = u.table THEN e ELSE tables[k]
  <2>1. Tables
    BY DEF TInv
  <2> QED
    BY <1>4, <1>5, <1>10, <1>11, <2>1, ReplacedFacts
<1>13. References'
  <2>1. ASSUME NEW v \in unbound \ {u} PROVE v.table \in DOMAIN tables' /\ v.reloc \in tables'[v.table].relocs
    <3>1. v.table \in DOMAIN tables /\ v.reloc \in tables[v.table].relocs
      BY <1>1 DEF TInv, References
    <3>2. CASE v.table # u.table
      BY <1>12, <3>1, <3>2
    <3>3. CASE v.table = u.table /\ v.reloc # u.reloc
      BY <1>10, <1>12, <3>1, <3>3 DEF old
    <3>4. CASE v.table = u.table /\ v.reloc = u.reloc
      <4>1. v \in [table : Nat, reloc : Reloc] /\ u \in [table : Nat, reloc : Reloc]
        BY <1>1 DEF TInv, References
      <4> QED
        BY <3>4, <4>1
    <3> QED
      BY <3>1, <3>2, <3>3, <3>4
  <2>2. ASSUME NEW k \in DOMAIN tables', NEW r \in tables'[k].relocs
        PROVE  r.width = 8 \/ [table |-> k, reloc |-> r] \in unbound \ {u}
    <3>1. k \in DOMAIN tables /\ r \in tables[k].relocs
      BY <1>10, <1>12 DEF old
    <3>2. r.width = 8 \/ [table |-> k, reloc |-> r] \in unbound
      BY <1>1, <3>1 DEF TInv, References
    <3>3. [table |-> k, reloc |-> r] # u
      <4>1. ASSUME [table |-> k, reloc |-> r] = u PROVE FALSE
        <5>1. k = u.table /\ r = u.reloc
          BY <4>1
        <5> QED
          BY <1>5, <1>10, <1>12, <5>1
      <4> QED
        BY <4>1
    <3> QED
      BY <3>2, <3>3
  <2> QED
    BY <1>1, <1>11, <2>1, <2>2 DEF TInv, References
<1>14. Source' /\ Resolution' /\ Emission'
  BY <1>1, <1>11, <1>12 DEF TInv, Source, Resolution, Emission, Idle
<1> QED
  BY <1>12, <1>13, <1>14 DEF TInv

\* A reference is kept only if it is as wide as an address.
LEMMA KeepRelocKeeps ==
    ASSUME TInv, KeepReloc
    PROVE  TInv'
<1>1. phase = "relocs" /\ tables' = tables
  BY DEF KeepReloc
<1>2. PICK u \in unbound : u.reloc.width = 8 /\ Bound(u)
  BY DEF KeepReloc
<1>3. /\ phase' = phase /\ program' = program /\ line' = line /\ cur' = cur
      /\ inData' = inData /\ aliases' = aliases /\ rounds' = rounds
      /\ progress' = progress /\ todo' = todo
      /\ t' = t /\ pos' = pos /\ lines' = lines /\ unbound' = unbound \ {u}
  BY <1>2 DEF Bound, emission
<1>4. References'
  <2>1. ASSUME NEW k \in DOMAIN tables, NEW r \in tables[k].relocs
        PROVE  r.width = 8 \/ [table |-> k, reloc |-> r] \in unbound \ {u}
    <3>1. r.width = 8 \/ [table |-> k, reloc |-> r] \in unbound
      BY <1>1 DEF TInv, References
    <3>2. [table |-> k, reloc |-> r] = u => r.width = 8
      BY <1>2
    <3> QED
      BY <3>1, <3>2
  <2> QED
    BY <1>1, <1>3, <2>1 DEF TInv, References
<1>5. Source' /\ Tables' /\ Resolution' /\ Emission'
  BY <1>1, <1>3 DEF TInv, Source, Tables, Resolution, Emission, Idle
<1> QED
  BY <1>4, <1>5 DEF TInv

\* Steps that touch neither tables nor aliases.
Still == UNCHANGED <<program, cur, inData, tables, aliases, todo, rounds, progress, unbound, t, pos, lines>>

LEMMA EndRelocsKeeps ==
    ASSUME TInv, EndRelocs
    PROVE  TInv'
<1>1. phase = "relocs" /\ phase' = "code" /\ unbound = {} /\ line' = 1 /\ Still
  BY DEF EndRelocs, Still, resolution, emission
<1>2. Source'
  <2>1. program \in Seq(SourceLine)
    BY ProgramsAssumption DEF TInv, Source
  <2>2. Len(program) \in Nat
    BY <2>1, LenProperties
  <2> QED
    BY <1>1, <2>2 DEF TInv, Source, Phases, Still
<1>3. Tables' /\ Resolution'
  BY <1>1 DEF TInv, Tables, Resolution, Still
<1>4. References' /\ Emission'
  BY <1>1 DEF TInv, References, Emission, Idle, Still
<1> QED
  BY <1>2, <1>3, <1>4 DEF TInv

LEMMA CodeLineKeeps ==
    ASSUME TInv, phase = "code", line <= Len(program), phase' = "code", line' = line + 1, Still
    PROVE  TInv'
<1>1. Source'
  <2>1. line + 1 \in 1 .. Len(program) + 1
    BY CurrentFacts DEF TInv
  <2> QED
    BY <2>1 DEF TInv, Source, Phases, Still
<1>2. Tables' /\ Resolution'
  BY DEF TInv, Tables, Resolution, Still
<1>3. References' /\ Emission'
  BY DEF TInv, References, Emission, Idle, Still
<1> QED
  BY <1>1, <1>2, <1>3 DEF TInv

\* The tables with which emission begins are what EmitTables may be given.
LEMMA TablesGiven ==
    ASSUME Tables, \A k \in DOMAIN tables : \A r \in tables[k].relocs : r.width = 8
    PROVE  Given
<1>1. tables \in Seq(SoundTable)
  BY DEF Tables
<1>2. tables \in Seq({tables[k] : k \in DOMAIN tables})
  BY <1>1
<1>3. ASSUME NEW k \in DOMAIN tables PROVE Emittable(tables[k])
  <2>1. /\ tables[k].data \in Seq(Byte) /\ tables[k].relocs \subseteq Reloc
        /\ Within(tables[k]) /\ Spread(tables[k])
    BY TableIsSound, TableFields
  <2> QED
    BY <1>3, <2>1 DEF Emittable, Within, Spread
<1> QED
  BY <1>2, <1>3 DEF Given

LEMMA EndCodeKeeps ==
    ASSUME TInv, EndCode
    PROVE  TInv'
<1>1. phase = "code" /\ phase' = "emit" /\ line' = line /\ Still
  BY DEF EndCode, Still, resolution, emission
<1>2. /\ Tables /\ t = 1 /\ pos = 0 /\ lines = <<>>
      /\ \A k \in DOMAIN tables : \A r \in tables[k].relocs : r.width = 8
  BY <1>1 DEF TInv, References, Emission, Idle
<1>3. Given /\ t \in 1 .. Len(tables) + 1
  <2>1. Len(tables) \in Nat
    BY <1>2, LenProperties DEF Tables
  <2> QED
    BY <1>2, <2>1, TablesGiven
<1>4. IInv
  BY <1>2, <1>3, StartFacts
<1>5. IInv'
  BY <1>1, <1>4 DEF IInv, Given, Body, Following, Ahead, Left, Here, Still
<1>6. Source' /\ Tables' /\ Resolution' /\ References'
  BY <1>1, <1>2 DEF TInv, Source, Phases, Tables, Resolution, References, Still
<1>7. Emission'
  BY <1>1, <1>2, <1>5 DEF Emission, Still
<1> QED
  BY <1>6, <1>7 DEF TInv

LEMMA EmitTablesKeeps ==
    ASSUME TInv, EmitTables
    PROVE  TInv'
<1>1. /\ phase = "emit" /\ phase' = phase /\ EmitNext /\ program' = program /\ line' = line
      /\ cur' = cur /\ inData' = inData /\ aliases' = aliases /\ todo' = todo
      /\ rounds' = rounds /\ progress' = progress /\ unbound' = unbound
  BY DEF EmitTables, resolution
<1>2. IInv /\ Tables
  BY <1>1 DEF TInv, Emission
<1>3. IInv'
  BY <1>1, <1>2, EmitRelocKeeps, EmitBytesKeeps, EmitGloblKeeps DEF EmitNext
<1>4. tables' = tables /\ (t' > Len(tables) => pos' = 0)
  <2> t \in Nat /\ Len(tables) \in Nat
    <3>1. Len(tables) \in Nat
      BY <1>2, LenProperties DEF Tables
    <3> QED
      BY <1>2, <3>1 DEF IInv
  <2>1. CASE EmitReloc
    <3>1. t <= Len(tables) /\ t' = t /\ tables' = tables
      BY <2>1 DEF EmitReloc, Emit, Emitting
    <3> QED
      BY <3>1
  <2>2. CASE EmitBytes
    <3>1. t <= Len(tables) /\ t' = t /\ tables' = tables
      BY <2>2 DEF EmitBytes, Emit, Emitting
    <3> QED
      BY <3>1
  <2>3. CASE EmitGlobl
    BY <2>3 DEF EmitGlobl
  <2> QED
    BY <1>1, <2>1, <2>2, <2>3 DEF EmitNext
<1>5. Source' /\ Tables' /\ Resolution' /\ References'
  BY <1>1, <1>4 DEF TInv, Source, Tables, Resolution, References
<1>6. Emission'
  BY <1>1, <1>3, <1>4 DEF Emission
<1> QED
  BY <1>5, <1>6 DEF TInv

LEMMA EndEmitKeeps ==
    ASSUME TInv, EndEmit
    PROVE  TInv'
<1>1. phase = "emit" /\ phase' = "done" /\ line' = line /\ Still
  BY DEF EndEmit, Still, resolution, emission
<1>2. IInv'
  BY <1>1 DEF TInv, Emission, IInv, Given, Body, Following, Ahead, Left, Here, Still
<1>3. Source' /\ Tables' /\ Resolution' /\ References'
  BY <1>1 DEF TInv, Source, Phases, Tables, Resolution, References, Still
<1>4. Emission'
  BY <1>1, <1>2 DEF TInv, Emission, Still
<1> QED
  BY <1>3, <1>4 DEF TInv

-----------------------------------------------------------------------------
\* Every step keeps it.
LEMMA StepKeeps == TInv /\ [Next]_vars => TInv'
<1> SUFFICES ASSUME TInv, [Next]_vars PROVE TInv'
  OBVIOUS
<1>1. CASE DataSection
  BY <1>1, DataSectionKeeps
<1>2. CASE TextSection
  BY <1>2, TextSectionKeeps
<1>3. CASE Common
  BY <1>3, CommonKeeps
<1>4. CASE SetAlias
  BY <1>4, SetAliasKeeps
<1>5. CASE PutBytes
  BY <1>5, PutBytesKeeps
<1>6. CASE PutReloc
  BY <1>6, PutRelocKeeps
<1>7. CASE RejectSection \/ RejectData
  BY <1>7, FailKeeps DEF RejectSection, RejectData, Scanning
<1>8. CASE Label
  BY <1>8, LabelKeeps
<1>9. CASE Skip
  BY <1>9, SkipKeeps
<1>10. CASE EndScan
  BY <1>10, EndScanKeeps
<1>11. CASE SkipAlias
  BY <1>11, SkipAliasKeeps
<1>12. CASE ResolveAlias
  BY <1>12, ResolveAliasKeeps
<1>13. CASE RejectAlias
  BY <1>13, FailKeeps DEF RejectAlias, Resolving
<1>14. CASE NextRound
  BY <1>14, NextRoundKeeps
<1>15. CASE EndAliases
  BY <1>15, EndAliasesKeeps
<1>16. CASE WriteDifference
  BY <1>16, WriteDifferenceKeeps
<1>17. CASE KeepReloc
  BY <1>17, KeepRelocKeeps
<1>18. CASE RejectReloc
  BY <1>18, FailKeeps DEF RejectReloc
<1>19. CASE EndRelocs
  BY <1>19, EndRelocsKeeps
<1>20. CASE RewriteReference
  BY <1>20, CodeLineKeeps DEF RewriteReference, AtReference, Still, emission
<1>21. CASE RejectReference
  BY <1>21, FailKeeps DEF RejectReference, AtReference
<1>22. CASE SkipLine
  BY <1>22, CodeLineKeeps DEF SkipLine, Still, resolution, emission
<1>23. CASE EndCode
  BY <1>23, EndCodeKeeps
<1>24. CASE EmitTables
  BY <1>24, EmitTablesKeeps
<1>25. CASE EndEmit
  BY <1>25, EndEmitKeeps
<1>26. CASE UNCHANGED vars
  <2>1. /\ Still /\ phase' = phase /\ line' = line
    BY <1>26 DEF vars, Still
  <2>2. Source' /\ Tables' /\ Resolution' /\ References'
    BY <2>1 DEF TInv, Source, Tables, Resolution, References, Still
  <2>3. Emission'
    BY <2>1 DEF TInv, Emission, Idle, IInv, Given, Body, Following, Ahead, Left, Here, Still
  <2> QED
    BY <2>2, <2>3 DEF TInv
<1> QED
  BY <1>1, <1>2, <1>3, <1>4, <1>5, <1>6, <1>7, <1>8, <1>9, <1>10, <1>11, <1>12, <1>13, <1>14,
     <1>15, <1>16, <1>17, <1>18, <1>19, <1>20, <1>21, <1>22, <1>23, <1>24, <1>25, <1>26
  DEF Next

\* The invariant holds of the conversion of every source.
THEOREM ConversionInvariance == Spec => []TInv
<1>1. Init => TInv
  <2> SUFFICES ASSUME Init PROVE TInv
    OBVIOUS
  <2>1. /\ program \in Programs /\ phase = "scan" /\ line = 1 /\ cur = <<>> /\ inData = FALSE
        /\ aliases = <<>> /\ todo = {} /\ rounds = 0 /\ progress = FALSE /\ tables = <<>>
        /\ t = 1 /\ pos = 0 /\ lines = <<>>
    BY DEF Init
  <2>2. Source
    <3>1. program \in Seq(SourceLine)
      BY <2>1, ProgramsAssumption
    <3>2. Len(program) \in Nat
      BY <3>1, LenProperties
    <3> QED
      BY <2>1, <3>2 DEF Source, Phases
  <2>3. Tables
    <3>1. <<>> \in Seq(SoundTable) /\ Len(<<>>) = 0
      BY EmptySeq
    <3>2. \A k \in DOMAIN tables : tables[k].data # <<>>
      BY <2>1
    <3>3. Len(cur) <= 1 /\ tables \in Seq(SoundTable) /\ cur \in Seq(SoundTable)
      BY <2>1, <3>1
    <3> QED
      BY <2>1, <3>2, <3>3 DEF Tables
  <2>4. Resolution
    <3>1. <<>> \in [{} -> Alias] /\ DOMAIN <<>> = {}
      OBVIOUS
    <3>2. <<>> \in AliasMaps
      BY <3>1 DEF AliasMaps
    <3> QED
      BY <2>1, <3>1, <3>2, FS_EmptySet DEF Resolution
  <2>5. References /\ Emission
    BY <2>1 DEF References, Emission, Idle
  <2> QED
    BY <2>2, <2>3, <2>4, <2>5 DEF TInv
<1> QED
  BY <1>1, StepKeeps, PTL DEF Spec

\* The type invariant of the conversion.
THEOREM ConstTypes == Spec => []TypeOK
<1>1. TInv => TypeOK
  <2> SUFFICES ASSUME TInv PROVE TypeOK
    OBVIOUS
  <2>1. /\ phase \in {"scan", "aliases", "relocs", "code", "emit", "done", "failed"}
        /\ line \in 1 .. Len(program) + 1
    BY DEF TInv, Source, Phases
  <2>2. /\ Len(cur) <= 1 /\ inData \in BOOLEAN /\ (inData => cur # <<>>)
        /\ todo \subseteq DOMAIN aliases
        /\ rounds \in Nat /\ progress \in BOOLEAN
    BY DEF TInv, Tables, Resolution
  <2>3. \A k \in DOMAIN tables : tables[k].data # <<>> /\ Len(tables[k].from) = Len(tables[k].data)
    BY TableIsSound, TableFields DEF TInv
  <2>4. ASSUME NEW table \in SoundTable
        PROVE  table.data \in Seq(Byte) /\ \A l \in DOMAIN table.labels : table.labels[l] \in Nat
    <3>1. table.data \in Seq(Byte) /\ table.labels \in LabelMaps
      BY TableFields
    <3> QED
      BY <3>1 DEF LabelMaps
  <2>5. \A table \in {tables[k] : k \in DOMAIN tables} \cup {cur[k] : k \in DOMAIN cur} :
          table.data \in Seq(Byte) /\ \A l \in DOMAIN table.labels : table.labels[l] \in Nat
    <3>1. \A k \in DOMAIN tables : tables[k] \in SoundTable
      BY TableIsSound DEF TInv
    <3>2. \A k \in DOMAIN cur : cur[k] \in SoundTable
      BY LenProperties, ElementOfSeq DEF TInv, Tables
    <3> QED
      BY <2>4, <3>1, <3>2
  <2>6. t \in 1 .. Len(tables) + 1 /\ pos \in Nat
    <3>1. Len(tables) \in Nat
      BY LenProperties DEF TInv, Tables
    <3>2. CASE phase \in {"emit", "done"}
      <4>1. IInv /\ (t > Len(tables) => pos = 0)
        BY <3>2 DEF TInv, Emission
      <4>2. t \in 1 .. Len(tables) + 1 /\ (t <= Len(tables) => pos \in Nat)
        BY <4>1 DEF IInv, Body
      <4> QED
        BY <3>1, <4>1, <4>2
    <3>3. CASE phase \notin {"emit", "done"}
      BY <3>1, <3>3 DEF TInv, Emission, Idle
    <3> QED
      BY <3>2, <3>3
  <2> QED
    BY <2>1, <2>2, <2>3, <2>5, <2>6 DEF TypeOK
<1> QED
  BY <1>1, ConversionInvariance, PTL

\* EmitTables is handed only tables whose references are eight bytes wide,
\* inside the data and apart, however lines, aliases and the differences of
\* labels filled them.
THEOREM TablesAreEmittable == Spec => []TablesEmittable
<1>1. TInv => TablesEmittable
  <2> SUFFICES ASSUME TInv, phase = "emit" PROVE \A k \in DOMAIN tables : Emittable(tables[k])
    BY DEF TablesEmittable
  <2> QED
    BY DEF TInv, Emission, IInv, Given
<1> QED
  BY <1>1, ConversionInvariance, PTL

\* The DATA lines of every table of a converted source tile it: what
\* TablesTiled proves of EmitTables, without its assumption on the tables.
THEOREM ConversionTiles == Spec => []Tiled
<1>1. TInv => Tiled
  <2> SUFFICES ASSUME TInv PROVE Tiled
    OBVIOUS
  <2>1. CASE phase \in {"emit", "done"}
    <3>1. IInv
      BY <2>1 DEF TInv, Emission
    <3> QED
      BY <3>1, InvariantTiles
  <2>2. CASE phase \notin {"emit", "done"}
    <3>1. t = 1 /\ pos = 0 /\ lines = <<>> /\ Tables
      BY <2>2 DEF TInv, Emission, Idle
    <3> SUFFICES ASSUME t <= Len(tables) PROVE pos <= Size(Here) /\ pos # Size(Here)
      BY <3>1 DEF Tiled
    <3>2. t \in DOMAIN tables
      BY <3>1, LenProperties DEF Tables
    <3>3. Here \in SoundTable /\ Here.data # <<>>
      BY <3>1, <3>2, TableIsSound DEF Here
    <3>4. Len(Here.data) \in Nat \ {0}
      BY <3>3, TableFields, EmptySeq
    <3>5. Size(Here) \in Nat /\ Len(Here.data) <= Size(Here)
      BY <3>4, RoundUp DEF Size
    <3> QED
      BY <3>1, <3>4, <3>5
  <2> QED
    BY <2>1, <2>2
<1> QED
  BY <1>1, ConversionInvariance, PTL

-----------------------------------------------------------------------------
(***************************************************************************)
(* The bytes of the source.  The tables in the order in which they are     *)
(* filled, the open one last, only grow at their ends; the bytes of a line *)
(* that defines data lie in one of them, in a row.                         *)
(***************************************************************************)
Filling == tables \o cur

\* b holds what a holds, at the same places, and of new lines only those in
\* fresh.
Grows(a, b, fresh) ==
    /\ \A m \in DOMAIN a : a[m].from # <<>> =>
         /\ m \in DOMAIN b /\ b[m].writable = a[m].writable
         /\ \A q \in DOMAIN a[m].from : q \in DOMAIN b[m].from /\ b[m].from[q] = a[m].from[q]
    /\ \A m \in DOMAIN b : \A q \in DOMAIN b[m].from :
         (m \in DOMAIN a /\ q \in DOMAIN a[m].from) \/ b[m].from[q] \in fresh

\* The b bytes of line k lie in a row in one table, which is writable if w.
KeptIn(all, k, b, w) ==
    \E n \in DOMAIN all : \E lo \in Nat :
        /\ lo + 1 .. lo + b \subseteq DOMAIN all[n].from
        /\ \A m \in DOMAIN all : \A q \in DOMAIN all[m].from :
             all[m].from[q] = k <=> m = n /\ q \in lo + 1 .. lo + b
        /\ w => all[n].writable

IsCommon(k) == program[k].op = "common"
MustWrite(k) == IsWritable(k) \/ IsCommon(k)

Seen == IF phase = "scan" THEN 1 .. line - 1 ELSE DOMAIN program

BInv ==
    /\ TInv
    /\ phase = "scan" => \A m \in DOMAIN Filling : \A q \in DOMAIN Filling[m].from : Filling[m].from[q] < line
    /\ phase = "scan" => (IsData(line) => inData /\ (IsWritable(line) => cur[1].writable))
    /\ phase # "scan" => cur = <<>> \/ phase = "failed"
    /\ phase # "failed" => \A k \in Seen : Defines(k) => KeptIn(Filling, k, Bytes(k), MustWrite(k))

LEMMA NotEmpty == ASSUME NEW S, NEW s \in Seq(S), NEW q \in DOMAIN s PROVE s # <<>>
<1>1. q \in 1 .. Len(s)
  BY LenProperties
<1>2. s = <<>> => Len(s) = 0
  BY EmptySeq
<1> QED
  BY <1>1, <1>2

LEMMA GrowsKeeps ==
    ASSUME NEW a \in Seq(SoundTable), NEW b \in Seq(SoundTable), NEW fresh, Grows(a, b, fresh),
           NEW k \in Nat, k \notin fresh, NEW n \in Nat, n > 0, NEW w \in BOOLEAN, KeptIn(a, k, n, w)
    PROVE  KeptIn(b, k, n, w)
<1>1. PICK h \in DOMAIN a : \E lo \in Nat :
        /\ lo + 1 .. lo + n \subseteq DOMAIN a[h].from
        /\ \A m \in DOMAIN a : \A q \in DOMAIN a[m].from :
             a[m].from[q] = k <=> m = h /\ q \in lo + 1 .. lo + n
        /\ w => a[h].writable
  BY DEF KeptIn
<1>2. PICK lo \in Nat :
        /\ lo + 1 .. lo + n \subseteq DOMAIN a[h].from
        /\ \A m \in DOMAIN a : \A q \in DOMAIN a[m].from :
             a[m].from[q] = k <=> m = h /\ q \in lo + 1 .. lo + n
        /\ w => a[h].writable
  BY <1>1
<1>3. \A m \in DOMAIN a : a[m] \in SoundTable /\ a[m].from \in Seq(Nat)
  BY LenProperties, ElementOfSeq, TableFields
<1>4. \A m \in DOMAIN a : \A q \in DOMAIN a[m].from : a[m].from # <<>>
  BY <1>3, NotEmpty
<1>5. lo + 1 \in lo + 1 .. lo + n
  OBVIOUS
<1>6. a[h].from # <<>>
  BY <1>2, <1>4, <1>5
<1>7. /\ h \in DOMAIN b /\ b[h].writable = a[h].writable
      /\ \A q \in DOMAIN a[h].from : q \in DOMAIN b[h].from /\ b[h].from[q] = a[h].from[q]
  BY <1>6 DEF Grows
<1>8. lo + 1 .. lo + n \subseteq DOMAIN b[h].from
  BY <1>2, <1>7
<1>9. ASSUME NEW m \in DOMAIN b, NEW q \in DOMAIN b[m].from
      PROVE  b[m].from[q] = k <=> m = h /\ q \in lo + 1 .. lo + n
  <2>1. CASE m \in DOMAIN a /\ q \in DOMAIN a[m].from
    <3>1. b[m].from[q] = a[m].from[q]
      BY <1>4, <2>1 DEF Grows
    <3> QED
      BY <1>2, <2>1, <3>1
  <2>2. CASE ~ (m \in DOMAIN a /\ q \in DOMAIN a[m].from)
    <3>1. b[m].from[q] # k
      BY <2>2 DEF Grows
    <3>2. ~ (m = h /\ q \in lo + 1 .. lo + n)
      BY <1>2, <2>2
    <3> QED
      BY <3>1, <3>2
  <2> QED
    BY <2>1, <2>2
<1>10. w => b[h].writable
  BY <1>2, <1>7
<1> QED
  BY <1>7, <1>8, <1>9, <1>10, SMTT(40) DEF KeptIn

LEMMA GrowsTransitively ==
    ASSUME NEW a \in Seq(SoundTable), NEW b \in Seq(SoundTable), NEW c \in Seq(SoundTable),
           NEW S, NEW T, Grows(a, b, S), Grows(b, c, T)
    PROVE  Grows(a, c, S \cup T)
<1>1. /\ \A m \in DOMAIN a : a[m].from \in Seq(Nat)
      /\ \A m \in DOMAIN b : b[m].from \in Seq(Nat)
  BY LenProperties, ElementOfSeq, TableFields
<1>2. /\ \A m \in DOMAIN a : \A q \in DOMAIN a[m].from : a[m].from # <<>>
      /\ \A m \in DOMAIN b : \A q \in DOMAIN b[m].from : b[m].from # <<>>
  BY <1>1, NotEmpty
<1>3. ASSUME NEW m \in DOMAIN a, a[m].from # <<>>
      PROVE  /\ m \in DOMAIN c /\ c[m].writable = a[m].writable
             /\ \A q \in DOMAIN a[m].from : q \in DOMAIN c[m].from /\ c[m].from[q] = a[m].from[q]
  <2>1. /\ m \in DOMAIN b /\ b[m].writable = a[m].writable
        /\ \A q \in DOMAIN a[m].from : q \in DOMAIN b[m].from /\ b[m].from[q] = a[m].from[q]
    BY <1>3 DEF Grows
  <2>2. \E q : q \in DOMAIN a[m].from
    <3>1. Len(a[m].from) \in Nat \ {0}
      BY <1>1, <1>3, EmptySeq
    <3>2. 1 \in DOMAIN a[m].from
      BY <1>1, <3>1, LenProperties
    <3> QED
      BY <3>2
  <2>3. b[m].from # <<>>
    BY <1>2, <2>1, <2>2
  <2> QED
    BY <2>1, <2>3 DEF Grows
<1>4. ASSUME NEW m \in DOMAIN c, NEW q \in DOMAIN c[m].from
      PROVE  (m \in DOMAIN a /\ q \in DOMAIN a[m].from) \/ c[m].from[q] \in S \cup T
  <2>1. CASE m \in DOMAIN b /\ q \in DOMAIN b[m].from
    <3>1. c[m].from[q] = b[m].from[q]
      BY <1>2, <2>1 DEF Grows
    <3> QED
      BY <2>1, <3>1 DEF Grows
  <2>2. CASE ~ (m \in DOMAIN b /\ q \in DOMAIN b[m].from)
    BY <2>2 DEF Grows
  <2> QED
    BY <2>1, <2>2
<1> QED
  BY <1>3, <1>4 DEF Grows

\* One table more.
LEMMA GrowsByTable ==
    ASSUME NEW s \in Seq(SoundTable), NEW x \in SoundTable, NEW fresh,
           \A q \in DOMAIN x.from : x.from[q] \in fresh
    PROVE  s \o <<x>> \in Seq(SoundTable) /\ Grows(s, s \o <<x>>, fresh)
<1>1. <<x>> \in Seq(SoundTable) /\ Len(<<x>>) = 1 /\ <<x>>[1] = x
  OBVIOUS
<1>2. /\ s \o <<x>> \in Seq(SoundTable) /\ Len(s \o <<x>>) = Len(s) + 1
      /\ \A i \in 1 .. Len(s) + 1 : (s \o <<x>>)[i] = IF i <= Len(s) THEN s[i] ELSE <<x>>[i - Len(s)]
  BY <1>1, ConcatProperties
<1>3. DOMAIN s = 1 .. Len(s) /\ Len(s) \in Nat /\ DOMAIN (s \o <<x>>) = 1 .. Len(s) + 1
  BY <1>2, LenProperties
<1> DEFINE b == s \o <<x>>
<1>4. /\ \A i \in DOMAIN s : i \in DOMAIN b /\ b[i] = s[i]
      /\ \A i \in DOMAIN b : i \in DOMAIN s \/ b[i] = x
  BY <1>1, <1>2, <1>3
<1>5. b \in Seq(SoundTable)
  BY <1>2
<1> HIDE DEF b
<1>6. Grows(s, b, fresh)
  BY <1>4 DEF Grows
<1> QED
  BY <1>5, <1>6 DEF b

LEMMA LastFacts ==
    ASSUME NEW s \in Seq(SoundTable), NEW x \in SoundTable
    PROVE  /\ \A m \in DOMAIN s : m \in DOMAIN (s \o <<x>>) /\ (s \o <<x>>)[m] = s[m]
           /\ \A m \in DOMAIN (s \o <<x>>) : m \in DOMAIN s \/ (s \o <<x>>)[m] = x
           /\ \E m \in DOMAIN (s \o <<x>>) : (s \o <<x>>)[m] = x
<1> DEFINE b == s \o <<x>>
<1>1. <<x>> \in Seq(SoundTable) /\ Len(<<x>>) = 1 /\ <<x>>[1] = x
  OBVIOUS
<1>2. /\ b \in Seq(SoundTable) /\ Len(b) = Len(s) + 1
      /\ \A i \in 1 .. Len(s) + 1 : b[i] = IF i <= Len(s) THEN s[i] ELSE <<x>>[i - Len(s)]
  BY <1>1, ConcatProperties
<1> HIDE DEF b
<1>3. DOMAIN s = 1 .. Len(s) /\ Len(s) \in Nat /\ DOMAIN b = 1 .. Len(s) + 1
  BY <1>2, LenProperties
<1>4. /\ \A i \in DOMAIN s : i \in DOMAIN b /\ b[i] = s[i]
      /\ \A i \in DOMAIN b : i \in DOMAIN s \/ b[i] = x
      /\ Len(s) + 1 \in DOMAIN b /\ b[Len(s) + 1] = x
  BY <1>1, <1>2, <1>3
<1> QED
  BY <1>4 DEF b

\* The last table made longer.
LEMMA GrowsAtEnd ==
    ASSUME NEW s \in Seq(SoundTable), NEW c \in SoundTable, NEW x \in SoundTable, NEW fresh,
           NEW more \in Seq(Nat), x.from = c.from \o more, \A q \in DOMAIN more : more[q] \in fresh,
           x.writable = c.writable
    PROVE  /\ s \o <<c>> \in Seq(SoundTable) /\ s \o <<x>> \in Seq(SoundTable)
           /\ Grows(s \o <<c>>, s \o <<x>>, fresh)
<1>1. /\ <<x>> \in Seq(SoundTable) /\ Len(<<x>>) = 1 /\ <<x>>[1] = x
      /\ <<c>> \in Seq(SoundTable) /\ Len(<<c>>) = 1 /\ <<c>>[1] = c
  OBVIOUS
<1> DEFINE a == s \o <<c>>
           b == s \o <<x>>
<1>2. /\ b \in Seq(SoundTable) /\ Len(b) = Len(s) + 1
      /\ \A i \in 1 .. Len(s) + 1 : b[i] = IF i <= Len(s) THEN s[i] ELSE <<x>>[i - Len(s)]
  BY <1>1, ConcatProperties
<1>3. /\ a \in Seq(SoundTable) /\ Len(a) = Len(s) + 1
      /\ \A i \in 1 .. Len(s) + 1 : a[i] = IF i <= Len(s) THEN s[i] ELSE <<c>>[i - Len(s)]
  BY <1>1, ConcatProperties
<1>4. Len(s) \in Nat /\ DOMAIN a = 1 .. Len(s) + 1 /\ DOMAIN b = 1 .. Len(s) + 1
  <2> HIDE DEF a, b
  <2> QED
    BY <1>2, <1>3, LenProperties
<1> HIDE DEF a, b
<1>5. /\ DOMAIN a = DOMAIN b
      /\ \A i \in DOMAIN a : b[i] = a[i] \/ (a[i] = c /\ b[i] = x)
  BY <1>1, <1>2, <1>3, <1>4
<1>6. /\ c.from \in Seq(Nat) /\ Len(x.from) = Len(c.from) + Len(more) /\ x.from \in Seq(Nat)
      /\ \A i \in 1 .. Len(c.from) + Len(more) :
           x.from[i] = IF i <= Len(c.from) THEN c.from[i] ELSE more[i - Len(c.from)]
  <2>1. c.from \in Seq(Nat)
    BY TableFields
  <2> QED
    BY <2>1, ConcatProperties
<1>7. /\ DOMAIN c.from = 1 .. Len(c.from) /\ Len(c.from) \in Nat /\ Len(more) \in Nat
      /\ DOMAIN x.from = 1 .. Len(c.from) + Len(more) /\ DOMAIN more = 1 .. Len(more)
  BY <1>6, LenProperties
<1>8. /\ \A q \in DOMAIN c.from : q \in DOMAIN x.from /\ x.from[q] = c.from[q]
      /\ \A q \in DOMAIN x.from : q \in DOMAIN c.from \/ x.from[q] \in fresh
  BY <1>6, <1>7, SMTT(40)
<1>9. Grows(a, b, fresh)
  BY <1>5, <1>8 DEF Grows
<1> QED
  BY <1>2, <1>3, <1>9 DEF a, b

LEMMA GrowsMore ==
    ASSUME NEW a, NEW b, NEW S, NEW T, S \subseteq T, Grows(a, b, S)
    PROVE  Grows(a, b, T)
  BY DEF Grows

\* The same tables but for labels, data and references.
LEMMA GrowsSame ==
    ASSUME NEW a, NEW b, DOMAIN a = DOMAIN b,
           \A m \in DOMAIN a : b[m].from = a[m].from /\ b[m].writable = a[m].writable
    PROVE  Grows(a, b, {})
  BY DEF Grows

LEMMA FillingFacts ==
    ASSUME Tables
    PROVE  /\ Filling \in Seq(SoundTable)
           /\ \A m \in DOMAIN Filling : Filling[m].from \in Seq(Nat)
           /\ cur = <<>> => Filling = tables
           /\ cur # <<>> => Filling = tables \o <<cur[1]>>
<1>1. tables \in Seq(SoundTable) /\ cur \in Seq(SoundTable)
  BY DEF Tables
<1>2. Filling \in Seq(SoundTable)
  BY <1>1, ConcatProperties DEF Filling
<1>3. \A m \in DOMAIN Filling : Filling[m].from \in Seq(Nat)
  BY <1>2, LenProperties, ElementOfSeq, TableFields
<1>4. cur = <<>> => Filling = tables
  BY <1>1, ConcatEmptySeq DEF Filling
<1>5. cur # <<>> => Filling = tables \o <<cur[1]>>
  BY CurFacts DEF Filling
<1> QED
  BY <1>2, <1>3, <1>4, <1>5

\* A table that flush drops has nothing in it.
LEMMA FlushGrows ==
    ASSUME Tables
    PROVE  Grows(Filling, Flushed, {})
<1>1. Filling \in Seq(SoundTable)
  BY FillingFacts
<1>2. CASE cur # <<>> /\ cur[1].data # <<>>
  <2>1. Flushed = Filling
    BY <1>2 DEF Flushed, Filling
  <2> QED
    BY <2>1, GrowsSame
<1>3. CASE cur = <<>>
  <2>1. Flushed = Filling
    BY <1>3, FillingFacts DEF Flushed
  <2> QED
    BY <2>1, GrowsSame
<1>4. CASE cur # <<>> /\ cur[1].data = <<>>
  <2>1. Flushed = tables /\ Filling = tables \o <<cur[1]>> /\ tables \in Seq(SoundTable)
    BY <1>4, FillingFacts DEF Flushed, Tables
  <2>2. /\ <<cur[1]>> \in Seq(SoundTable) /\ Len(<<cur[1]>>) = 1 /\ <<cur[1]>>[1] = cur[1]
        /\ cur[1] \in SoundTable
    BY <1>4, CurFacts
  <2>3. cur[1].from = <<>>
    <3>1. Len(cur[1].from) = 0 /\ cur[1].from \in Seq(Nat)
      BY <1>4, <2>2, TableFields, EmptySeq
    <3> QED
      BY <3>1, EmptySeq
  <2>4. /\ Len(tables \o <<cur[1]>>) = Len(tables) + 1
        /\ \A i \in 1 .. Len(tables) + 1 :
             (tables \o <<cur[1]>>)[i] = IF i <= Len(tables) THEN tables[i] ELSE <<cur[1]>>[i - Len(tables)]
    BY <2>1, <2>2, ConcatProperties
  <2>5. DOMAIN tables = 1 .. Len(tables) /\ Len(tables) \in Nat /\ DOMAIN Filling = 1 .. Len(tables) + 1
    BY <1>1, <2>1, <2>4, LenProperties
  <2>6. /\ \A m \in DOMAIN tables : m \in DOMAIN Filling /\ Filling[m] = tables[m]
        /\ \A m \in DOMAIN Filling : m \in DOMAIN tables \/ Filling[m] = cur[1]
    BY <2>1, <2>2, <2>4, <2>5
  <2> QED
    BY <2>1, <2>3, <2>6 DEF Grows
<1> QED
  BY <1>2, <1>3, <1>4

\* The bytes of the line that has just been put at the end.
LEMMA AppendedKept ==
    ASSUME NEW s \in Seq(SoundTable), NEW x \in SoundTable, NEW old \in Seq(Nat),
           NEW n \in Nat, n > 0, NEW k \in Nat, NEW w \in BOOLEAN,
           x.from = old \o [i \in 1 .. n |-> k],
           \A q \in DOMAIN old : old[q] # k,
           \A m \in DOMAIN s : \A q \in DOMAIN s[m].from : s[m].from[q] # k,
           w => x.writable
    PROVE  KeptIn(s \o <<x>>, k, n, w)
<1> DEFINE b == s \o <<x>>
           new == [i \in 1 .. n |-> k]
           lo == Len(old)
           h == Len(s) + 1
<1>1. /\ <<x>> \in Seq(SoundTable) /\ Len(<<x>>) = 1 /\ <<x>>[1] = x
  OBVIOUS
<1>2. /\ b \in Seq(SoundTable) /\ Len(b) = Len(s) + 1
      /\ \A i \in 1 .. Len(s) + 1 : b[i] = IF i <= Len(s) THEN s[i] ELSE <<x>>[i - Len(s)]
  BY <1>1, ConcatProperties
<1>3. Len(s) \in Nat /\ DOMAIN s = 1 .. Len(s) /\ DOMAIN b = 1 .. Len(s) + 1
  <2> HIDE DEF b
  <2> QED
    BY <1>2, LenProperties
<1>4. new \in Seq(Nat) /\ Len(new) = n /\ \A i \in 1 .. n : new[i] = k
  OBVIOUS
<1> HIDE DEF b, new
<1>5. /\ x.from \in Seq(Nat) /\ Len(x.from) = lo + n
      /\ \A i \in 1 .. lo + n : x.from[i] = IF i <= lo THEN old[i] ELSE new[i - lo]
  <2>1. x.from = old \o new
    BY DEF new
  <2> QED
    BY <1>4, <2>1, ConcatProperties
<1>6. lo \in Nat /\ DOMAIN old = 1 .. lo /\ DOMAIN x.from = 1 .. lo + n
  BY <1>5, LenProperties
<1> HIDE DEF lo
<1>7. h \in DOMAIN b /\ b[h] = x /\ \A m \in DOMAIN b : m # h => m \in DOMAIN s /\ b[m] = s[m]
  BY <1>1, <1>2, <1>3
<1> HIDE DEF h
<1>8. \A q \in DOMAIN x.from : x.from[q] = k <=> q \in lo + 1 .. lo + n
  <2> SUFFICES ASSUME NEW q \in 1 .. lo + n PROVE x.from[q] = k <=> q \in lo + 1 .. lo + n
    BY <1>6
  <2>1. CASE q <= lo
    <3>1. q \in DOMAIN old /\ x.from[q] = old[q]
      BY <1>5, <1>6, <2>1
    <3> QED
      BY <1>6, <2>1, <3>1
  <2>2. CASE ~ (q <= lo)
    <3>1. q - lo \in 1 .. n /\ q \in lo + 1 .. lo + n
      BY <1>6, <2>2
    <3>2. x.from[q] = k
      BY <1>4, <1>5, <2>2, <3>1
    <3> QED
      BY <3>1, <3>2
  <2> QED
    BY <2>1, <2>2
<1>9. lo + 1 .. lo + n \subseteq DOMAIN b[h].from
  BY <1>6, <1>7
<1>10. ASSUME NEW m \in DOMAIN b, NEW q \in DOMAIN b[m].from
       PROVE  b[m].from[q] = k <=> m = h /\ q \in lo + 1 .. lo + n
  <2>1. CASE m = h
    BY <1>7, <1>8, <2>1
  <2>2. CASE m # h
    <3>1. m \in DOMAIN s /\ b[m] = s[m]
      BY <1>7, <2>2
    <3> QED
      BY <2>2, <3>1
  <2> QED
    BY <2>1, <2>2
<1>11. KeptIn(b, k, n, w)
  BY <1>6, <1>7, <1>9, <1>10 DEF KeptIn
<1> QED
  BY <1>11 DEF b

\* The section directive in force at the next line.
LEMMA SectionFacts ==
    ASSUME Source, line <= Len(program)
    PROVE  /\ Current.op = "section" => SectionOf(line + 1) = {line}
           /\ Current.op # "section" => SectionOf(line + 1) = SectionOf(line)
<1>1. line \in Nat /\ line >= 1
  BY CurrentFacts DEF Source
<1>2. (line + 1) - 1 = line
  BY <1>1
<1>3. ASSUME Current.op = "section" PROVE SectionOf(line + 1) = {line}
  <2>1. line \in SectionOf(line + 1)
    BY <1>1, <1>3 DEF SectionOf, Current
  <2>2. ASSUME NEW j \in SectionOf(line + 1) PROVE j = line
    <3>1. j \in 1 .. line /\ \A i \in j + 1 .. line : program[i].op # "section"
      BY <1>1 DEF SectionOf
    <3>2. CASE j < line
      <4>1. line \in j + 1 .. line
        BY <1>1, <3>1, <3>2
      <4> QED
        BY <1>3, <3>1, <4>1 DEF Current
    <3> QED
      BY <1>1, <3>1, <3>2
  <2> QED
    BY <2>1, <2>2
<1>4. ASSUME Current.op # "section" PROVE SectionOf(line + 1) = SectionOf(line)
  <2>1. ASSUME NEW j
        PROVE  j \in SectionOf(line + 1) <=> j \in SectionOf(line)
    <3>1. j \in SectionOf(line + 1) <=>
            /\ j \in 1 .. line /\ program[j].op = "section"
            /\ \A i \in j + 1 .. line : program[i].op # "section"
      BY <1>2 DEF SectionOf
    <3>2. j \in SectionOf(line) <=>
            /\ j \in 1 .. line - 1 /\ program[j].op = "section"
            /\ \A i \in j + 1 .. line - 1 : program[i].op # "section"
      BY DEF SectionOf
    <3>3. j \in 1 .. line - 1 => \A i : i \in j + 1 .. line <=> i \in j + 1 .. line - 1 \/ i = line
      BY <1>1
    <3>4. j \in 1 .. line /\ program[j].op = "section" => j \in 1 .. line - 1
      BY <1>1, <1>4 DEF Current
    <3>5. j \in 1 .. line - 1 => j \in 1 .. line
      BY <1>1
    <3>6. program[line].op # "section"
      BY <1>4 DEF Current
    <3>7. ASSUME j \in SectionOf(line + 1) PROVE j \in SectionOf(line)
      BY <3>1, <3>2, <3>3, <3>4, <3>7
    <3>8. ASSUME j \in SectionOf(line) PROVE j \in SectionOf(line + 1)
      BY <3>1, <3>2, <3>3, <3>5, <3>6, <3>8
    <3> QED
      BY <3>7, <3>8
  <2> QED
    BY <2>1
<1> QED
  BY <1>3, <1>4

LEMMA BytesFacts ==
    ASSUME Source, NEW k \in DOMAIN program
    PROVE  Bytes(k) \in Nat /\ MustWrite(k) \in BOOLEAN /\ k \in Nat /\ k >= 1
<1>1. program \in Seq(SourceLine)
  BY ProgramsAssumption DEF Source
<1>2. k \in 1 .. Len(program) /\ Len(program) \in Nat
  BY <1>1, LenProperties
<1>3. program[k] \in SourceLine
  BY <1>1, <1>2, ElementOfSeq
<1>4. program[k].width \in Nat /\ program[k].size \in Nat /\ Len(program[k].bytes) \in Nat
  BY <1>3, LineFields
<1>5. Bytes(k) \in Nat
  BY <1>4 DEF Bytes
<1>6. MustWrite(k) \in BOOLEAN
  BY DEF MustWrite, IsWritable, IsCommon
<1> QED
  BY <1>2, <1>5, <1>6

\* The parts of the invariant that only the source decides.
LEMMA SourceStays ==
    ASSUME program' = program, NEW k
    PROVE  /\ Bytes(k)' = Bytes(k) /\ MustWrite(k)' = MustWrite(k) /\ Defines(k)' = Defines(k)
           /\ IsData(k)' = IsData(k) /\ IsWritable(k)' = IsWritable(k)
<1>1. SectionOf(k)' = SectionOf(k)
  BY DEF SectionOf
<1>2. IsData(k)' = IsData(k) /\ IsWritable(k)' = IsWritable(k)
  BY <1>1 DEF IsData, IsWritable
<1>3. Bytes(k)' = Bytes(k) /\ IsCommon(k)' = IsCommon(k)
  BY DEF Bytes, IsCommon
<1> QED
  BY <1>2, <1>3 DEF MustWrite, Defines, IsCommon

LEMMA ScanKeepsBytes ==
    ASSUME BInv, TInv', Scanning, phase' = "scan", program' = program, line' = line + 1,
           Grows(Filling, Filling', {0, line}),
           Defines(line) => KeptIn(Filling', line, Bytes(line), MustWrite(line)),
           IsData(line + 1) => inData' /\ (IsWritable(line + 1) => cur'[1].writable)
    PROVE  BInv'
<1>1. phase = "scan" /\ line <= Len(program) /\ Source /\ Tables
  BY DEF Scanning, BInv, TInv
<1>2. line \in Nat /\ line >= 1 /\ program \in Seq(SourceLine)
  BY <1>1, ProgramsAssumption, CurrentFacts DEF Source
<1>3. Filling \in Seq(SoundTable) /\ \A m \in DOMAIN Filling : Filling[m].from \in Seq(Nat)
  BY <1>1, FillingFacts
<1>4. Filling' \in Seq(SoundTable) /\ \A m \in DOMAIN Filling' : Filling'[m].from \in Seq(Nat)
  <2>1. (Tables => Filling \in Seq(SoundTable) /\ \A m \in DOMAIN Filling : Filling[m].from \in Seq(Nat))'
    BY FillingFacts, PTL
  <2>2. Tables'
    BY DEF TInv
  <2> QED
    BY <2>1, <2>2
<1>5. ASSUME NEW m \in DOMAIN Filling', NEW q \in DOMAIN Filling'[m].from
      PROVE  Filling'[m].from[q] < line + 1
  <2>1. CASE m \in DOMAIN Filling /\ q \in DOMAIN Filling[m].from
    <3>1. Filling[m].from # <<>>
      BY <1>3, <2>1, NotEmpty
    <3>2. Filling'[m].from[q] = Filling[m].from[q]
      BY <2>1, <3>1 DEF Grows
    <3>3. Filling[m].from[q] < line /\ Filling[m].from[q] \in Nat
      BY <1>1, <1>3, <2>1 DEF BInv
    <3> QED
      BY <1>2, <3>2, <3>3
  <2>2. CASE ~ (m \in DOMAIN Filling /\ q \in DOMAIN Filling[m].from)
    <3>1. Filling'[m].from[q] \in {0, line}
      BY <2>2 DEF Grows
    <3> QED
      BY <1>2, <3>1
  <2> QED
    BY <2>1, <2>2
<1>6. ASSUME NEW k \in 1 .. line, Defines(k)
      PROVE  KeptIn(Filling', k, Bytes(k), MustWrite(k))
  <2>1. CASE k = line
    BY <1>6, <2>1
  <2>2. CASE k # line
    <3>1. k \in Nat /\ k \in 1 .. line - 1 /\ k \notin {0, line} /\ k \in 1 .. Len(program)
      BY <1>1, <1>2, <2>2, LenProperties
    <3>2. KeptIn(Filling, k, Bytes(k), MustWrite(k))
      BY <1>1, <1>6, <3>1 DEF BInv, Seen
    <3>3. Bytes(k) \in Nat /\ MustWrite(k) \in BOOLEAN /\ Bytes(k) > 0
      BY <1>1, <1>2, <1>6, <3>1, BytesFacts, LenProperties DEF Defines
    <3> QED
      BY <1>3, <1>4, <3>1, <3>2, <3>3, GrowsKeeps
  <2> QED
    BY <2>1, <2>2
<1>7. 1 .. line' - 1 = 1 .. line
  BY <1>2
<1>8. \A k \in Seen' : Defines(k)' => KeptIn(Filling', k, Bytes(k)', MustWrite(k)')
  BY <1>6, <1>7, SourceStays DEF Seen
<1>9. IsData(line)' => inData' /\ (IsWritable(line)' => cur'[1].writable)
  BY DEF IsData, IsWritable, SectionOf
<1>10. \A m \in DOMAIN Filling' : \A q \in DOMAIN Filling'[m].from : Filling'[m].from[q] < line'
  BY <1>5
<1> QED
  BY <1>8, <1>9, <1>10 DEF BInv

\* What the steps of the scan need of the invariant.
LEMMA ScanBytesFacts ==
    ASSUME BInv, Scanning
    PROVE  /\ TInv /\ Source /\ Tables /\ line \in DOMAIN program /\ line \in Nat /\ line >= 1
           /\ Filling \in Seq(SoundTable)
           /\ \A m \in DOMAIN Filling : Filling[m].from \in Seq(Nat)
           /\ \A m \in DOMAIN Filling : \A q \in DOMAIN Filling[m].from : Filling[m].from[q] < line
           /\ IsData(line) => inData /\ (IsWritable(line) => cur[1].writable)
<1>1. TInv /\ Source /\ Tables /\ phase = "scan" /\ line <= Len(program)
  BY DEF BInv, TInv, Scanning
<1>2. program \in Seq(SourceLine)
  BY <1>1, ProgramsAssumption DEF Source
<1>3. line \in DOMAIN program /\ line \in Nat /\ line >= 1
  BY <1>1, <1>2, CurrentFacts, LenProperties DEF Source
<1>4. Filling \in Seq(SoundTable) /\ \A m \in DOMAIN Filling : Filling[m].from \in Seq(Nat)
  BY <1>1, FillingFacts
<1> QED
  BY <1>1, <1>3, <1>4 DEF BInv

\* A line that is no section directive leaves the section as it is.
LEMMA SectionStays ==
    ASSUME Source, line <= Len(program), Current.op # "section"
    PROVE  IsData(line + 1) = IsData(line) /\ IsWritable(line + 1) = IsWritable(line)
<1>1. SectionOf(line + 1) = SectionOf(line)
  BY SectionFacts
<1> QED
  BY <1>1 DEF IsData, IsWritable

LEMMA SameFillingKeepsBytes ==
    ASSUME BInv, TInv', Scanning, Read(tables, cur, inData), Current.op # "section", ~ Defines(line)
    PROVE  BInv' /\ Grows(Filling, Filling', {0, line})
<1>1. /\ tables' = tables /\ cur' = cur /\ inData' = inData /\ phase' = "scan"
      /\ program' = program /\ line' = line + 1
  BY DEF Read, Scanning
<1>2. Grows(Filling, Filling', {0, line})
  <2>1. Filling' = Filling
    BY <1>1 DEF Filling
  <2> QED
    BY <2>1, GrowsSame, GrowsMore
<1>3. IsData(line + 1) => inData' /\ (IsWritable(line + 1) => cur'[1].writable)
  BY <1>1, ScanBytesFacts, SectionStays DEF Scanning
<1> QED
  BY <1>1, <1>2, <1>3, ScanKeepsBytes

\* Bytes of a line go to the end of the open table.
LEMMA ReadIntoKeepsBytes ==
    ASSUME BInv, TInv', Scanning, Collecting, NEW table \in SoundTable, ReadInto(table),
           NEW b \in Nat,
           table.from = cur[1].from \o [i \in 1 .. b |-> line], table.writable = cur[1].writable,
           Current.op \notin {"section", "common"}, Bytes(line) \in {0, b}
    PROVE  BInv' /\ Grows(Filling, Filling', {0, line})
<1>1. /\ tables' = tables /\ cur' = <<table>> /\ inData' = inData /\ phase' = "scan"
      /\ program' = program /\ line' = line + 1
  BY DEF ReadInto, Read, Scanning
<1>2. /\ Source /\ Tables /\ line \in Nat /\ line >= 1 /\ line \in DOMAIN program
      /\ tables \in Seq(SoundTable) /\ cur # <<>>
  BY ScanBytesFacts DEF Tables, Collecting
<1>3. cur[1] \in SoundTable /\ cur[1].from \in Seq(Nat)
  BY <1>2, CurFacts, TableFields
<1>4. Filling = tables \o <<cur[1]>> /\ Filling' = tables \o <<table>>
  BY <1>1, <1>2, FillingFacts DEF Filling
<1> DEFINE more == [i \in 1 .. b |-> line]
<1>5. more \in Seq(Nat) /\ \A q \in DOMAIN more : more[q] \in {0, line}
  BY <1>2
<1>6. Grows(Filling, Filling', {0, line})
  <2> HIDE DEF more
  <2>1. table.from = cur[1].from \o more
    BY DEF more
  <2> QED
    BY <1>2, <1>3, <1>4, <1>5, <2>1, GrowsAtEnd
<1>7. ASSUME Defines(line) PROVE KeptIn(Filling', line, Bytes(line), MustWrite(line))
  <2>1. IsData(line) /\ Bytes(line) = b /\ b > 0 /\ (MustWrite(line) => IsWritable(line))
    <3>1. ~ IsCommon(line)
      BY DEF IsCommon, Current
    <3>2. Bytes(line) > 0
      BY <1>7 DEF Defines
    <3>3. Bytes(line) = b
      BY <3>2
    <3>4. IsData(line) /\ (MustWrite(line) => IsWritable(line))
      BY <1>7, <3>1 DEF Defines, IsCommon, MustWrite
    <3> QED
      BY <3>2, <3>3, <3>4
  <2>2. MustWrite(line) => table.writable
    BY <2>1, ScanBytesFacts
  <2>3. /\ \A m \in DOMAIN Filling : \A q \in DOMAIN Filling[m].from :
             Filling[m].from[q] < line /\ Filling[m].from[q] \in Nat
        /\ Filling \in Seq(SoundTable)
    BY ScanBytesFacts
  <2>4. /\ \A m \in DOMAIN Filling : \A q \in DOMAIN Filling[m].from : Filling[m].from[q] # line
    BY <1>2, <2>3
  <2>5. /\ \A m \in DOMAIN tables : m \in DOMAIN Filling /\ Filling[m] = tables[m]
        /\ \E m \in DOMAIN Filling : Filling[m] = cur[1]
    <3>1. /\ \A m \in DOMAIN tables : m \in DOMAIN (tables \o <<cur[1]>>) /\ (tables \o <<cur[1]>>)[m] = tables[m]
          /\ \E m \in DOMAIN (tables \o <<cur[1]>>) : (tables \o <<cur[1]>>)[m] = cur[1]
      BY <1>2, <1>3, LastFacts
    <3> QED
      BY <1>4, <3>1
  <2>6. /\ \A m \in DOMAIN tables : \A q \in DOMAIN tables[m].from : tables[m].from[q] # line
        /\ \A q \in DOMAIN cur[1].from : cur[1].from[q] # line
    BY <2>4, <2>5
  <2>7. MustWrite(line) \in BOOLEAN
    BY <1>2, BytesFacts
  <2>8. KeptIn(tables \o <<table>>, line, b, MustWrite(line))
    BY <1>2, <1>3, <2>1, <2>2, <2>6, <2>7, AppendedKept
  <2> QED
    BY <1>4, <2>1, <2>8
<1>8. IsData(line + 1) => inData' /\ (IsWritable(line + 1) => cur'[1].writable)
  BY <1>1, ScanBytesFacts, SectionStays DEF Scanning
<1> QED
  BY <1>1, <1>6, <1>7, <1>8, ScanKeepsBytes

\* A line adds the bytes it defines, or none that count: those of an alignment.
LEMMA DataBytes ==
    ASSUME Current \in SourceLine, Current.op \in {"bytes", "number", "zero", "align"}
    PROVE  Bytes(line) \in {0, Len(DataOf(Current))}
<1>1. Current.width \in Nat /\ Current.size \in Nat /\ Current.val \in Int
  BY LineFields
<1>2. CASE Current.op = "bytes"
  BY <1>2 DEF Bytes, DataOf, Current
<1>3. CASE Current.op = "number"
  <2>1. Len(DataOf(Current)) = Current.width
    BY <1>1, <1>3, LittleEndianFacts DEF DataOf
  <2> QED
    BY <1>3, <2>1 DEF Bytes, Current
<1>4. CASE Current.op = "zero"
  <2>1. Len(DataOf(Current)) = Current.size
    BY <1>1, <1>4, ZerosFacts DEF DataOf
  <2> QED
    BY <1>4, <2>1 DEF Bytes, Current
<1>5. CASE Current.op = "align"
  BY <1>5 DEF Bytes, Current
<1> QED
  BY <1>2, <1>3, <1>4, <1>5

LEMMA PutBytesKeepsBytes ==
    ASSUME BInv, TInv', PutBytes
    PROVE  BInv' /\ Grows(Filling, Filling', {0, line})
<1> DEFINE d == DataOf(Current)
           table == Extended(cur[1], d)
<1>1. /\ Scanning /\ Collecting /\ Current.op \in {"bytes", "number", "zero", "align"}
      /\ ReadInto(table)
  BY DEF PutBytes
<1>2. /\ TInv /\ Source /\ cur[1] \in SoundTable /\ line \in Nat /\ Current \in SourceLine
      /\ Current.bytes \in Seq(Byte) /\ Current.width \in Nat /\ Current.size \in Nat /\ Current.val \in Int
  BY <1>1, ScanBytesFacts, CurFacts, ScanFacts, LineFields DEF Collecting
<1>3. d \in Seq(Byte)
  BY <1>1, <1>2, DataOfFacts
<1>4. Bytes(line) \in {0, Len(d)}
  BY <1>1, <1>2, DataBytes
<1> HIDE DEF d
<1>5. /\ table \in SoundTable /\ table.writable = cur[1].writable
      /\ table.from = cur[1].from \o [k \in DOMAIN d |-> line]
  BY <1>2, <1>3, ExtendedFacts DEF Extended
<1>6. DOMAIN d = 1 .. Len(d) /\ Len(d) \in Nat
  BY <1>3, LenProperties
<1> HIDE DEF table
<1> QED
  BY <1>1, <1>4, <1>5, <1>6, ReadIntoKeepsBytes

LEMMA PutRelocKeepsBytes ==
    ASSUME BInv, TInv', PutReloc
    PROVE  BInv' /\ Grows(Filling, Filling', {0, line})
<1> DEFINE r == [offset |-> Len(cur[1].data), width |-> Current.width, name |-> Current.sym,
                 sym |-> Strip[Current.sym], add |-> Current.add,
                 sub |-> IF Current.sub = NoName THEN NoName ELSE Strip[Current.sub]]
           d == DataOf(Current)
           e == Extended(cur[1], d)
           table == [e EXCEPT !.relocs = @ \cup {r}]
<1>1. Scanning /\ Collecting /\ Current.op = "symbol" /\ ReadInto(table)
  BY DEF PutReloc
<1>2. /\ TInv /\ Source /\ cur[1] \in SoundTable /\ line \in Nat /\ Current.width \in Nat
  BY <1>1, ScanBytesFacts, CurFacts, ScanFacts, LineFields DEF Collecting
<1>3. d \in Seq(Byte) /\ Len(d) = Current.width
  BY <1>1, <1>2, DataOfFacts
<1>4. Bytes(line) = Len(d)
  BY <1>1, <1>3 DEF Bytes, Current
<1>5. DOMAIN d = 1 .. Len(d) /\ Len(d) \in Nat
  BY <1>3, LenProperties
<1> HIDE DEF r, d
<1>6. /\ e \in SoundTable /\ e.writable = cur[1].writable
      /\ e.from = cur[1].from \o [k \in DOMAIN d |-> line]
  BY <1>2, <1>3, ExtendedFacts DEF Extended
<1> HIDE DEF e
<1>7. table.from = e.from /\ table.writable = e.writable
  BY <1>6, TableFields DEF Table
<1>8. table \in SoundTable
  <2>1. tables' \in Seq(SoundTable) /\ cur' \in Seq(SoundTable)
    BY DEF TInv, Tables
  <2>2. cur' = <<table>>
    BY <1>1 DEF ReadInto, Read
  <2> HIDE DEF table
  <2>3. 1 \in 1 .. Len(cur') /\ cur'[1] = table
    BY <2>2
  <2>4. cur'[1] \in SoundTable
    BY <2>1, <2>3, ElementOfSeq
  <2> QED
    BY <2>3, <2>4
<1> HIDE DEF table
<1> QED
  BY <1>1, <1>4, <1>5, <1>6, <1>7, <1>8, ReadIntoKeepsBytes

LEMMA LabelKeepsBytes ==
    ASSUME BInv, TInv', Label
    PROVE  BInv' /\ Grows(Filling, Filling', {0, line})
<1> DEFINE table == Labelled(cur[1], Current.name)
<1>1. Scanning /\ Collecting /\ Current.op = "label" /\ ReadInto(table)
  BY DEF Label
<1>2. cur[1] \in SoundTable /\ Current.name \in Spelling
  BY <1>1, ScanBytesFacts, CurFacts, ScanFacts, LineFields DEF Collecting
<1>3. table \in SoundTable /\ table.from = cur[1].from /\ table.writable = cur[1].writable
  BY <1>2, LabelledFacts
<1> HIDE DEF table
<1>4. Bytes(line) = 0
  BY <1>1 DEF Bytes, Current
<1>5. table.from = cur[1].from \o [i \in 1 .. 0 |-> line]
  <2>1. [i \in 1 .. 0 |-> line] = <<>>
    OBVIOUS
  <2>2. cur[1].from \in Seq(Nat)
    BY <1>2, TableFields
  <2> QED
    BY <1>3, <2>1, <2>2, ConcatEmptySeq
<1>6. 0 \in Nat /\ Bytes(line) \in {0, 0} /\ Current.op \notin {"section", "common"}
  BY <1>1, <1>4
<1> QED
  BY <1>1, <1>3, <1>5, <1>6, ReadIntoKeepsBytes

LEMMA SkipKeepsBytes ==
    ASSUME BInv, TInv', Skip
    PROVE  BInv' /\ Grows(Filling, Filling', {0, line})
<1>1. Scanning /\ Read(tables, cur, inData) /\ aliases' = aliases
  BY DEF Skip
<1>2. CASE Current.op \in {"lea", "gotmov", "gotuse", "access", "odd"}
  <2>1. Bytes(line) = 0
    BY <1>2 DEF Bytes, Current
  <2> QED
    BY <1>1, <1>2, <2>1, SameFillingKeepsBytes DEF Defines
<1>3. CASE Current.op \notin {"section", "common", "set"} /\ ~ Collecting
  <2>1. ~ IsData(line) /\ ~ IsCommon(line)
    BY <1>1, <1>3, ScanBytesFacts DEF Collecting, Tables, IsCommon, Current
  <2> QED
    BY <1>1, <1>3, <2>1, SameFillingKeepsBytes DEF Defines, IsCommon
<1> QED
  BY <1>2, <1>3 DEF Skip

LEMMA SetAliasKeepsBytes ==
    ASSUME BInv, TInv', SetAlias
    PROVE  BInv' /\ Grows(Filling, Filling', {0, line})
<1>1. Scanning /\ Read(tables, cur, inData) /\ Current.op = "set"
  BY DEF SetAlias
<1>2. Bytes(line) = 0
  BY <1>1 DEF Bytes, Current
<1> QED
  BY <1>1, <1>2, SameFillingKeepsBytes DEF Defines

\* The section directive just read decides what the next line is.
LEMMA SectionReadFacts ==
    ASSUME Source, line <= Len(program), Current.op = "section"
    PROVE  /\ ~ Defines(line)
           /\ IsData(line + 1) => isDataSection(Current)
           /\ IsWritable(line + 1) => isWritableDataSection(Current)
<1>1. SectionOf(line + 1) = {line}
  BY SectionFacts
<1>2. ~ Defines(line)
  BY DEF Defines, Bytes, Current
<1> QED
  BY <1>1, <1>2 DEF IsData, IsWritable, isDataSection, Current

LEMMA TextSectionKeepsBytes ==
    ASSUME BInv, TInv', TextSection
    PROVE  BInv' /\ Grows(Filling, Filling', {0, line})
<1>1. /\ Scanning /\ Current.op = "section" /\ ~ isDataSection(Current)
      /\ tables' = Flushed /\ cur' = <<>> /\ phase' = "scan" /\ program' = program /\ line' = line + 1
  BY DEF TextSection, Read, Scanning
<1>2. Tables /\ Source /\ line <= Len(program)
  BY <1>1, ScanBytesFacts DEF Scanning
<1>3. Filling' = Flushed
  BY <1>1, <1>2, FlushedFacts, ConcatEmptySeq DEF Filling
<1>4. Grows(Filling, Filling', {0, line})
  BY <1>2, <1>3, FlushGrows, GrowsMore
<1> QED
  BY <1>1, <1>2, <1>4, SectionReadFacts, ScanKeepsBytes

LEMMA DataSectionKeepsBytes ==
    ASSUME BInv, TInv', DataSection
    PROVE  BInv' /\ Grows(Filling, Filling', {0, line})
<1> DEFINE w == isWritableDataSection(Current)
<1>1. /\ Scanning /\ Current.op = "section"
      /\ IF Reuses(w) THEN Read(tables, cur, TRUE) ELSE Read(Flushed, <<NewTable(w)>>, TRUE)
  BY DEF DataSection
<1>2. Tables /\ Source /\ TInv /\ line <= Len(program)
  BY <1>1, ScanBytesFacts DEF Scanning
<1>3. w \in BOOLEAN
  BY <1>1, <1>2, ScanFacts, WritableIsBoolean
<1>4. IsWritable(line + 1) => w
  BY <1>1, <1>2, SectionReadFacts
<1> HIDE DEF w
<1>5. phase' = "scan" /\ program' = program /\ line' = line + 1 /\ inData' = TRUE
  BY <1>1 DEF Read, Scanning
<1>6. CASE Reuses(w)
  <2>1. tables' = tables /\ cur' = cur
    BY <1>1, <1>6 DEF Read
  <2>2. Grows(Filling, Filling', {0, line})
    <3>1. Filling' = Filling
      BY <2>1 DEF Filling
    <3> QED
      BY <3>1, GrowsSame, GrowsMore
  <2>3. IsWritable(line + 1) => cur'[1].writable
    BY <1>3, <1>4, <1>6, <2>1 DEF Reuses
  <2> QED
    BY <1>1, <1>2, <1>5, <2>2, <2>3, SectionReadFacts, ScanKeepsBytes
<1>7. CASE ~ Reuses(w)
  <2>1. tables' = Flushed /\ cur' = <<NewTable(w)>>
    BY <1>1, <1>7 DEF Read
  <2>2. /\ NewTable(w) \in SoundTable /\ NewTable(w).writable = w /\ NewTable(w).from = <<>>
        /\ Flushed \in Seq(SoundTable) /\ Filling \in Seq(SoundTable)
    BY <1>2, <1>3, NewTableFacts, FlushedFacts, FillingFacts
  <2>3. /\ Filling' = Flushed \o <<NewTable(w)>>
    BY <2>1 DEF Filling
  <2>4. /\ Flushed \o <<NewTable(w)>> \in Seq(SoundTable)
        /\ Grows(Flushed, Flushed \o <<NewTable(w)>>, {})
    BY <2>2, GrowsByTable
  <2>5. Grows(Filling, Filling', {} \cup {})
    BY <1>2, <2>2, <2>3, <2>4, FlushGrows, GrowsTransitively
  <2>6. Grows(Filling, Filling', {0, line})
    BY <2>5, GrowsMore
  <2>7. cur'[1] = NewTable(w)
    BY <2>1
  <2>8. IsWritable(line + 1) => cur'[1].writable
    BY <1>3, <1>4, <2>2, <2>7
  <2> QED
    BY <1>1, <1>2, <1>5, <2>6, <2>8, SectionReadFacts, ScanKeepsBytes
<1> QED
  BY <1>6, <1>7

\* No byte comes from the line that is being read.
LEMMA UnreadLine ==
    ASSUME BInv, Scanning, NEW nt \in Seq(SoundTable), NEW table \in SoundTable,
           Grows(Filling, nt \o <<table>>, {})
    PROVE  /\ \A m \in DOMAIN nt : \A q \in DOMAIN nt[m].from : nt[m].from[q] # line
           /\ \A q \in DOMAIN table.from : table.from[q] # line
<1> DEFINE whole == nt \o <<table>>
<1>1. /\ Filling \in Seq(SoundTable) /\ \A m \in DOMAIN Filling : Filling[m].from \in Seq(Nat)
      /\ \A m \in DOMAIN Filling : \A q \in DOMAIN Filling[m].from : Filling[m].from[q] < line
      /\ line \in Nat
  BY ScanBytesFacts
<1>2. /\ \A m \in DOMAIN nt : m \in DOMAIN whole /\ whole[m] = nt[m]
      /\ \E m \in DOMAIN whole : whole[m] = table
  BY LastFacts
<1> HIDE DEF whole
<1>3. ASSUME NEW m \in DOMAIN whole, NEW q \in DOMAIN whole[m].from PROVE whole[m].from[q] # line
  <2>1. Grows(Filling, whole, {})
    BY DEF whole
  <2>2. m \in DOMAIN Filling /\ q \in DOMAIN Filling[m].from
    BY <2>1 DEF Grows
  <2>3. Filling[m].from \in Seq(Nat) /\ Filling[m].from # <<>>
    BY <1>1, <2>2, NotEmpty
  <2>4. whole[m].from[q] = Filling[m].from[q]
    BY <2>1, <2>2, <2>3 DEF Grows
  <2>5. Filling[m].from[q] \in Nat /\ Filling[m].from[q] < line
    BY <1>1, <2>2, <2>3, LenProperties, ElementOfSeq
  <2> QED
    BY <1>1, <2>4, <2>5
<1> QED
  BY <1>2, <1>3

LEMMA UnreadPadded ==
    ASSUME NEW s \in Seq(Nat), NEW pad \in Seq(Nat), \A q \in DOMAIN pad : pad[q] = 0,
           NEW k \in Nat, k >= 1, \A q \in DOMAIN s : s[q] # k
    PROVE  \A q \in DOMAIN (s \o pad) : (s \o pad)[q] # k
<1> DEFINE b == s \o pad
<1>1. /\ b \in Seq(Nat) /\ Len(b) = Len(s) + Len(pad)
      /\ \A i \in 1 .. Len(s) + Len(pad) : b[i] = IF i <= Len(s) THEN s[i] ELSE pad[i - Len(s)]
  BY ConcatProperties
<1> HIDE DEF b
<1>2. /\ Len(s) \in Nat /\ DOMAIN s = 1 .. Len(s)
      /\ Len(pad) \in Nat /\ DOMAIN pad = 1 .. Len(pad)
      /\ DOMAIN b = 1 .. Len(s) + Len(pad)
  BY <1>1, LenProperties
<1>3. ASSUME NEW q \in 1 .. Len(s) + Len(pad) PROVE b[q] # k
  <2>1. CASE q <= Len(s)
    <3>1. q \in DOMAIN s
      BY <1>2, <2>1
    <3>2. b[q] = s[q]
      BY <1>1, <2>1
    <3> QED
      BY <3>1, <3>2
  <2>2. CASE ~ (q <= Len(s))
    <3>1. q - Len(s) \in 1 .. Len(pad)
      BY <1>2, <2>2
    <3>2. b[q] = 0
      BY <1>1, <1>2, <2>2, <3>1
    <3> QED
      BY <3>2
  <2> QED
    BY <2>1, <2>2
<1> QED
  BY <1>2, <1>3 DEF b

LEMMA CommonKeepsBytes ==
    ASSUME BInv, TInv', Common
    PROVE  BInv' /\ Grows(Filling, Filling', {0, line})
<1> DEFINE reuse == Reuses(TRUE)
           table == IF reuse THEN cur[1] ELSE NewTable(TRUE)
           p == Padding(table.data, Current.width)
           aligned == ExtendedFrom(0, table, p)
           named == Labelled(aligned, Current.name)
           z == Zeros(Current.size)
           full == Extended(named, z)
           nt == IF reuse THEN tables ELSE Flushed
<1>1. Scanning /\ Read(nt, <<full>>, TRUE) /\ Current.op = "common"
  BY DEF Common
<1>2. /\ TInv /\ Source /\ Tables /\ line <= Len(program) /\ line \in Nat /\ line >= 1
      /\ line \in DOMAIN program
  BY <1>1, ScanBytesFacts DEF Scanning
<1>3. Current.name \in Spelling /\ Current.width \in Nat /\ Current.size \in Nat
  BY <1>1, <1>2, ScanFacts, LineFields
<1>4. reuse => cur # <<>> /\ cur[1] \in SoundTable /\ cur[1].writable = TRUE
  BY <1>2, CurFacts DEF Reuses
<1>5. /\ NewTable(TRUE) \in SoundTable /\ NewTable(TRUE).writable = TRUE /\ NewTable(TRUE).from = <<>>
  BY NewTableFacts
<1> HIDE DEF reuse
<1>6. table \in SoundTable /\ table.writable = TRUE
  BY <1>4, <1>5
<1>7. tables \in Seq(SoundTable) /\ Flushed \in Seq(SoundTable) /\ nt \in Seq(SoundTable)
  BY <1>2, FlushedFacts DEF Tables
<1>8. reuse => Filling = tables \o <<table>>
  BY <1>2, <1>4, FillingFacts
<1>9. ~ reuse => table = NewTable(TRUE)
  OBVIOUS
<1>10. /\ reuse => nt = tables
       /\ ~ reuse => nt = Flushed
  OBVIOUS
<1> HIDE DEF table, nt
<1>11. p \in Seq(Byte)
  BY <1>3, <1>6, TableFields, PaddingFacts
<1> HIDE DEF p
<1>12. /\ aligned \in SoundTable /\ aligned.writable = TRUE
       /\ aligned.from = table.from \o [k \in DOMAIN p |-> 0]
  BY <1>6, <1>11, ExtendedFacts
<1> HIDE DEF aligned
<1>13. named \in SoundTable /\ named.writable = TRUE /\ named.from = aligned.from
  BY <1>3, <1>12, LabelledFacts
<1> HIDE DEF named
<1>14. z \in Seq(Byte) /\ Len(z) = Current.size
  BY <1>3, ZerosFacts
<1> HIDE DEF z
<1>15. /\ full \in SoundTable /\ full.writable = TRUE
       /\ full.from = aligned.from \o [k \in DOMAIN z |-> line]
  <2>1. full = ExtendedFrom(line, named, z)
    BY DEF Extended
  <2> HIDE DEF full
  <2>2. line \in Nat /\ named \in SoundTable /\ z \in Seq(Byte)
    BY <1>2, <1>13, <1>14
  <2>3. /\ full \in SoundTable /\ full.writable = named.writable
        /\ full.from = named.from \o [k \in DOMAIN z |-> line]
    BY ONLY <2>1, <2>2, ExtendedFacts
  <2> QED
    BY <1>13, <2>3
<1> HIDE DEF full
<1>16. DOMAIN z = 1 .. Current.size /\ DOMAIN p = 1 .. Len(p) /\ Len(p) \in Nat
  BY <1>11, <1>14, LenProperties
<1> DEFINE n == Current.size
           zeros == [k \in 1 .. Len(p) |-> 0]
           mine == [k \in 1 .. n |-> line]
<1>17. /\ zeros \in Seq(Nat) /\ (\A q \in DOMAIN zeros : zeros[q] = 0)
       /\ mine \in Seq(Nat) /\ (\A q \in DOMAIN mine : mine[q] = line)
  BY <1>2, <1>3, <1>16
<1>18. aligned.from = table.from \o zeros /\ full.from = aligned.from \o mine
  BY <1>12, <1>15, <1>16
<1> HIDE DEF zeros, n
<1>19. /\ tables' = nt /\ cur' = <<full>> /\ inData' = TRUE /\ phase' = "scan"
       /\ program' = program /\ line' = line + 1
  BY <1>1 DEF Read, Scanning
<1>20. Filling' = nt \o <<full>> /\ nt \o <<full>> \in Seq(SoundTable)
  <2>1. <<full>> \in Seq(SoundTable)
    BY <1>15
  <2> QED
    BY <1>7, <1>19, <2>1, ConcatProperties DEF Filling
<1>21. /\ nt \o <<table>> \in Seq(SoundTable)
       /\ Grows(nt \o <<table>>, nt \o <<aligned>>, {0, line})
       /\ Grows(nt \o <<aligned>>, nt \o <<full>>, {0, line})
       /\ nt \o <<aligned>> \in Seq(SoundTable)
  <2>1. /\ nt \o <<table>> \in Seq(SoundTable) /\ nt \o <<aligned>> \in Seq(SoundTable)
        /\ Grows(nt \o <<table>>, nt \o <<aligned>>, {0, line})
    BY <1>6, <1>7, <1>12, <1>17, <1>18, GrowsAtEnd
  <2> HIDE DEF mine
  <2>2. Grows(nt \o <<aligned>>, nt \o <<full>>, {0, line})
    BY <1>7, <1>12, <1>15, <1>17, <1>18, GrowsAtEnd
  <2> QED
    BY <2>1, <2>2
<1>22. Grows(nt \o <<table>>, Filling', {0, line})
  <2>1. Grows(nt \o <<table>>, nt \o <<full>>, {0, line} \cup {0, line})
    BY <1>20, <1>21, GrowsTransitively
  <2> QED
    BY <1>20, <2>1, GrowsMore
<1>23. Grows(Filling, nt \o <<table>>, {})
  <2>1. CASE reuse
    <3>1. Filling = nt \o <<table>>
      BY <1>8, <1>10, <2>1
    <3> QED
      BY <3>1, GrowsSame
  <2>2. CASE ~ reuse
    <3>1. table.from = <<>> /\ nt = Flushed
      BY <1>5, <1>9, <1>10, <2>2
    <3>2. Grows(Flushed, nt \o <<table>>, {})
      BY <1>6, <1>7, <3>1, GrowsByTable
    <3>3. Grows(Filling, Flushed, {}) /\ Filling \in Seq(SoundTable)
      BY <1>2, FlushGrows, FillingFacts
    <3>4. Grows(Filling, nt \o <<table>>, {} \cup {})
      BY <1>7, <1>21, <3>2, <3>3, GrowsTransitively
    <3> QED
      BY <3>4, GrowsMore
  <2> QED
    BY <2>1, <2>2
<1>24. Grows(Filling, Filling', {0, line})
  <2>1. Filling \in Seq(SoundTable)
    BY <1>2, FillingFacts
  <2>2. Grows(Filling, Filling', {} \cup {0, line})
    BY <1>20, <1>21, <1>22, <1>23, <2>1, GrowsTransitively
  <2> QED
    BY <2>2, GrowsMore
<1>25. ASSUME Defines(line) PROVE KeptIn(Filling', line, Bytes(line), MustWrite(line))
  <2>1. Bytes(line) = n /\ n > 0 /\ n \in Nat /\ MustWrite(line) = TRUE
    <3>1. IsCommon(line) /\ Bytes(line) = n
      BY <1>1 DEF IsCommon, Bytes, Current, n
    <3>2. Bytes(line) > 0
      BY <1>25 DEF Defines
    <3>3. MustWrite(line) \in BOOLEAN /\ Bytes(line) \in Nat
      BY <1>2, BytesFacts
    <3>4. MustWrite(line)
      BY <3>1 DEF MustWrite
    <3> QED
      BY <3>1, <3>2, <3>3, <3>4
  <2>3. /\ \A m \in DOMAIN nt : \A q \in DOMAIN nt[m].from : nt[m].from[q] # line
        /\ \A q \in DOMAIN table.from : table.from[q] # line
    BY <1>1, <1>6, <1>7, <1>23, UnreadLine
  <2>4. aligned.from \in Seq(Nat) /\ \A q \in DOMAIN aligned.from : aligned.from[q] # line
    <3>1. table.from \in Seq(Nat) /\ aligned.from \in Seq(Nat)
      BY <1>6, <1>12, TableFields
    <3> QED
      BY <1>2, <1>17, <1>18, <2>3, <3>1, UnreadPadded
  <2>5. KeptIn(nt \o <<full>>, line, n, TRUE)
    BY <1>2, <1>7, <1>15, <1>18, <2>1, <2>3, <2>4, AppendedKept
  <2> QED
    BY <1>20, <2>1, <2>5
<1>26. IsData(line + 1) => inData' /\ (IsWritable(line + 1) => cur'[1].writable)
  BY <1>15, <1>19
<1> QED
  BY <1>1, <1>19, <1>24, <1>25, <1>26, ScanKeepsBytes

LEMMA EndScanKeepsBytes ==
    ASSUME BInv, TInv', EndScan
    PROVE  BInv'
<1>1. /\ phase = "scan" /\ line > Len(program) /\ phase' = "aliases" /\ tables' = Flushed
      /\ cur' = <<>> /\ program' = program /\ TInv /\ Source /\ Tables
  BY DEF EndScan, BInv, TInv
<1>2. /\ program \in Seq(SourceLine) /\ DOMAIN program = 1 .. Len(program) /\ line - 1 = Len(program)
  BY <1>1, ProgramsAssumption, LenProperties DEF Source
<1>3. Filling' = Flushed /\ Flushed \in Seq(SoundTable) /\ Filling \in Seq(SoundTable)
  BY <1>1, FlushedFacts, FillingFacts, ConcatEmptySeq DEF Filling
<1>4. Grows(Filling, Filling', {})
  BY <1>1, <1>3, FlushGrows
<1>5. ASSUME NEW k \in DOMAIN program, Defines(k)
      PROVE  KeptIn(Filling', k, Bytes(k), MustWrite(k))
  <2>1. KeptIn(Filling, k, Bytes(k), MustWrite(k))
    BY <1>1, <1>2, <1>5 DEF BInv, Seen
  <2>2. k \in Nat /\ Bytes(k) \in Nat /\ MustWrite(k) \in BOOLEAN /\ Bytes(k) > 0
    BY <1>1, <1>5, BytesFacts DEF Defines
  <2> QED
    BY <1>3, <1>4, <2>1, <2>2, GrowsKeeps
<1>6. \A k \in Seen' : Defines(k)' => KeptIn(Filling', k, Bytes(k)', MustWrite(k)')
  BY <1>1, <1>5, SourceStays DEF Seen
<1> QED
  BY <1>1, <1>6 DEF BInv

LEMMA FailKeepsBytes ==
    ASSUME BInv, TInv', Fail
    PROVE  BInv'
  BY DEF BInv, Fail

\* After the scan no byte changes its table.
LEMMA LaterKeepsBytes ==
    ASSUME BInv, TInv', phase \notin {"scan", "failed"}, phase' \notin {"scan", "failed"},
           program' = program, cur' = cur, DOMAIN tables' = DOMAIN tables,
           \A m \in DOMAIN tables :
               tables'[m].from = tables[m].from /\ tables'[m].writable = tables[m].writable
    PROVE  BInv'
<1>1. cur = <<>> /\ TInv /\ Tables /\ Tables' /\ Source
  BY DEF BInv, TInv
<1>2. Filling = tables /\ Filling' = tables' /\ tables \in Seq(SoundTable) /\ tables' \in Seq(SoundTable)
  BY <1>1, ConcatEmptySeq DEF Filling, Tables
<1>3. Grows(Filling, Filling', {})
  BY <1>2, GrowsSame
<1>4. ASSUME NEW k \in DOMAIN program, Defines(k)
      PROVE  KeptIn(Filling', k, Bytes(k), MustWrite(k))
  <2>1. KeptIn(Filling, k, Bytes(k), MustWrite(k))
    BY <1>4 DEF BInv, Seen
  <2>2. k \in Nat /\ Bytes(k) \in Nat /\ MustWrite(k) \in BOOLEAN /\ Bytes(k) > 0
    BY <1>1, <1>4, BytesFacts DEF Defines
  <2> QED
    BY <1>2, <1>3, <2>1, <2>2, GrowsKeeps
<1>5. \A k \in Seen' : Defines(k)' => KeptIn(Filling', k, Bytes(k)', MustWrite(k)')
  BY <1>4, SourceStays DEF Seen
<1> QED
  BY <1>1, <1>5 DEF BInv

LEMMA ResolveAliasKeepsBytes ==
    ASSUME BInv, TInv', ResolveAlias
    PROVE  BInv'
<1>1. /\ phase' = phase /\ phase = "aliases" /\ program' = program /\ cur' = cur /\ Tables
  BY DEF ResolveAlias, Resolving, BInv, TInv
<1>2. PICK a \in todo : \E l \in Locations(aliases[a].sym) :
        tables' = [tables EXCEPT ![l.table].labels = With(@, a, l.offset + aliases[a].add)]
  BY DEF ResolveAlias
<1>3. PICK l \in Locations(aliases[a].sym) :
        tables' = [tables EXCEPT ![l.table].labels = With(@, a, l.offset + aliases[a].add)]
  BY <1>2
<1> DEFINE m == With(tables[l.table].labels, a, l.offset + aliases[a].add)
<1>4. tables' = [tables EXCEPT ![l.table] = [tables[l.table] EXCEPT !.labels = m]]
  BY <1>3
<1> HIDE DEF m
<1>5. l.table \in DOMAIN tables
  BY <1>1, LocationsFacts
<1>6. \A k \in DOMAIN tables : tables[k] \in Table
  BY <1>1, TableIsSound, TableFields
<1>7. tables \in Seq(SoundTable)
  BY <1>1 DEF Tables
<1>8. DOMAIN tables' = DOMAIN tables
  BY <1>4, <1>7
<1>9. \A k \in DOMAIN tables :
        tables'[k].from = tables[k].from /\ tables'[k].writable = tables[k].writable
  BY <1>4, <1>5, <1>6, <1>7 DEF Table
<1> QED
  BY <1>1, <1>8, <1>9, LaterKeepsBytes

LEMMA WriteDifferenceKeepsBytes ==
    ASSUME BInv, TInv', WriteDifference
    PROVE  BInv'
<1>1. /\ phase = "relocs" /\ TInv /\ Tables
  BY DEF WriteDifference, BInv, TInv
<1>2. PICK u \in unbound :
        /\ \E d :
             tables' = [tables EXCEPT ![u.table].data = d, ![u.table].relocs = @ \ {u.reloc}]
        /\ Bound(u)
  BY DEF WriteDifference
<1>3. PICK d :
        tables' = [tables EXCEPT ![u.table].data = d, ![u.table].relocs = @ \ {u.reloc}]
  BY <1>2
<1>4. tables' = [tables EXCEPT ![u.table] = Written(tables[u.table], d, u.reloc)]
  BY <1>3 DEF Written
<1>5. \A k \in DOMAIN tables : tables[k] \in Table
  BY <1>1, TableIsSound, TableFields
<1>6. tables \in Seq(SoundTable)
  BY <1>1 DEF Tables
<1>7. DOMAIN tables' = DOMAIN tables
  BY <1>4, <1>6
<1>8. \A k \in DOMAIN tables :
        tables'[k].from = tables[k].from /\ tables'[k].writable = tables[k].writable
  BY <1>4, <1>5, <1>6 DEF Table, Written
<1>9. phase' = phase /\ program' = program /\ cur' = cur
  BY <1>2 DEF Bound
<1> QED
  BY <1>1, <1>7, <1>8, <1>9, LaterKeepsBytes

LEMMA StepKeepsBytes == BInv /\ [Next]_vars => BInv'
<1> SUFFICES ASSUME BInv, [Next]_vars PROVE BInv'
  OBVIOUS
<1>0. TInv'
  BY StepKeeps DEF BInv
<1>1. CASE DataSection
  BY <1>0, <1>1, DataSectionKeepsBytes
<1>2. CASE TextSection
  BY <1>0, <1>2, TextSectionKeepsBytes
<1>3. CASE Common
  BY <1>0, <1>3, CommonKeepsBytes
<1>4. CASE SetAlias
  BY <1>0, <1>4, SetAliasKeepsBytes
<1>5. CASE PutBytes
  BY <1>0, <1>5, PutBytesKeepsBytes
<1>6. CASE PutReloc
  BY <1>0, <1>6, PutRelocKeepsBytes
<1>7. CASE RejectSection \/ RejectData \/ RejectAlias \/ RejectReloc \/ RejectReference
  <2>1. Fail
    BY <1>7 DEF RejectSection, RejectData, RejectAlias, RejectReloc, RejectReference
  <2> QED
    BY <1>0, <2>1, FailKeepsBytes
<1>8. CASE Label
  BY <1>0, <1>8, LabelKeepsBytes
<1>9. CASE Skip
  BY <1>0, <1>9, SkipKeepsBytes
<1>10. CASE EndScan
  BY <1>0, <1>10, EndScanKeepsBytes
<1>11. CASE ResolveAlias
  BY <1>0, <1>11, ResolveAliasKeepsBytes
<1>12. CASE WriteDifference
  BY <1>0, <1>12, WriteDifferenceKeepsBytes
<1>13. CASE SkipAlias \/ NextRound \/ EndAliases \/ KeepReloc \/ EndRelocs
  <2>1. /\ phase \in {"aliases", "relocs"} /\ phase' \in {"aliases", "relocs", "code"}
        /\ program' = program /\ cur' = cur /\ tables' = tables
    BY <1>13 DEF SkipAlias, NextRound, EndAliases, KeepReloc, EndRelocs, Resolving, Bound
  <2> QED
    BY <1>0, <2>1, LaterKeepsBytes
<1>14. CASE RewriteReference \/ SkipLine \/ EndCode \/ EmitTables \/ EndEmit
  <2>1. /\ phase \in {"code", "emit"} /\ phase' \in {"code", "emit", "done"}
        /\ program' = program /\ cur' = cur /\ tables' = tables
    BY <1>14 DEF RewriteReference, SkipLine, EndCode, EmitTables, EndEmit, AtReference,
         EmitNext, EmitReloc, EmitBytes, EmitGlobl, Emit
  <2> QED
    BY <1>0, <2>1, LaterKeepsBytes
<1>15. CASE UNCHANGED vars
  <2>1. /\ phase' = phase /\ program' = program /\ line' = line /\ cur' = cur /\ tables' = tables
        /\ inData' = inData
    BY <1>15 DEF vars
  <2>2. Filling' = Filling /\ Seen' = Seen
    BY <2>1 DEF Filling, Seen
  <2>3. IsData(line)' = IsData(line) /\ IsWritable(line)' = IsWritable(line)
    BY <2>1 DEF IsData, IsWritable, SectionOf
  <2>4. /\ phase' = "scan" => (\A m \in DOMAIN Filling' : \A q \in DOMAIN Filling'[m].from : Filling'[m].from[q] < line')
        /\ phase' = "scan" => (IsData(line)' => inData' /\ (IsWritable(line)' => cur'[1].writable))
        /\ phase' # "scan" => cur' = <<>> \/ phase' = "failed"
    BY <2>1, <2>2, <2>3 DEF BInv
  <2>5. phase' # "failed" => \A k \in Seen' : Defines(k)' => KeptIn(Filling', k, Bytes(k)', MustWrite(k)')
    BY <2>1, <2>2, SourceStays DEF BInv
  <2> QED
    BY <1>0, <2>4, <2>5 DEF BInv
<1> QED
  BY <1>1, <1>2, <1>3, <1>4, <1>5, <1>6, <1>7, <1>8, <1>9, <1>10, <1>11, <1>12, <1>13, <1>14, <1>15
  DEF Next

LEMMA BytesInvariance == Spec => []BInv
<1>1. Init /\ TInv => BInv
  <2> SUFFICES ASSUME Init, TInv PROVE BInv
    OBVIOUS
  <2>1. phase = "scan" /\ line = 1 /\ cur = <<>> /\ tables = <<>> /\ Tables
    BY DEF Init, TInv
  <2>2. Filling = <<>>
    BY <2>1, FillingFacts
  <2>3. Seen = {} /\ SectionOf(line) = {}
    BY <2>1 DEF Seen, SectionOf
  <2> QED
    BY <2>1, <2>2, <2>3 DEF BInv, IsData
<1> QED
  BY <1>1, ConversionInvariance, StepKeepsBytes, PTL DEF Spec

\* Where the bytes of a line are, as the properties name the places.
Place(n, o) == [table |-> n, sym |-> NoName, offset |-> o]
Span(n, lo, b) == {Place(n, lo + i - 1) : i \in 1 .. b}

LEMMA PlacesFacts ==
    ASSUME Tables, NEW n \in DOMAIN tables, NEW lo \in Nat, NEW k, NEW b \in Nat,
           lo + 1 .. lo + b \subseteq DOMAIN tables[n].from,
           \A m \in DOMAIN tables : \A q \in DOMAIN tables[m].from :
               tables[m].from[q] = k <=> m = n /\ q \in lo + 1 .. lo + b
    PROVE  PlacesOf(k) = Span(n, lo, b)
<1>1. ASSUME NEW p \in PlacesOf(k) PROVE p \in Span(n, lo, b)
  <2>1. PICK m \in DOMAIN tables : p \in {[table |-> m, sym |-> NoName, offset |-> q - 1] :
                                            q \in {x \in DOMAIN tables[m].from : tables[m].from[x] = k}}
    BY DEF PlacesOf
  <2>2. PICK q \in DOMAIN tables[m].from : tables[m].from[q] = k /\ p = Place(m, q - 1)
    BY <2>1 DEF Place
  <2>3. m = n /\ q \in lo + 1 .. lo + b
    BY <2>2
  <2>4. q - lo \in 1 .. b /\ lo + (q - lo) - 1 = q - 1
    BY <2>3
  <2> QED
    BY <2>2, <2>3, <2>4 DEF Span
<1>2. ASSUME NEW i \in 1 .. b PROVE Place(n, lo + i - 1) \in PlacesOf(k)
  <2>1. lo + i \in lo + 1 .. lo + b /\ lo + i - 1 = (lo + i) - 1
    OBVIOUS
  <2>2. lo + i \in DOMAIN tables[n].from /\ tables[n].from[lo + i] = k
    BY <2>1
  <2> QED
    BY <2>1, <2>2 DEF PlacesOf, Place
<1> QED
  BY <1>1, <1>2 DEF Span

LEMMA PlacesCounted ==
    ASSUME NEW n, NEW lo \in Nat, NEW b \in Nat
    PROVE  Cardinality(Span(n, lo, b)) = b
<1> DEFINE S == {Place(n, lo + i - 1) : i \in 1 .. b}
           f == [i \in 1 .. b |-> Place(n, lo + i - 1)]
<1>1. f \in [1 .. b -> S]
  OBVIOUS
<1>2. ASSUME NEW i \in 1 .. b, NEW j \in 1 .. b, f[i] = f[j] PROVE i = j
  BY <1>2 DEF Place
<1>3. \A p \in S : \E i \in 1 .. b : f[i] = p
  OBVIOUS
<1> HIDE DEF S, f
<1>4. f \in Bijection(1 .. b, S)
  BY <1>1, <1>2, <1>3 DEF Bijection, Injection, Surjection, IsInjective
<1>5. Cardinality(S) = b
  BY <1>4, FS_CountingElements DEF ExistsBijection
<1> QED
  BY <1>5 DEF S, Span

\* The bytes of a line of data are in one table, once and together, and what
\* is writable is in a writable table: no order of sections, commons and
\* labels loses, doubles or mixes data.
THEOREM DataIsKept == Spec => []BytesKept
<1>1. BInv => BytesKept
  <2> SUFFICES ASSUME BInv, Collected, NEW k \in DOMAIN program, Defines(k)
               PROVE  /\ Cardinality(PlacesOf(k)) = Bytes(k)
                      /\ \A p, q \in PlacesOf(k) : p.table = q.table /\ p.offset - q.offset < Bytes(k)
                      /\ \A p \in PlacesOf(k) :
                           IsWritable(k) \/ program[k].op = "common" => tables[p.table].writable
    BY DEF BytesKept
  <2>1. phase \notin {"scan", "failed"} /\ cur = <<>> /\ Tables /\ Source /\ Filling = tables
    BY FillingFacts DEF Collected, BInv, TInv
  <2>2. KeptIn(tables, k, Bytes(k), MustWrite(k)) /\ Bytes(k) \in Nat
    BY <2>1, BytesFacts DEF BInv, Seen
  <2> DEFINE b == Bytes(k)
  <2>3. PICK n \in DOMAIN tables : \E lo \in Nat :
          /\ lo + 1 .. lo + b \subseteq DOMAIN tables[n].from
          /\ \A m \in DOMAIN tables : \A q \in DOMAIN tables[m].from :
               tables[m].from[q] = k <=> m = n /\ q \in lo + 1 .. lo + b
          /\ MustWrite(k) => tables[n].writable
    BY <2>2 DEF KeptIn
  <2>4. PICK lo \in Nat :
          /\ lo + 1 .. lo + b \subseteq DOMAIN tables[n].from
          /\ \A m \in DOMAIN tables : \A q \in DOMAIN tables[m].from :
               tables[m].from[q] = k <=> m = n /\ q \in lo + 1 .. lo + b
          /\ MustWrite(k) => tables[n].writable
    BY <2>3
  <2>5. b \in Nat
    BY <2>2
  <2> HIDE DEF b
  <2>6. PlacesOf(k) = Span(n, lo, b)
    BY <2>1, <2>4, <2>5, PlacesFacts
  <2>7. Cardinality(PlacesOf(k)) = b
    BY <2>5, <2>6, PlacesCounted
  <2>8. \A p \in PlacesOf(k) : p.table = n /\ p.offset \in lo .. lo + b - 1
    BY <2>5, <2>6 DEF Span, Place
  <2>9. \A p, q \in PlacesOf(k) : p.table = q.table /\ p.offset - q.offset < b
    BY <2>5, <2>8
  <2>10. \A p \in PlacesOf(k) : IsWritable(k) \/ program[k].op = "common" => tables[p.table].writable
    BY <2>4, <2>8 DEF MustWrite, IsCommon
  <2> QED
    BY <2>7, <2>9, <2>10 DEF b
<1> QED
  BY <1>1, BytesInvariance, PTL

-----------------------------------------------------------------------------
(***************************************************************************)
(* The labels of the source.  A label is put at the end of the open table, *)
(* so it stands at the first byte of the line that comes next; afterwards  *)
(* labels are only added, and one that is defined once is added once.      *)
(***************************************************************************)
\* b has the labels that a has, at the same places, but for those in fresh.
Keeps(a, b, fresh) ==
    /\ \A m \in DOMAIN a : a[m].from # <<>> =>
         /\ m \in DOMAIN b
         /\ \A l \in DOMAIN a[m].labels \ fresh :
              l \in DOMAIN b[m].labels /\ b[m].labels[l] = a[m].labels[l]
    /\ \A m \in DOMAIN b : \A l \in DOMAIN b[m].labels \ fresh :
         m \in DOMAIN a /\ l \in DOMAIN a[m].labels

\* In table m, and in no other, name stands at o, the first of the bytes of
\* line k.
StandsAt(all, name, k, m, o) ==
    /\ m \in DOMAIN all /\ name \in DOMAIN all[m].labels /\ all[m].labels[name] = o
    /\ o + 1 \in DOMAIN all[m].from /\ all[m].from[o + 1] = k
    /\ o \in DOMAIN all[m].from => all[m].from[o] # k
    /\ \A n \in DOMAIN all : name \in DOMAIN all[n].labels => n = m

Stands(all, name, k) == \E m, o \in Nat : StandsAt(all, name, k, m, o)

\* Every label is defined by a line that has been read.
Named(all, read) ==
    \A m \in DOMAIN all : \A l \in DOMAIN all[m].labels : DefinedAt(l) \cap read # {}

\* The name stands at the end of the open table, and in no table before.
Open(s, c, name) ==
    /\ name \in DOMAIN c.labels /\ c.labels[name] = Len(c.data)
    /\ \A m \in DOMAIN s : name \notin DOMAIN s[m].labels

Once(j) == DefinedAt(program[j].name) = {j}

\* All lines read so far have their labels where they should be.
Labelling(all, read) ==
    \A k \in read : Defines(k) => \A j \in LabelsAt(k) : Once(j) => Stands(all, program[j].name, k)

\* The names that may still become labels.
SetNames == {program[j].name : j \in {i \in DOMAIN program : program[i].op = "set"}}

LInv ==
    /\ BInv
    /\ phase # "failed" => Named(Filling, Seen) /\ Labelling(Filling, Seen)
    /\ DOMAIN aliases \subseteq SetNames
    /\ phase = "scan" /\ IsData(line) /\ line - 1 \in DOMAIN program
         /\ program[line - 1].op = "label" /\ Once(line - 1)
       => Open(tables, cur[1], program[line - 1].name)

LEMMA LastTable ==
    ASSUME NEW s \in Seq(SoundTable), NEW x \in SoundTable
    PROVE  /\ s \o <<x>> \in Seq(SoundTable) /\ Len(s) \in Nat /\ DOMAIN s = 1 .. Len(s)
           /\ DOMAIN (s \o <<x>>) = 1 .. Len(s) + 1
           /\ (s \o <<x>>)[Len(s) + 1] = x
           /\ \A m \in 1 .. Len(s) : (s \o <<x>>)[m] = s[m]
<1> DEFINE b == s \o <<x>>
<1>1. <<x>> \in Seq(SoundTable) /\ Len(<<x>>) = 1 /\ <<x>>[1] = x
  OBVIOUS
<1>2. /\ b \in Seq(SoundTable) /\ Len(b) = Len(s) + 1
      /\ \A i \in 1 .. Len(s) + 1 : b[i] = IF i <= Len(s) THEN s[i] ELSE <<x>>[i - Len(s)]
  BY <1>1, ConcatProperties
<1> HIDE DEF b
<1>3. DOMAIN s = 1 .. Len(s) /\ Len(s) \in Nat /\ DOMAIN b = 1 .. Len(s) + 1
  BY <1>2, LenProperties
<1>4. b[Len(s) + 1] = x
  BY <1>1, <1>2, <1>3
<1>5. \A m \in 1 .. Len(s) : b[m] = s[m]
  BY <1>2, <1>3
<1> QED
  BY <1>2, <1>3, <1>4, <1>5 DEF b

LEMMA KeepsSame ==
    ASSUME NEW a, NEW b, NEW fresh, DOMAIN a = DOMAIN b,
           \A m \in DOMAIN a : b[m].labels = a[m].labels
    PROVE  Keeps(a, b, fresh)
  BY DEF Keeps

LEMMA KeepsByTable ==
    ASSUME NEW s \in Seq(SoundTable), NEW x \in SoundTable, NEW fresh, DOMAIN x.labels \subseteq fresh
    PROVE  Keeps(s, s \o <<x>>, fresh)
<1> DEFINE b == s \o <<x>>
<1>1. /\ Len(s) \in Nat /\ DOMAIN s = 1 .. Len(s) /\ DOMAIN b = 1 .. Len(s) + 1
      /\ b[Len(s) + 1] = x /\ \A m \in 1 .. Len(s) : b[m] = s[m]
  BY LastTable
<1> HIDE DEF b
<1>2. /\ \A i \in DOMAIN s : i \in DOMAIN b /\ b[i] = s[i]
      /\ \A i \in DOMAIN b : (i \in DOMAIN s /\ b[i] = s[i]) \/ b[i] = x
  BY <1>1
<1>3. Keeps(s, b, fresh)
  BY <1>2 DEF Keeps
<1> QED
  BY <1>3 DEF b

LEMMA KeepsAtEnd ==
    ASSUME NEW s \in Seq(SoundTable), NEW c \in SoundTable, NEW x \in SoundTable, NEW fresh,
           \A l \in DOMAIN c.labels \ fresh : l \in DOMAIN x.labels /\ x.labels[l] = c.labels[l],
           \A l \in DOMAIN x.labels \ fresh : l \in DOMAIN c.labels
    PROVE  Keeps(s \o <<c>>, s \o <<x>>, fresh)
<1> DEFINE a == s \o <<c>>
           b == s \o <<x>>
<1>1. /\ Len(s) \in Nat /\ DOMAIN s = 1 .. Len(s) /\ DOMAIN b = 1 .. Len(s) + 1
      /\ b[Len(s) + 1] = x /\ \A m \in 1 .. Len(s) : b[m] = s[m]
  BY LastTable
<1>2. /\ DOMAIN a = 1 .. Len(s) + 1
      /\ a[Len(s) + 1] = c /\ \A m \in 1 .. Len(s) : a[m] = s[m]
  BY LastTable
<1> HIDE DEF a, b
<1>3. /\ DOMAIN a = DOMAIN b
      /\ \A i \in DOMAIN a : b[i] = a[i] \/ (a[i] = c /\ b[i] = x)
  BY <1>1, <1>2
<1>4. Keeps(a, b, fresh)
  BY <1>3 DEF Keeps
<1> QED
  BY <1>4 DEF a, b

LEMMA KeepsMore ==
    ASSUME NEW a, NEW b, NEW S, NEW T, S \subseteq T, Keeps(a, b, S)
    PROVE  Keeps(a, b, T)
  BY DEF Keeps

LEMMA KeepsTransitively ==
    ASSUME NEW a \in Seq(SoundTable), NEW b \in Seq(SoundTable), NEW c \in Seq(SoundTable),
           NEW S, NEW T, NEW U, Grows(a, b, U), Keeps(a, b, S), Keeps(b, c, T)
    PROVE  Keeps(a, c, S \cup T)
<1>1. ASSUME NEW m \in DOMAIN a, a[m].from # <<>> PROVE m \in DOMAIN b /\ b[m].from # <<>>
  <2>1. /\ m \in DOMAIN b
        /\ \A q \in DOMAIN a[m].from : q \in DOMAIN b[m].from
    BY <1>1 DEF Grows
  <2>2. a[m].from \in Seq(Nat) /\ b[m].from \in Seq(Nat)
    BY <2>1, LenProperties, ElementOfSeq, TableFields
  <2>3. Len(a[m].from) \in Nat \ {0}
    BY <1>1, <2>2, EmptySeq
  <2>4. 1 \in DOMAIN a[m].from
    BY <2>2, <2>3, LenProperties
  <2> QED
    BY <2>1, <2>2, <2>4, NotEmpty
<1>2. ASSUME NEW m \in DOMAIN a, a[m].from # <<>>
      PROVE  /\ m \in DOMAIN c
             /\ \A l \in DOMAIN a[m].labels \ (S \cup T) :
                  l \in DOMAIN c[m].labels /\ c[m].labels[l] = a[m].labels[l]
  BY <1>1, <1>2 DEF Keeps
<1>3. ASSUME NEW m \in DOMAIN c, NEW l \in DOMAIN c[m].labels \ (S \cup T)
      PROVE  m \in DOMAIN a /\ l \in DOMAIN a[m].labels
  BY DEF Keeps
<1> QED
  BY <1>2, <1>3 DEF Keeps

LEMMA FlushKeeps ==
    ASSUME Tables
    PROVE  Keeps(Filling, Flushed, {})
<1>1. CASE (cur # <<>> /\ cur[1].data # <<>>) \/ cur = <<>>
  <2>1. Flushed = Filling
    BY <1>1, FillingFacts DEF Flushed, Filling
  <2> QED
    BY <2>1, KeepsSame
<1>2. CASE cur # <<>> /\ cur[1].data = <<>>
  <2>1. Flushed = tables /\ Filling = tables \o <<cur[1]>> /\ tables \in Seq(SoundTable)
    BY <1>2, FillingFacts DEF Flushed, Tables
  <2>2. cur[1] \in SoundTable
    BY <1>2, CurFacts
  <2>3. cur[1].from = <<>>
    <3>1. Len(cur[1].from) = 0 /\ cur[1].from \in Seq(Nat)
      BY <1>2, <2>2, TableFields, EmptySeq
    <3> QED
      BY <3>1, EmptySeq
  <2>4. /\ Len(tables) \in Nat /\ DOMAIN tables = 1 .. Len(tables)
        /\ DOMAIN Filling = 1 .. Len(tables) + 1
        /\ Filling[Len(tables) + 1] = cur[1] /\ \A m \in 1 .. Len(tables) : Filling[m] = tables[m]
    BY <2>1, <2>2, LastTable
  <2>5. /\ \A m \in DOMAIN tables : m \in DOMAIN Filling /\ Filling[m] = tables[m]
        /\ \A m \in DOMAIN Filling : (m \in DOMAIN tables /\ Filling[m] = tables[m]) \/ Filling[m] = cur[1]
    BY <2>4
  <2> QED
    BY <2>1, <2>3, <2>5 DEF Keeps
<1> QED
  BY <1>1, <1>2

\* A label that stands keeps standing as long as tables only grow and nobody
\* gives its name again.
LEMMA StandsStill ==
    ASSUME NEW a \in Seq(SoundTable), NEW b \in Seq(SoundTable), NEW S, NEW T,
           Grows(a, b, S), Keeps(a, b, T), NEW k, k \notin S, NEW name, name \notin T,
           Stands(a, name, k)
    PROVE  Stands(b, name, k)
<1>1. PICK m \in Nat, o \in Nat : StandsAt(a, name, k, m, o)
  BY DEF Stands
<1>2. /\ m \in DOMAIN a /\ name \in DOMAIN a[m].labels /\ a[m].labels[name] = o
      /\ o + 1 \in DOMAIN a[m].from /\ a[m].from[o + 1] = k
      /\ o \in DOMAIN a[m].from => a[m].from[o] # k
      /\ \A n \in DOMAIN a : name \in DOMAIN a[n].labels => n = m
  BY <1>1 DEF StandsAt
<1>3. a[m].from \in Seq(Nat)
  BY <1>2, LenProperties, ElementOfSeq, TableFields
<1>4. a[m].from # <<>>
  BY <1>2, <1>3, NotEmpty
<1>5. /\ m \in DOMAIN b
      /\ \A q \in DOMAIN a[m].from : q \in DOMAIN b[m].from /\ b[m].from[q] = a[m].from[q]
  BY <1>2, <1>4 DEF Grows
<1>6. name \in DOMAIN b[m].labels /\ b[m].labels[name] = o
  BY <1>2, <1>4 DEF Keeps
<1>7. \A n \in DOMAIN b : name \in DOMAIN b[n].labels => n = m
  BY <1>2 DEF Keeps
<1>8. o \in DOMAIN b[m].from => b[m].from[o] # k
  <2>1. CASE o \in DOMAIN a[m].from
    BY <1>2, <1>5, <2>1
  <2>2. CASE o \notin DOMAIN a[m].from
    <3>1. o \in DOMAIN b[m].from => b[m].from[o] \in S
      BY <1>5, <2>2 DEF Grows
    <3> QED
      BY <3>1
  <2> QED
    BY <2>1, <2>2
<1>9. StandsAt(b, name, k, m, o)
  BY <1>2, <1>5, <1>6, <1>7, <1>8 DEF StandsAt
<1> QED
  BY <1>9 DEF Stands

\* Labels that are named stay named; the fresh ones by the lines read.
LEMMA NamedStill ==
    ASSUME NEW a, NEW b, NEW T, Keeps(a, b, T), NEW R, NEW Q, R \subseteq Q, Named(a, R),
           \A name \in T : DefinedAt(name) \cap Q # {}
    PROVE  Named(b, Q)
<1>1. ASSUME NEW m \in DOMAIN b, NEW l \in DOMAIN b[m].labels PROVE DefinedAt(l) \cap Q # {}
  <2>1. CASE l \in T
    BY <2>1
  <2>2. CASE l \notin T
    <3>1. m \in DOMAIN a /\ l \in DOMAIN a[m].labels
      BY <2>2 DEF Keeps
    <3>2. DefinedAt(l) \cap R # {}
      BY <3>1 DEF Named
    <3> QED
      BY <3>2
  <2> QED
    BY <2>1, <2>2
<1> QED
  BY <1>1 DEF Named

\* What the source says of names does not change.
LEMMA NamesStay ==
    ASSUME program' = program
    PROVE  /\ \A j : Once(j)' = Once(j) /\ LabelsAt(j)' = LabelsAt(j)
           /\ \A name : DefinedAt(name)' = DefinedAt(name)
           /\ SetNames' = SetNames
<1>1. \A name : DefinedAt(name)' = DefinedAt(name)
  BY DEF DefinedAt
<1>2. \A j : Once(j)' = Once(j)
  BY DEF Once, DefinedAt
<1>3. \A j : LabelsAt(j)' = LabelsAt(j)
  BY DEF LabelsAt
<1> QED
  BY <1>1, <1>2, <1>3 DEF SetNames

\* The lines that label line k are it and the one before.
LEMMA LabelsAtFacts ==
    ASSUME Source, NEW k \in DOMAIN program, NEW j \in LabelsAt(k)
    PROVE  /\ j \in DOMAIN program /\ j \in {k, k - 1} /\ program[j].op \in {"label", "common"}
           /\ j \in DefinedAt(program[j].name)
           /\ program[k].op # "common" => j = k - 1 /\ program[j].op = "label"
           /\ program[k].op = "common" => j = k
<1>1. /\ j \in DOMAIN program /\ j \in {k, k - 1} /\ program[j].op \in {"label", "common"}
      /\ program[k].op # "common" => j = k - 1 /\ program[j].op = "label"
      /\ program[k].op = "common" => j = k
  BY DEF LabelsAt
<1> QED
  BY <1>1 DEF DefinedAt

\* The step of a scan reads a line and puts no label but that line's.
LabelsPut ==
    /\ Scanning /\ phase' = "scan" /\ program' = program /\ line' = line + 1
    /\ \E fresh \in SUBSET {Current.name} :
         /\ fresh # {} => Current.op \in {"label", "common"}
         /\ Keeps(Filling, Filling', fresh)

LEMMA ScanKeepsLabels ==
    ASSUME LInv, BInv', Scanning, phase' = "scan", program' = program, line' = line + 1,
           NEW fresh, fresh \subseteq {Current.name},
           fresh # {} => Current.op \in {"label", "common"},
           Grows(Filling, Filling', {0, line}), Keeps(Filling, Filling', fresh),
           DOMAIN aliases' \subseteq SetNames,
           Defines(line) => \A j \in LabelsAt(line) : Once(j) => Stands(Filling', program[j].name, line),
           Current.op = "label" /\ IsData(line) /\ Once(line) => Open(tables', cur'[1], Current.name)
    PROVE  LInv' /\ LabelsPut
<1>1. /\ TInv /\ Source /\ Tables /\ line \in DOMAIN program /\ line \in Nat /\ line >= 1
      /\ Filling \in Seq(SoundTable) /\ phase = "scan" /\ line <= Len(program)
  BY ScanBytesFacts DEF LInv, Scanning
<1>2. Filling' \in Seq(SoundTable)
  <2>1. (Tables => Filling \in Seq(SoundTable))'
    BY FillingFacts, PTL
  <2> QED
    BY <2>1 DEF BInv, TInv
<1>3. Seen = 1 .. line - 1 /\ Seen' = 1 .. line
  BY <1>1 DEF Seen
<1>4. /\ Named(Filling, Seen) /\ Labelling(Filling, Seen)
  BY <1>1 DEF LInv
<1>5. fresh # {} => line \in DefinedAt(Current.name)
  BY <1>1 DEF DefinedAt, Current
<1>6. Named(Filling', 1 .. line)
  <2>1. \A name \in fresh : DefinedAt(name) \cap (1 .. line) # {}
    BY <1>1, <1>5
  <2>2. 1 .. line - 1 \subseteq 1 .. line
    BY <1>1
  <2>3. Named(Filling, 1 .. line - 1)
    BY <1>3, <1>4
  <2> DEFINE a == Filling
             b == Filling'
             R == 1 .. line - 1
             Q == 1 .. line
  <2>4. Keeps(a, b, fresh) /\ Named(a, R) /\ R \subseteq Q /\ \A name \in fresh : DefinedAt(name) \cap Q # {}
    BY <2>1, <2>2, <2>3
  <2> HIDE DEF a, b, R, Q
  <2>5. Named(b, Q)
    BY ONLY <2>4, NamedStill
  <2> QED
    BY <2>5 DEF b, Q
<1>7. Labelling(Filling', 1 .. line)
  <2> SUFFICES ASSUME NEW k \in 1 .. line, Defines(k), NEW j \in LabelsAt(k), Once(j)
               PROVE  Stands(Filling', program[j].name, k)
    BY DEF Labelling
  <2>1. CASE k = line
    BY <2>1
  <2>2. CASE k # line
    <3>1. k \in 1 .. line - 1 /\ k \in DOMAIN program /\ k \notin {0, line}
      <4>1. program \in Seq(SourceLine)
        BY <1>1, ProgramsAssumption DEF Source
      <4> QED
        BY <1>1, <2>2, <4>1, LenProperties
    <3>2. Stands(Filling, program[j].name, k)
      BY <1>3, <1>4, <3>1 DEF Labelling
    <3>3. program[j].name \notin fresh
      <4>1. j # line
        BY <1>1, <3>1, LabelsAtFacts
      <4>2. line \notin DefinedAt(program[j].name)
        BY <4>1 DEF Once
      <4> QED
        BY <1>5, <4>2
    <3> QED
      BY <1>1, <1>2, <3>1, <3>2, <3>3, StandsStill
  <2> QED
    BY <2>1, <2>2
<1>8. /\ \A k : Defines(k)' = Defines(k)
      /\ IsData(line)' = IsData(line + 1)
  BY SourceStays DEF IsData, SectionOf
<1>9. Named(Filling, Seen)' /\ Labelling(Filling, Seen)'
  BY <1>3, <1>6, <1>7, <1>8, NamesStay DEF Named, Labelling
<1>10. (DOMAIN aliases \subseteq SetNames)'
  BY NamesStay
<1>11. ASSUME IsData(line + 1), (line + 1) - 1 \in DOMAIN program,
              program[(line + 1) - 1].op = "label", Once((line + 1) - 1)
       PROVE  Open(tables', cur'[1], program[(line + 1) - 1].name)
  <2>1. (line + 1) - 1 = line
    BY <1>1
  <2>2. Current.op = "label" /\ IsData(line) /\ Once(line)
    BY <1>1, <1>11, <2>1, SectionStays DEF Current
  <2> QED
    BY <2>1, <2>2 DEF Current
<1>12. Open(tables, cur[1], program[line - 1].name)' <=> Open(tables', cur'[1], program[(line + 1) - 1].name)
  BY DEF Open
<1>13. LInv'
  BY <1>8, <1>9, <1>10, <1>11, <1>12, NamesStay DEF LInv
<1>14. LabelsPut
  BY DEF LabelsPut
<1> QED
  BY <1>13, <1>14

LEMMA SameFillingKeepsLabels ==
    ASSUME LInv, BInv', Grows(Filling, Filling', {0, line}),
           Scanning, Read(tables, cur, inData), Current.op # "section", ~ Defines(line),
           DOMAIN aliases' \subseteq SetNames, Current.op = "label" => ~ IsData(line)
    PROVE  LInv' /\ LabelsPut
<1>1. /\ tables' = tables /\ cur' = cur /\ phase' = "scan" /\ program' = program /\ line' = line + 1
  BY DEF Read, Scanning
<1>2. Keeps(Filling, Filling', {})
  <2>1. Filling' = Filling
    BY <1>1 DEF Filling
  <2> QED
    BY <2>1, KeepsSame
<1> QED
  BY <1>1, <1>2, ScanKeepsLabels

\* No label that has been put has the name of a line that is still to be read.
LEMMA NotYetNamed ==
    ASSUME LInv, Scanning, Once(line), line \in DefinedAt(Current.name), Tables
    PROVE  \A m \in DOMAIN Filling : Current.name \notin DOMAIN Filling[m].labels
<1>1. Named(Filling, 1 .. line - 1) /\ line \in Nat
  BY ScanBytesFacts DEF LInv, Scanning, Seen
<1>2. DefinedAt(Current.name) = {line}
  BY DEF Once, Current
<1>3. {line} \cap 1 .. line - 1 = {}
  BY <1>1
<1> QED
  BY <1>1, <1>2, <1>3 DEF Named

LEMMA ReadIntoKeepsLabels ==
    ASSUME LInv, BInv', Grows(Filling, Filling', {0, line}), Scanning, Collecting,
           NEW table \in SoundTable, ReadInto(table), NEW b \in Nat,
           table.from = cur[1].from \o [i \in 1 .. b |-> line], table.labels = cur[1].labels,
           Current.op \notin {"section", "common", "label"}, Bytes(line) \in {0, b}
    PROVE  LInv' /\ LabelsPut
<1>1. /\ tables' = tables /\ cur' = <<table>> /\ inData' = inData /\ phase' = "scan"
      /\ program' = program /\ line' = line + 1 /\ aliases' = aliases
  BY DEF ReadInto, Read, Scanning
<1>2. /\ Source /\ Tables /\ line \in Nat /\ line >= 1 /\ line \in DOMAIN program
      /\ tables \in Seq(SoundTable) /\ cur # <<>> /\ phase = "scan"
  BY ScanBytesFacts DEF LInv, Tables, Collecting, Scanning
<1>3. cur[1] \in SoundTable /\ cur[1].from \in Seq(Nat)
  BY <1>2, CurFacts, TableFields
<1>4. Filling = tables \o <<cur[1]>> /\ Filling' = tables \o <<table>>
  BY <1>1, <1>2, FillingFacts DEF Filling
<1>5. Keeps(Filling, Filling', {})
  BY <1>2, <1>3, <1>4, KeepsAtEnd
<1>6. ASSUME Defines(line), NEW j \in LabelsAt(line), Once(j)
      PROVE  Stands(Filling', program[j].name, line)
  <2> DEFINE o == Len(cur[1].data)
             h == Len(tables) + 1
             more == [i \in 1 .. b |-> line]
             name == program[j].name
  <2>1. Bytes(line) = b /\ b > 0 /\ IsData(line)
    <3>1. Bytes(line) > 0
      BY <1>6 DEF Defines
    <3>2. Bytes(line) = b
      BY <3>1
    <3> QED
      BY <1>6, <3>1, <3>2 DEF Defines, Current
  <2>2. j = line - 1 /\ j \in DOMAIN program /\ program[j].op = "label"
    BY <1>2, <1>6, LabelsAtFacts DEF Current
  <2>3. Open(tables, cur[1], name)
    BY <1>2, <1>6, <2>1, <2>2 DEF LInv
  <2>4. more \in Seq(Nat) /\ Len(more) = b /\ \A i \in 1 .. b : more[i] = line
    BY <1>2
  <2>5. o = Len(cur[1].from) /\ o \in Nat /\ DOMAIN cur[1].from = 1 .. o
    BY <1>3, TableFields, LenProperties
  <2> HIDE DEF o, more, name
  <2>6. /\ table.from \in Seq(Nat) /\ Len(table.from) = o + b
        /\ \A i \in 1 .. o + b : table.from[i] = IF i <= o THEN cur[1].from[i] ELSE more[i - o]
    <3>1. table.from = cur[1].from \o more
      BY DEF more
    <3> QED
      BY <1>3, <2>4, <2>5, <3>1, ConcatProperties
  <2>7. DOMAIN table.from = 1 .. o + b
    BY <2>6, LenProperties
  <2>8. o + 1 \in 1 .. o + b /\ ~ (o + 1 <= o) /\ (o + 1) - o = 1 /\ 1 \in 1 .. b
    BY <2>1, <2>5
  <2>9. table.from[o + 1] = line
    BY <2>4, <2>6, <2>8
  <2>10. /\ Len(tables) \in Nat /\ DOMAIN tables = 1 .. Len(tables)
         /\ DOMAIN Filling' = 1 .. h /\ Filling'[h] = table
         /\ \A m \in 1 .. Len(tables) : Filling'[m] = tables[m]
    BY <1>2, <1>4, LastTable
  <2>11. /\ DOMAIN Filling = 1 .. h /\ Filling[h] = cur[1]
    BY <1>2, <1>3, <1>4, LastTable
  <2>12. o \in DOMAIN table.from => table.from[o] # line
    <3> SUFFICES ASSUME o \in 1 .. o + b PROVE table.from[o] # line
      BY <2>7
    <3>1. o \in DOMAIN cur[1].from /\ table.from[o] = cur[1].from[o]
      BY <2>5, <2>6
    <3>2. h \in DOMAIN Filling
      BY <2>10, <2>11
    <3>3. Filling[h].from[o] < line
      BY <2>11, <3>1, <3>2, ScanBytesFacts DEF LInv
    <3>4. cur[1].from[o] \in Nat
      BY <1>3, <3>1, LenProperties, ElementOfSeq
    <3> QED
      BY <1>2, <2>11, <3>1, <3>3, <3>4
  <2>13. /\ name \in DOMAIN table.labels /\ table.labels[name] = o
         /\ \A m \in DOMAIN tables : name \notin DOMAIN tables[m].labels
    BY <2>3 DEF Open, o
  <2>14. StandsAt(Filling', name, line, h, o)
    <3>1. h \in 1 .. h /\ \A n \in 1 .. h : n = h \/ n \in 1 .. Len(tables)
      BY <2>10
    <3>2. \A n \in 1 .. h : name \in DOMAIN Filling'[n].labels => n = h
      BY <2>10, <2>13, <3>1
    <3> HIDE DEF h
    <3> QED
      BY <2>7, <2>8, <2>9, <2>10, <2>12, <2>13, <3>1, <3>2 DEF StandsAt
  <2>15. h \in Nat
    BY <2>10
  <2> QED
    BY <2>5, <2>14, <2>15 DEF Stands, name
<1>7. DOMAIN aliases' \subseteq SetNames
  BY <1>1 DEF LInv
<1>8. \A j \in LabelsAt(line) : Defines(line) /\ Once(j) => Stands(Filling', program[j].name, line)
  BY <1>6
<1> QED
  BY <1>1, <1>5, <1>7, <1>8, ScanKeepsLabels

LEMMA PutBytesKeepsLabels ==
    ASSUME LInv, BInv', Grows(Filling, Filling', {0, line}), PutBytes
    PROVE  LInv' /\ LabelsPut
<1> DEFINE d == DataOf(Current)
           table == Extended(cur[1], d)
<1>1. /\ Scanning /\ Collecting /\ Current.op \in {"bytes", "number", "zero", "align"}
      /\ ReadInto(table)
  BY DEF PutBytes
<1>2. /\ TInv /\ Source /\ cur[1] \in SoundTable /\ line \in Nat /\ Current \in SourceLine
      /\ Current.bytes \in Seq(Byte) /\ Current.width \in Nat /\ Current.size \in Nat /\ Current.val \in Int
  BY <1>1, ScanBytesFacts, CurFacts, ScanFacts, LineFields DEF Collecting, LInv
<1>3. d \in Seq(Byte)
  BY <1>1, <1>2, DataOfFacts
<1>4. Bytes(line) \in {0, Len(d)}
  BY <1>1, <1>2, DataBytes
<1> HIDE DEF d
<1>5. /\ table \in SoundTable /\ table.labels = cur[1].labels
      /\ table.from = cur[1].from \o [k \in DOMAIN d |-> line]
  BY <1>2, <1>3, ExtendedFacts DEF Extended
<1>6. DOMAIN d = 1 .. Len(d) /\ Len(d) \in Nat
  BY <1>3, LenProperties
<1> HIDE DEF table
<1> QED
  BY <1>1, <1>4, <1>5, <1>6, ReadIntoKeepsLabels

LEMMA PutRelocKeepsLabels ==
    ASSUME LInv, BInv', Grows(Filling, Filling', {0, line}), PutReloc
    PROVE  LInv' /\ LabelsPut
<1> DEFINE r == [offset |-> Len(cur[1].data), width |-> Current.width, name |-> Current.sym,
                 sym |-> Strip[Current.sym], add |-> Current.add,
                 sub |-> IF Current.sub = NoName THEN NoName ELSE Strip[Current.sub]]
           d == DataOf(Current)
           e == Extended(cur[1], d)
           table == [e EXCEPT !.relocs = @ \cup {r}]
<1>1. Scanning /\ Collecting /\ Current.op = "symbol" /\ ReadInto(table)
  BY DEF PutReloc
<1>2. /\ TInv /\ Source /\ cur[1] \in SoundTable /\ line \in Nat /\ Current.width \in Nat
  BY <1>1, ScanBytesFacts, CurFacts, ScanFacts, LineFields DEF Collecting, LInv
<1>3. d \in Seq(Byte) /\ Len(d) = Current.width
  BY <1>1, <1>2, DataOfFacts
<1>4. Bytes(line) = Len(d)
  BY <1>1, <1>3 DEF Bytes, Current
<1>5. DOMAIN d = 1 .. Len(d) /\ Len(d) \in Nat
  BY <1>3, LenProperties
<1> HIDE DEF r, d
<1>6. /\ e \in SoundTable /\ e.labels = cur[1].labels
      /\ e.from = cur[1].from \o [k \in DOMAIN d |-> line]
  BY <1>2, <1>3, ExtendedFacts DEF Extended
<1> HIDE DEF e
<1>7. table.from = e.from /\ table.labels = e.labels
  BY <1>6, TableFields DEF Table
<1>8. table \in SoundTable
  <2>1. tables' \in Seq(SoundTable) /\ cur' \in Seq(SoundTable)
    BY DEF BInv, TInv, Tables
  <2>2. cur' = <<table>>
    BY <1>1 DEF ReadInto, Read
  <2> HIDE DEF table
  <2>3. 1 \in 1 .. Len(cur') /\ cur'[1] = table
    BY <2>2
  <2>4. cur'[1] \in SoundTable
    BY <2>1, <2>3, ElementOfSeq
  <2> QED
    BY <2>3, <2>4
<1> HIDE DEF table
<1> QED
  BY <1>1, <1>4, <1>5, <1>6, <1>7, <1>8, ReadIntoKeepsLabels

LEMMA SkipKeepsLabels ==
    ASSUME LInv, BInv', Grows(Filling, Filling', {0, line}), Skip
    PROVE  LInv' /\ LabelsPut
<1>1. Scanning /\ Read(tables, cur, inData) /\ aliases' = aliases
  BY DEF Skip
<1>2. DOMAIN aliases' \subseteq SetNames
  BY <1>1 DEF LInv
<1>3. CASE Current.op \in {"lea", "gotmov", "gotuse", "access", "odd"}
  <2>1. Bytes(line) = 0
    BY <1>3 DEF Bytes, Current
  <2> QED
    BY <1>1, <1>2, <1>3, <2>1, SameFillingKeepsLabels DEF Defines
<1>4. CASE Current.op \notin {"section", "common", "set"} /\ ~ Collecting
  <2>1. ~ IsData(line) /\ ~ IsCommon(line)
    BY <1>1, <1>4, ScanBytesFacts DEF Collecting, Tables, IsCommon, Current, LInv
  <2> QED
    BY <1>1, <1>2, <1>4, <2>1, SameFillingKeepsLabels DEF Defines, IsCommon
<1> QED
  BY <1>3, <1>4 DEF Skip

LEMMA SetAliasKeepsLabels ==
    ASSUME LInv, BInv', Grows(Filling, Filling', {0, line}), SetAlias
    PROVE  LInv' /\ LabelsPut
<1>1. Scanning /\ Read(tables, cur, inData) /\ Current.op = "set"
  BY DEF SetAlias
<1>2. Bytes(line) = 0
  BY <1>1 DEF Bytes, Current
<1>3. DOMAIN aliases' \subseteq SetNames
  <2>1. DOMAIN aliases' = DOMAIN aliases \cup {Current.name}
    BY DEF SetAlias, With
  <2>2. line \in DOMAIN program
    BY <1>1, ScanBytesFacts DEF LInv
  <2>3. Current.name \in SetNames
    BY <1>1, <2>2 DEF SetNames, Current
  <2> QED
    BY <2>1, <2>3 DEF LInv
<1> QED
  BY <1>1, <1>2, <1>3, SameFillingKeepsLabels DEF Defines

LEMMA TextSectionKeepsLabels ==
    ASSUME LInv, BInv', Grows(Filling, Filling', {0, line}), TextSection
    PROVE  LInv' /\ LabelsPut
<1>1. /\ Scanning /\ Current.op = "section" /\ ~ isDataSection(Current) /\ aliases' = aliases
      /\ tables' = Flushed /\ cur' = <<>> /\ phase' = "scan" /\ program' = program /\ line' = line + 1
  BY DEF TextSection, Read, Scanning
<1>2. Tables /\ Source /\ line <= Len(program)
  BY <1>1, ScanBytesFacts DEF Scanning, LInv
<1>3. Filling' = Flushed
  BY <1>1, <1>2, FlushedFacts, ConcatEmptySeq DEF Filling
<1>4. Keeps(Filling, Filling', {})
  BY <1>2, <1>3, FlushKeeps
<1>5. DOMAIN aliases' \subseteq SetNames
  BY <1>1 DEF LInv
<1> QED
  BY <1>1, <1>2, <1>4, <1>5, SectionReadFacts, ScanKeepsLabels

LEMMA DataSectionKeepsLabels ==
    ASSUME LInv, BInv', Grows(Filling, Filling', {0, line}), DataSection
    PROVE  LInv' /\ LabelsPut
<1> DEFINE w == isWritableDataSection(Current)
<1>1. /\ Scanning /\ Current.op = "section" /\ aliases' = aliases
      /\ IF Reuses(w) THEN Read(tables, cur, TRUE) ELSE Read(Flushed, <<NewTable(w)>>, TRUE)
  BY DEF DataSection
<1>2. Tables /\ Source /\ TInv /\ line <= Len(program)
  BY <1>1, ScanBytesFacts DEF Scanning, LInv
<1>3. w \in BOOLEAN
  BY <1>1, <1>2, ScanFacts, WritableIsBoolean
<1> HIDE DEF w
<1>4. phase' = "scan" /\ program' = program /\ line' = line + 1
  BY <1>1 DEF Read, Scanning
<1>5. DOMAIN aliases' \subseteq SetNames
  BY <1>1 DEF LInv
<1>6. Keeps(Filling, Filling', {})
  <2>1. CASE Reuses(w)
    <3>1. tables' = tables /\ cur' = cur
      BY <1>1, <2>1 DEF Read
    <3>2. Filling' = Filling
      BY <3>1 DEF Filling
    <3> QED
      BY <3>2, KeepsSame
  <2>2. CASE ~ Reuses(w)
    <3>1. tables' = Flushed /\ cur' = <<NewTable(w)>>
      BY <1>1, <2>2 DEF Read
    <3>2. /\ NewTable(w) \in SoundTable /\ DOMAIN NewTable(w).labels = {}
          /\ Flushed \in Seq(SoundTable) /\ Filling \in Seq(SoundTable)
      BY <1>2, <1>3, NewTableFacts, FlushedFacts, FillingFacts
    <3>3. Filling' = Flushed \o <<NewTable(w)>>
      BY <3>1 DEF Filling
    <3>4. /\ Flushed \o <<NewTable(w)>> \in Seq(SoundTable)
          /\ Keeps(Flushed, Flushed \o <<NewTable(w)>>, {})
      BY <3>2, KeepsByTable, LastTable
    <3>5. Keeps(Filling, Filling', {} \cup {})
      BY <1>2, <3>2, <3>3, <3>4, FlushGrows, FlushKeeps, KeepsTransitively
    <3> QED
      BY <3>5, KeepsMore
  <2> QED
    BY <2>1, <2>2
<1> QED
  BY <1>1, <1>2, <1>4, <1>5, <1>6, SectionReadFacts, ScanKeepsLabels

LEMMA LabelledLabels ==
    ASSUME NEW table \in SoundTable, NEW l \in Spelling
    PROVE  LET e == Labelled(table, l)
           IN  /\ DOMAIN e.labels = DOMAIN table.labels \cup {l}
               /\ e.labels[l] = Len(table.data)
               /\ \A x \in DOMAIN table.labels \ {l} : e.labels[x] = table.labels[x]
<1> DEFINE m == With(table.labels, l, Len(table.data))
<1>1. Labelled(table, l) = [table EXCEPT !.labels = m]
  BY DEF Labelled
<1>2. /\ DOMAIN m = DOMAIN table.labels \cup {l} /\ m[l] = Len(table.data)
      /\ \A x \in DOMAIN table.labels \ {l} : m[x] = table.labels[x]
  BY DEF With
<1> HIDE DEF m
<1>3. Labelled(table, l).labels = m
  BY <1>1, TableFields DEF Table
<1> QED
  BY <1>2, <1>3

LEMMA LabelKeepsLabels ==
    ASSUME LInv, BInv', Grows(Filling, Filling', {0, line}), Label
    PROVE  LInv' /\ LabelsPut
<1> DEFINE name == Current.name
           table == Labelled(cur[1], name)
<1>1. Scanning /\ Collecting /\ Current.op = "label" /\ ReadInto(table)
  BY DEF Label
<1>2. /\ tables' = tables /\ cur' = <<table>> /\ phase' = "scan"
      /\ program' = program /\ line' = line + 1 /\ aliases' = aliases
  BY <1>1 DEF ReadInto, Read, Scanning
<1>3. /\ Source /\ Tables /\ line \in DOMAIN program /\ cur # <<>> /\ tables \in Seq(SoundTable)
  BY <1>1, ScanBytesFacts DEF LInv, Tables, Collecting
<1>4. cur[1] \in SoundTable /\ name \in Spelling
  BY <1>1, <1>3, CurFacts, ScanFacts, LineFields DEF LInv, BInv
<1>5. /\ table \in SoundTable /\ table.data = cur[1].data
      /\ DOMAIN table.labels = DOMAIN cur[1].labels \cup {name}
      /\ table.labels[name] = Len(cur[1].data)
      /\ \A x \in DOMAIN cur[1].labels \ {name} : table.labels[x] = cur[1].labels[x]
  BY <1>4, LabelledFacts, LabelledLabels
<1>6. name = Current.name
  OBVIOUS
<1> HIDE DEF table, name
<1>7. Filling = tables \o <<cur[1]>> /\ Filling' = tables \o <<table>>
  BY <1>2, <1>3, FillingFacts DEF Filling
<1>8. Keeps(Filling, Filling', {name})
  BY <1>3, <1>4, <1>5, <1>7, KeepsAtEnd
<1>9. ASSUME Once(line) PROVE Open(tables', cur'[1], Current.name)
  <2>1. line \in DefinedAt(Current.name)
    BY <1>1, <1>3 DEF DefinedAt, Current
  <2>2. \A m \in DOMAIN Filling : name \notin DOMAIN Filling[m].labels
    BY <1>1, <1>3, <1>6, <1>9, <2>1, NotYetNamed
  <2>3. \A m \in DOMAIN tables : m \in DOMAIN Filling /\ Filling[m] = tables[m]
    BY <1>3, <1>4, <1>7, LastFacts
  <2>4. cur'[1] = table
    BY <1>2
  <2> QED
    BY <1>2, <1>5, <1>6, <2>2, <2>3, <2>4 DEF Open
<1>10. Bytes(line) = 0
  BY <1>1 DEF Bytes, Current
<1>11. ~ Defines(line) /\ DOMAIN aliases' \subseteq SetNames /\ {name} \subseteq {Current.name}
  BY <1>2, <1>6, <1>10 DEF Defines, LInv
<1> QED
  BY <1>1, <1>2, <1>8, <1>9, <1>11, ScanKeepsLabels

LEMMA CommonKeepsLabels ==
    ASSUME LInv, BInv', Grows(Filling, Filling', {0, line}), Common
    PROVE  LInv' /\ LabelsPut
<1> DEFINE reuse == Reuses(TRUE)
           table == IF reuse THEN cur[1] ELSE NewTable(TRUE)
           p == Padding(table.data, Current.width)
           aligned == ExtendedFrom(0, table, p)
           name == Current.name
           named == Labelled(aligned, name)
           n == Current.size
           z == Zeros(n)
           full == Extended(named, z)
           nt == IF reuse THEN tables ELSE Flushed
<1>1. Scanning /\ Read(nt, <<full>>, TRUE) /\ Current.op = "common" /\ aliases' = aliases
  BY DEF Common
<1>2. /\ TInv /\ Source /\ Tables /\ line <= Len(program) /\ line \in Nat /\ line >= 1
      /\ line \in DOMAIN program
  BY <1>1, ScanBytesFacts DEF Scanning, LInv
<1>3. name \in Spelling /\ Current.width \in Nat /\ n \in Nat
  BY <1>1, <1>2, ScanFacts, LineFields
<1>4. reuse => cur # <<>> /\ cur[1] \in SoundTable
  BY <1>2, CurFacts DEF Reuses
<1>5. /\ NewTable(TRUE) \in SoundTable /\ DOMAIN NewTable(TRUE).labels = {}
      /\ NewTable(TRUE).from = <<>>
  BY NewTableFacts
<1>6. name = Current.name
  OBVIOUS
<1> HIDE DEF reuse, name
<1>7. table \in SoundTable
  BY <1>4, <1>5
<1>8. tables \in Seq(SoundTable) /\ Flushed \in Seq(SoundTable) /\ nt \in Seq(SoundTable)
  BY <1>2, FlushedFacts DEF Tables
<1>9. reuse => Filling = nt \o <<table>>
  BY <1>2, <1>4, FillingFacts
<1>10. ~ reuse => table = NewTable(TRUE) /\ nt = Flushed
  OBVIOUS
<1> HIDE DEF table, nt
<1>11. p \in Seq(Byte)
  BY <1>3, <1>7, TableFields, PaddingFacts
<1> HIDE DEF p
<1>12. /\ aligned \in SoundTable /\ aligned.labels = table.labels
       /\ aligned.from = table.from \o [k \in DOMAIN p |-> 0]
  BY <1>7, <1>11, ExtendedFacts
<1> HIDE DEF aligned
<1>13. /\ named \in SoundTable /\ named.from = aligned.from
       /\ DOMAIN named.labels = DOMAIN table.labels \cup {name}
       /\ named.labels[name] = Len(aligned.data)
       /\ \A x \in DOMAIN table.labels \ {name} : named.labels[x] = table.labels[x]
  <2>1. named \in SoundTable /\ named.from = aligned.from
    BY <1>3, <1>12, LabelledFacts
  <2>2. /\ DOMAIN named.labels = DOMAIN aligned.labels \cup {name}
        /\ named.labels[name] = Len(aligned.data)
        /\ \A x \in DOMAIN aligned.labels \ {name} : named.labels[x] = aligned.labels[x]
    BY <1>3, <1>12, LabelledLabels
  <2> QED
    BY ONLY <1>12, <2>1, <2>2
<1> HIDE DEF named
<1>14. z \in Seq(Byte) /\ Len(z) = n
  BY <1>3, ZerosFacts
<1> HIDE DEF z, n
<1>15. /\ full \in SoundTable /\ full.labels = named.labels
       /\ full.from = aligned.from \o [k \in DOMAIN z |-> line]
  <2>1. full = ExtendedFrom(line, named, z)
    BY DEF Extended
  <2> HIDE DEF full
  <2>2. line \in Nat /\ named \in SoundTable /\ z \in Seq(Byte)
    BY <1>2, <1>13, <1>14
  <2>3. /\ full \in SoundTable /\ full.labels = named.labels
        /\ full.from = named.from \o [k \in DOMAIN z |-> line]
    BY ONLY <2>1, <2>2, ExtendedFacts
  <2> QED
    BY <1>13, <2>3
<1> HIDE DEF full
<1>16. /\ tables' = nt /\ cur' = <<full>> /\ phase' = "scan"
       /\ program' = program /\ line' = line + 1
  BY <1>1 DEF Read, Scanning
<1>17. Filling' = nt \o <<full>>
  BY <1>16 DEF Filling
<1>18. Keeps(nt \o <<table>>, Filling', {name})
  BY <1>7, <1>8, <1>13, <1>15, <1>17, KeepsAtEnd
<1>19. Keeps(Filling, nt \o <<table>>, {}) /\ Grows(Filling, nt \o <<table>>, {})
  <2>1. CASE reuse
    <3>1. Filling = nt \o <<table>>
      BY <1>9, <2>1
    <3> QED
      BY <3>1, KeepsSame, GrowsSame
  <2>2. CASE ~ reuse
    <3>1. table.from = <<>> /\ DOMAIN table.labels = {} /\ nt = Flushed
      BY <1>5, <1>10, <2>2
    <3>2. /\ Grows(Flushed, nt \o <<table>>, {}) /\ Keeps(Flushed, nt \o <<table>>, {})
          /\ nt \o <<table>> \in Seq(SoundTable)
      BY <1>7, <1>8, <3>1, GrowsByTable, KeepsByTable
    <3>3. Grows(Filling, Flushed, {}) /\ Keeps(Filling, Flushed, {}) /\ Filling \in Seq(SoundTable)
      BY <1>2, FlushGrows, FlushKeeps, FillingFacts
    <3>4. Grows(Filling, nt \o <<table>>, {} \cup {}) /\ Keeps(Filling, nt \o <<table>>, {} \cup {})
      BY <1>8, <3>2, <3>3, GrowsTransitively, KeepsTransitively
    <3> QED
      BY <3>4
  <2> QED
    BY <2>1, <2>2
<1>20. Filling \in Seq(SoundTable) /\ nt \o <<table>> \in Seq(SoundTable) /\ nt \o <<full>> \in Seq(SoundTable)
  BY <1>2, <1>7, <1>8, <1>15, FillingFacts, LastTable
<1>21. Keeps(Filling, Filling', {name})
  <2>1. Keeps(Filling, Filling', {} \cup {name})
    BY <1>17, <1>18, <1>19, <1>20, KeepsTransitively
  <2> QED
    BY <2>1, KeepsMore
<1>22. ASSUME Defines(line), NEW j \in LabelsAt(line), Once(j)
       PROVE  Stands(Filling', program[j].name, line)
  <2> DEFINE o == Len(aligned.from)
             h == Len(nt) + 1
             mine == [k \in 1 .. n |-> line]
  <2>1. j = line /\ program[j].name = name
    BY <1>1, <1>2, <1>6, <1>22, LabelsAtFacts DEF Current
  <2>2. n > 0
    <3>1. Bytes(line) = n
      BY <1>1 DEF Bytes, Current, n
    <3> QED
      BY <1>22, <3>1 DEF Defines
  <2>3. \A m \in DOMAIN Filling : name \notin DOMAIN Filling[m].labels
    <3>1. line \in DefinedAt(Current.name)
      BY <1>1, <1>2 DEF DefinedAt, Current
    <3> QED
      BY <1>1, <1>2, <1>6, <1>22, <2>1, <3>1, NotYetNamed
  <2>4. \A m \in DOMAIN nt : name \notin DOMAIN nt[m].labels
    <3>1. \A m \in DOMAIN nt : m \in DOMAIN (nt \o <<table>>) /\ (nt \o <<table>>)[m] = nt[m]
      BY <1>7, <1>8, LastFacts
    <3>2. ASSUME NEW m \in DOMAIN nt, name \in DOMAIN nt[m].labels PROVE FALSE
      <4>1. m \in DOMAIN Filling /\ name \in DOMAIN Filling[m].labels
        BY <1>19, <3>1, <3>2 DEF Keeps
      <4> QED
        BY <2>3, <4>1
    <3> QED
      BY <3>2
  <2>5. /\ mine \in Seq(Nat) /\ Len(mine) = n /\ \A i \in 1 .. n : mine[i] = line
        /\ DOMAIN z = 1 .. n /\ n \in Nat
    <3>1. n \in Nat
      BY <1>3
    <3> QED
      BY <1>2, <1>14, <3>1, LenProperties
  <2>6. full.from = aligned.from \o mine
    BY <1>15, <2>5
  <2>7. /\ aligned.from \in Seq(Nat) /\ o \in Nat /\ DOMAIN aligned.from = 1 .. o
        /\ Len(aligned.data) = o /\ Len(aligned.from) = o
    BY <1>12, TableFields, LenProperties
  <2> HIDE DEF o, mine
  <2>8. /\ full.from \in Seq(Nat) /\ Len(full.from) = o + n
        /\ \A i \in 1 .. o + n : full.from[i] = IF i <= o THEN aligned.from[i] ELSE mine[i - o]
    <3>1. /\ aligned.from \o mine \in Seq(Nat) /\ Len(aligned.from \o mine) = Len(aligned.from) + Len(mine)
          /\ \A i \in 1 .. Len(aligned.from) + Len(mine) :
               (aligned.from \o mine)[i] =
                 IF i <= Len(aligned.from) THEN aligned.from[i] ELSE mine[i - Len(aligned.from)]
      <4> DEFINE af == aligned.from
      <4>1. af \in Seq(Nat) /\ mine \in Seq(Nat)
        BY <2>5, <2>7
      <4> HIDE DEF af
      <4>2. /\ af \o mine \in Seq(Nat) /\ Len(af \o mine) = Len(af) + Len(mine)
            /\ \A i \in 1 .. Len(af) + Len(mine) :
                 (af \o mine)[i] = IF i <= Len(af) THEN af[i] ELSE mine[i - Len(af)]
        BY ONLY <4>1, ConcatProperties
      <4> QED
        BY <4>2 DEF af
    <3>2. Len(aligned.from) = o /\ Len(mine) = n
      BY <2>5, <2>7
    <3> QED
      BY <2>6, <3>1, <3>2
  <2>9. DOMAIN full.from = 1 .. o + n
    BY <2>8, LenProperties
  <2>10. o + 1 \in 1 .. o + n /\ ~ (o + 1 <= o) /\ (o + 1) - o = 1 /\ 1 \in 1 .. n
    BY <2>2, <2>5, <2>7
  <2>11. full.from[o + 1] = line
    BY <2>5, <2>8, <2>10
  <2>12. o \in DOMAIN full.from => full.from[o] # line
    <3> SUFFICES ASSUME o \in 1 .. o + n PROVE full.from[o] # line
      BY <2>9
    <3>1. o \in DOMAIN aligned.from /\ full.from[o] = aligned.from[o]
      BY <2>7, <2>8
    <3>2. \A q \in DOMAIN table.from : table.from[q] # line
      BY <1>1, <1>7, <1>8, <1>19, UnreadLine DEF LInv
    <3> DEFINE zeros == [k \in DOMAIN p |-> 0]
    <3>3. zeros \in Seq(Nat) /\ \A q \in DOMAIN zeros : zeros[q] = 0
      BY <1>11
    <3>4. aligned.from = table.from \o zeros /\ table.from \in Seq(Nat)
      BY <1>7, <1>12, TableFields
    <3> HIDE DEF zeros
    <3>5. aligned.from[o] # line
      BY <1>2, <3>1, <3>2, <3>3, <3>4, UnreadPadded
    <3> QED
      BY <3>1, <3>5
  <2>13. /\ Len(nt) \in Nat /\ DOMAIN nt = 1 .. Len(nt)
         /\ DOMAIN Filling' = 1 .. h /\ Filling'[h] = full
         /\ \A m \in 1 .. Len(nt) : Filling'[m] = nt[m]
    BY <1>8, <1>15, <1>17, LastTable
  <2>14. name \in DOMAIN full.labels /\ full.labels[name] = o
    BY <1>13, <1>15, <2>7
  <2>15. StandsAt(Filling', name, line, h, o)
    <3>1. h \in 1 .. h /\ \A i \in 1 .. h : i = h \/ i \in 1 .. Len(nt)
      BY <2>13
    <3>2. \A i \in 1 .. h : name \in DOMAIN Filling'[i].labels => i = h
      BY <2>4, <2>13, <3>1
    <3> HIDE DEF h
    <3> QED
      BY <2>9, <2>10, <2>11, <2>12, <2>13, <2>14, <3>1, <3>2 DEF StandsAt
  <2>16. h \in Nat
    BY <2>13
  <2> QED
    BY <2>1, <2>7, <2>15, <2>16 DEF Stands
<1>23. DOMAIN aliases' \subseteq SetNames /\ {name} \subseteq {Current.name}
  BY <1>1, <1>6 DEF LInv
<1>24. \A j \in LabelsAt(line) : Defines(line) /\ Once(j) => Stands(Filling', program[j].name, line)
  BY <1>22
<1> QED
  BY <1>1, <1>16, <1>21, <1>23, <1>24, ScanKeepsLabels

\* Once every line has been read, only aliases give names places.
LEMMA AliasNames ==
    ASSUME Source, NEW k \in DOMAIN program, NEW j \in LabelsAt(k), Once(j)
    PROVE  program[j].name \notin SetNames
<1> SUFFICES ASSUME NEW i \in DOMAIN program, program[i].op = "set", program[i].name = program[j].name
             PROVE  FALSE
  BY DEF SetNames
<1>1. i \in DefinedAt(program[j].name)
  BY DEF DefinedAt
<1>2. i = j
  BY <1>1 DEF Once
<1> QED
  BY <1>2, LabelsAtFacts

LEMMA PastScanKeepsLabels ==
    ASSUME LInv, BInv', phase # "failed", phase' \notin {"scan", "failed"}, program' = program,
           Seen = DOMAIN program, NEW fresh, fresh \subseteq SetNames,
           Grows(Filling, Filling', {}), Keeps(Filling, Filling', fresh),
           DOMAIN aliases' \subseteq SetNames
    PROVE  LInv'
<1>1. Source /\ Tables /\ Filling \in Seq(SoundTable)
  BY FillingFacts DEF LInv, BInv, TInv
<1>2. Filling' \in Seq(SoundTable)
  <2>1. (Tables => Filling \in Seq(SoundTable))'
    BY FillingFacts, PTL
  <2> QED
    BY <2>1 DEF BInv, TInv
<1>3. Named(Filling, DOMAIN program) /\ Labelling(Filling, DOMAIN program)
  BY DEF LInv
<1>4. Named(Filling', DOMAIN program)
  <2>1. \A name \in fresh : DefinedAt(name) \cap DOMAIN program # {}
    BY DEF SetNames, DefinedAt
  <2> DEFINE a == Filling
             b == Filling'
             Q == DOMAIN program
  <2>2. Keeps(a, b, fresh) /\ Named(a, Q) /\ Q \subseteq Q /\ \A name \in fresh : DefinedAt(name) \cap Q # {}
    BY <1>3, <2>1
  <2> HIDE DEF a, b, Q
  <2>3. Named(b, Q)
    BY ONLY <2>2, NamedStill
  <2> QED
    BY <2>3 DEF b, Q
<1>5. Labelling(Filling', DOMAIN program)
  <2> SUFFICES ASSUME NEW k \in DOMAIN program, Defines(k), NEW j \in LabelsAt(k), Once(j)
               PROVE  Stands(Filling', program[j].name, k)
    BY DEF Labelling
  <2>1. Stands(Filling, program[j].name, k)
    BY <1>3 DEF Labelling
  <2>2. program[j].name \notin fresh
    BY <1>1, AliasNames
  <2>3. k \notin {}
    OBVIOUS
  <2> DEFINE a == Filling
             b == Filling'
             name == program[j].name
  <2>4. /\ a \in Seq(SoundTable) /\ b \in Seq(SoundTable) /\ Grows(a, b, {}) /\ Keeps(a, b, fresh)
        /\ Stands(a, name, k) /\ name \notin fresh
    BY <1>1, <1>2, <2>1, <2>2
  <2> HIDE DEF a, b, name
  <2>5. Stands(b, name, k)
    BY ONLY <2>3, <2>4, StandsStill
  <2> QED
    BY <2>5 DEF b, name
<1>6. Seen' = DOMAIN program
  BY DEF Seen
<1>7. \A k : Defines(k)' = Defines(k)
  BY SourceStays
<1>8. Named(Filling, Seen)' /\ Labelling(Filling, Seen)'
  BY <1>4, <1>5, <1>6, <1>7, NamesStay DEF Named, Labelling
<1> QED
  BY <1>8, NamesStay DEF LInv

LEMMA EndScanKeepsLabels ==
    ASSUME LInv, BInv', EndScan
    PROVE  LInv'
<1>1. /\ phase = "scan" /\ line > Len(program) /\ phase' = "aliases" /\ tables' = Flushed
      /\ cur' = <<>> /\ program' = program /\ aliases' = aliases /\ Source /\ Tables
  BY DEF EndScan, LInv, BInv, TInv
<1>2. /\ program \in Seq(SourceLine) /\ DOMAIN program = 1 .. Len(program) /\ line - 1 = Len(program)
  BY <1>1, ProgramsAssumption, LenProperties DEF Source
<1>3. Filling' = Flushed
  BY <1>1, FlushedFacts, ConcatEmptySeq DEF Filling
<1>4. Grows(Filling, Filling', {}) /\ Keeps(Filling, Filling', {})
  BY <1>1, <1>3, FlushGrows, FlushKeeps
<1>5. Seen = DOMAIN program
  BY <1>1, <1>2 DEF Seen
<1>6. {} \subseteq SetNames /\ DOMAIN aliases' \subseteq SetNames
  BY <1>1 DEF LInv
<1> QED
  BY <1>1, <1>4, <1>5, <1>6, PastScanKeepsLabels

LEMMA FailKeepsLabels ==
    ASSUME LInv, BInv', Fail
    PROVE  LInv'
<1>1. phase' = "failed" /\ program' = program /\ aliases' = aliases
  BY DEF Fail, resolution
<1> QED
  BY <1>1, NamesStay DEF LInv

\* After the scan labels of fresh names only are put.
LEMMA LaterKeepsLabels ==
    ASSUME LInv, BInv', phase \notin {"scan", "failed"}, phase' \notin {"scan", "failed"},
           program' = program, cur' = cur, DOMAIN tables' = DOMAIN tables,
           \A m \in DOMAIN tables :
               tables'[m].from = tables[m].from /\ tables'[m].writable = tables[m].writable,
           NEW fresh, fresh \subseteq SetNames, Keeps(tables, tables', fresh),
           DOMAIN aliases' \subseteq DOMAIN aliases
    PROVE  LInv'
<1>1. cur = <<>> /\ Tables /\ Tables'
  BY DEF LInv, BInv, TInv
<1>2. Filling = tables /\ Filling' = tables' /\ tables \in Seq(SoundTable) /\ tables' \in Seq(SoundTable)
  BY <1>1, ConcatEmptySeq DEF Filling, Tables
<1>3. Grows(Filling, Filling', {}) /\ Keeps(Filling, Filling', fresh)
  BY <1>2, GrowsSame
<1>4. Seen = DOMAIN program
  BY DEF Seen
<1>5. DOMAIN aliases' \subseteq SetNames
  BY DEF LInv
<1> QED
  BY <1>3, <1>4, <1>5, PastScanKeepsLabels

LEMMA ResolveAliasKeepsLabels ==
    ASSUME LInv, BInv', ResolveAlias
    PROVE  LInv'
<1>1. /\ phase' = phase /\ phase = "aliases" /\ program' = program /\ cur' = cur /\ Tables /\ Resolution
  BY DEF ResolveAlias, Resolving, LInv, BInv, TInv
<1>2. PICK a \in todo :
        /\ \E l \in Locations(aliases[a].sym) :
             tables' = [tables EXCEPT ![l.table].labels = With(@, a, l.offset + aliases[a].add)]
        /\ aliases' = Without(aliases, a)
  BY DEF ResolveAlias
<1>3. PICK l \in Locations(aliases[a].sym) :
        tables' = [tables EXCEPT ![l.table].labels = With(@, a, l.offset + aliases[a].add)]
  BY <1>2
<1> DEFINE m == With(tables[l.table].labels, a, l.offset + aliases[a].add)
<1>4. tables' = [tables EXCEPT ![l.table] = [tables[l.table] EXCEPT !.labels = m]]
  BY <1>3
<1>5. /\ DOMAIN m = DOMAIN tables[l.table].labels \cup {a}
      /\ \A x \in DOMAIN tables[l.table].labels \ {a} : m[x] = tables[l.table].labels[x]
  BY DEF With
<1> HIDE DEF m
<1>6. l.table \in DOMAIN tables
  BY <1>1, LocationsFacts
<1>7. \A k \in DOMAIN tables : tables[k] \in Table
  BY <1>1, TableIsSound, TableFields
<1>8. tables \in Seq(SoundTable)
  BY <1>1 DEF Tables
<1>9. DOMAIN tables' = DOMAIN tables
  BY <1>4, <1>8
<1>10. \A k \in DOMAIN tables :
        tables'[k].from = tables[k].from /\ tables'[k].writable = tables[k].writable
  BY <1>4, <1>6, <1>7, <1>8 DEF Table
<1>11. /\ \A k \in DOMAIN tables : k # l.table => tables'[k].labels = tables[k].labels
       /\ tables'[l.table].labels = m
  BY <1>4, <1>6, <1>7, <1>8 DEF Table
<1>12. Keeps(tables, tables', {a})
  BY <1>5, <1>9, <1>11 DEF Keeps
<1>13. a \in SetNames /\ {a} \subseteq SetNames
  <2>1. a \in DOMAIN aliases
    BY <1>1 DEF Resolution
  <2> QED
    BY <2>1 DEF LInv
<1>14. DOMAIN aliases' \subseteq DOMAIN aliases
  BY <1>2 DEF Without
<1>15. phase \notin {"scan", "failed"} /\ phase' \notin {"scan", "failed"}
  BY <1>1
<1> QED
  BY <1>1, <1>9, <1>10, <1>12, <1>13, <1>14, <1>15, LaterKeepsLabels

LEMMA DifferenceKeepsLabels ==
    ASSUME TInv, WriteDifference
    PROVE  /\ phase = "relocs" /\ phase' = phase /\ program' = program /\ cur' = cur /\ aliases' = aliases
           /\ DOMAIN tables' = DOMAIN tables
           /\ \A k \in DOMAIN tables :
                /\ tables'[k].from = tables[k].from /\ tables'[k].writable = tables[k].writable
                /\ tables'[k].labels = tables[k].labels
<1>1. phase = "relocs" /\ Tables
  BY DEF WriteDifference, TInv
<1>2. PICK u \in unbound :
        /\ \E d :
             tables' = [tables EXCEPT ![u.table].data = d, ![u.table].relocs = @ \ {u.reloc}]
        /\ Bound(u)
  BY DEF WriteDifference
<1>3. PICK d :
        tables' = [tables EXCEPT ![u.table].data = d, ![u.table].relocs = @ \ {u.reloc}]
  BY <1>2
<1>4. tables' = [tables EXCEPT ![u.table] = Written(tables[u.table], d, u.reloc)]
  BY <1>3 DEF Written
<1>5. \A k \in DOMAIN tables : tables[k] \in Table
  BY <1>1, TableIsSound, TableFields
<1>6. tables \in Seq(SoundTable)
  BY <1>1 DEF Tables
<1>7. DOMAIN tables' = DOMAIN tables
  BY <1>4, <1>6
<1>8. \A k \in DOMAIN tables :
        /\ tables'[k].from = tables[k].from /\ tables'[k].writable = tables[k].writable
        /\ tables'[k].labels = tables[k].labels
  BY <1>4, <1>5, <1>6 DEF Table, Written
<1>9. phase' = phase /\ program' = program /\ cur' = cur /\ aliases' = aliases
  BY <1>2 DEF Bound
<1> QED
  BY <1>1, <1>7, <1>8, <1>9

LEMMA WriteDifferenceKeepsLabels ==
    ASSUME LInv, BInv', WriteDifference
    PROVE  LInv'
<1>1. TInv
  BY DEF LInv, BInv
<1>2. Keeps(tables, tables', {}) /\ {} \subseteq SetNames
  BY <1>1, DifferenceKeepsLabels, KeepsSame
<1> QED
  BY <1>1, <1>2, DifferenceKeepsLabels, LaterKeepsLabels

LEMMA SameTablesKeepLabels ==
    ASSUME LInv, BInv', phase \notin {"scan", "failed"}, phase' \notin {"scan", "failed"},
           program' = program, cur' = cur, tables' = tables, aliases' = aliases
    PROVE  LInv'
<1>1. Keeps(tables, tables', {}) /\ {} \subseteq SetNames
  BY KeepsSame
<1> QED
  BY <1>1, LaterKeepsLabels

LEMMA StepKeepsLabels == LInv /\ [Next]_vars => LInv'
<1> SUFFICES ASSUME LInv, [Next]_vars PROVE LInv'
  OBVIOUS
<1>1. BInv /\ BInv' /\ TInv'
  BY StepKeepsBytes DEF LInv, BInv
<1>2. CASE DataSection
  BY <1>1, <1>2, DataSectionKeepsBytes, DataSectionKeepsLabels
<1>3. CASE TextSection
  BY <1>1, <1>3, TextSectionKeepsBytes, TextSectionKeepsLabels
<1>4. CASE Common
  BY <1>1, <1>4, CommonKeepsBytes, CommonKeepsLabels
<1>5. CASE SetAlias
  BY <1>1, <1>5, SetAliasKeepsBytes, SetAliasKeepsLabels
<1>6. CASE PutBytes
  BY <1>1, <1>6, PutBytesKeepsBytes, PutBytesKeepsLabels
<1>7. CASE PutReloc
  BY <1>1, <1>7, PutRelocKeepsBytes, PutRelocKeepsLabels
<1>8. CASE RejectSection \/ RejectData \/ RejectAlias \/ RejectReloc \/ RejectReference
  <2>1. Fail
    BY <1>8 DEF RejectSection, RejectData, RejectAlias, RejectReloc, RejectReference
  <2> QED
    BY <1>1, <2>1, FailKeepsLabels
<1>9. CASE Label
  BY <1>1, <1>9, LabelKeepsBytes, LabelKeepsLabels
<1>10. CASE Skip
  BY <1>1, <1>10, SkipKeepsBytes, SkipKeepsLabels
<1>11. CASE EndScan
  BY <1>1, <1>11, EndScanKeepsLabels
<1>12. CASE ResolveAlias
  BY <1>1, <1>12, ResolveAliasKeepsLabels
<1>13. CASE WriteDifference
  BY <1>1, <1>13, WriteDifferenceKeepsLabels
<1>14. CASE SkipAlias \/ NextRound \/ EndAliases \/ KeepReloc \/ EndRelocs
  <2>1. /\ phase \in {"aliases", "relocs"} /\ phase' \in {"aliases", "relocs", "code"}
        /\ program' = program /\ cur' = cur /\ tables' = tables /\ aliases' = aliases
    BY <1>14 DEF SkipAlias, NextRound, EndAliases, KeepReloc, EndRelocs, Resolving, Bound, resolution
  <2> QED
    BY <1>1, <2>1, SameTablesKeepLabels
<1>15. CASE RewriteReference \/ SkipLine \/ EndCode \/ EmitTables \/ EndEmit
  <2>1. /\ phase \in {"code", "emit"} /\ phase' \in {"code", "emit", "done"}
        /\ program' = program /\ cur' = cur /\ tables' = tables /\ aliases' = aliases
    BY <1>15 DEF RewriteReference, SkipLine, EndCode, EmitTables, EndEmit, AtReference,
         EmitNext, EmitReloc, EmitBytes, EmitGlobl, Emit, resolution
  <2> QED
    BY <1>1, <2>1, SameTablesKeepLabels
<1>16. CASE UNCHANGED vars
  <2>1. /\ phase' = phase /\ program' = program /\ line' = line /\ cur' = cur /\ tables' = tables
        /\ aliases' = aliases
    BY <1>16 DEF vars
  <2>2. Filling' = Filling /\ Seen' = Seen
    BY <2>1 DEF Filling, Seen
  <2>3. \A k : Defines(k)' = Defines(k)
    BY <2>1, SourceStays
  <2>4. IsData(line)' = IsData(line)
    BY <2>1 DEF IsData, SectionOf
  <2>5. phase' # "failed" => Named(Filling, Seen)' /\ Labelling(Filling, Seen)'
    BY <2>1, <2>2, <2>3, NamesStay DEF LInv, Named, Labelling
  <2>6. Open(tables, cur[1], program[line - 1].name)' <=> Open(tables, cur[1], program[line - 1].name)
    BY <2>1 DEF Open
  <2>7. (phase = "scan" /\ IsData(line) /\ line - 1 \in DOMAIN program
           /\ program[line - 1].op = "label" /\ Once(line - 1)
         => Open(tables, cur[1], program[line - 1].name))'
    BY <2>1, <2>4, <2>6, NamesStay DEF LInv
  <2>8. (DOMAIN aliases \subseteq SetNames)'
    BY <2>1, NamesStay DEF LInv
  <2> QED
    BY <1>1, <2>5, <2>7, <2>8 DEF LInv
<1> QED
  BY <1>2, <1>3, <1>4, <1>5, <1>6, <1>7, <1>8, <1>9, <1>10, <1>11, <1>12, <1>13, <1>14, <1>15, <1>16
  DEF Next

LEMMA LabelsInvariance == Spec => []LInv
<1>1. Init /\ BInv => LInv
  <2> SUFFICES ASSUME Init, BInv PROVE LInv
    OBVIOUS
  <2>1. phase = "scan" /\ line = 1 /\ cur = <<>> /\ tables = <<>> /\ aliases = <<>> /\ Tables
    BY DEF Init, BInv, TInv
  <2>2. Filling = <<>> /\ Seen = {} /\ SectionOf(line) = {}
    BY <2>1, FillingFacts DEF Seen, SectionOf
  <2> QED
    BY <2>1, <2>2 DEF LInv, Named, Labelling, IsData
<1> QED
  BY <1>1, BytesInvariance, StepKeepsLabels, PTL DEF Spec

\* Where a label stands is where the code finds it.
LEMMA LabelFound ==
    ASSUME tables \in Seq(SoundTable), NEW name, NEW k, NEW m \in Nat, NEW o \in Nat,
           StandsAt(tables, name, k, m, o)
    PROVE  TableFor(name) = {Place(m, o)}
<1> DEFINE First == {n \in DOMAIN tables : name \in DOMAIN tables[n].labels
                       /\ \A i \in 1 .. n - 1 : name \notin DOMAIN tables[i].labels}
<1>1. /\ m \in DOMAIN tables /\ name \in DOMAIN tables[m].labels /\ tables[m].labels[name] = o
      /\ \A n \in DOMAIN tables : name \in DOMAIN tables[n].labels => n = m
  BY DEF StandsAt
<1>2. DOMAIN tables = 1 .. Len(tables) /\ Len(tables) \in Nat
  BY LenProperties
<1>3. First = {m}
  <2>1. \A i \in 1 .. m - 1 : i \in DOMAIN tables /\ i # m
    BY <1>1, <1>2
  <2> QED
    BY <1>1, <2>1
<1>4. TableFor(name) = {[table |-> n, sym |-> NoName, offset |-> tables[n].labels[name]] : n \in First}
  BY DEF TableFor
<1> HIDE DEF First
<1> QED
  BY <1>1, <1>3, <1>4 DEF Place

\* A label that is defined once stands at the first of the bytes that follow
\* it, and the code finds it there, in every source and in whatever order its
\* sections, commons, labels and aliases come.
THEOREM LabelsAreRight == Spec => []LabelsStand
<1>1. LInv => LabelsStand
  <2> SUFFICES ASSUME LInv, Collected, NEW k \in DOMAIN program, Defines(k), NEW j \in LabelsAt(k),
                      DefinedAt(program[j].name) = {j}
               PROVE  \E p \in PlacesOf(k) :
                        /\ TableFor(program[j].name) = {p}
                        /\ \A q \in PlacesOf(k) : p.offset <= q.offset
    BY DEF LabelsStand
  <2> DEFINE name == program[j].name
             b == Bytes(k)
  <2>1. phase \notin {"scan", "failed"} /\ cur = <<>> /\ Tables /\ Source /\ Filling = tables /\ BInv
    BY FillingFacts DEF Collected, LInv, BInv, TInv
  <2>2. Seen = DOMAIN program /\ tables \in Seq(SoundTable)
    BY <2>1 DEF Seen, Tables
  <2>3. KeptIn(tables, k, b, MustWrite(k)) /\ b \in Nat /\ b > 0
    BY <2>1, <2>2, BytesFacts DEF BInv, Defines
  <2>4. Stands(tables, name, k)
    BY <2>1, <2>2 DEF LInv, Labelling, Once
  <2> HIDE DEF name, b
  <2>5. PICK m \in Nat, o \in Nat : StandsAt(tables, name, k, m, o)
    BY <2>4 DEF Stands
  <2>6. PICK n \in DOMAIN tables : \E lo \in Nat :
          /\ lo + 1 .. lo + b \subseteq DOMAIN tables[n].from
          /\ \A i \in DOMAIN tables : \A q \in DOMAIN tables[i].from :
               tables[i].from[q] = k <=> i = n /\ q \in lo + 1 .. lo + b
    BY <2>3 DEF KeptIn
  <2>7. PICK lo \in Nat :
          /\ lo + 1 .. lo + b \subseteq DOMAIN tables[n].from
          /\ \A i \in DOMAIN tables : \A q \in DOMAIN tables[i].from :
               tables[i].from[q] = k <=> i = n /\ q \in lo + 1 .. lo + b
    BY <2>6
  <2>8. /\ m \in DOMAIN tables /\ o + 1 \in DOMAIN tables[m].from /\ tables[m].from[o + 1] = k
        /\ o \in DOMAIN tables[m].from => tables[m].from[o] # k
    BY <2>5 DEF StandsAt
  <2>9. m = n /\ o + 1 \in lo + 1 .. lo + b
    BY <2>7, <2>8
  <2>10. o = lo
    <3>1. o \notin lo + 1 .. lo + b
      BY <2>7, <2>8, <2>9
    <3> QED
      BY <2>3, <2>9, <3>1
  <2>11. PlacesOf(k) = Span(n, lo, b)
    BY <2>1, <2>3, <2>7, PlacesFacts
  <2>12. TableFor(name) = {Place(n, lo)}
    BY <2>2, <2>5, <2>9, <2>10, LabelFound
  <2>13. Place(n, lo) \in Span(n, lo, b) /\ \A q \in Span(n, lo, b) : Place(n, lo).offset <= q.offset
    <3>1. 1 \in 1 .. b /\ lo + 1 - 1 = lo /\ \A i \in 1 .. b : lo <= lo + i - 1
      BY <2>3
    <3> QED
      BY <3>1 DEF Span, Place
  <2> QED
    BY <2>11, <2>12, <2>13 DEF name
<1> QED
  BY <1>1, LabelsInvariance, PTL

-----------------------------------------------------------------------------
(***************************************************************************)
(* The rounds.  There are as many as aliases, and each but the last        *)
(* resolves one: so when they end, no alias that is left can be resolved.  *)
(***************************************************************************)
Stuck(a) == aliases[a].sub # NoName \/ Locations(aliases[a].sym) = {}

AInv ==
    /\ TInv
    /\ phase = "scan" => progress = FALSE
    /\ phase = "aliases" =>
         /\ Cardinality(DOMAIN aliases) + (IF progress THEN 1 ELSE 0) <= rounds
         /\ progress \/ \A a \in DOMAIN aliases \ todo : Stuck(a)
    /\ phase \notin {"scan", "aliases", "failed"} => \A a \in DOMAIN aliases : Stuck(a)

\* Where labels are found depends on the labels only.
LEMMA SameLocations ==
    ASSUME DOMAIN tables' = DOMAIN tables, \A k \in DOMAIN tables : tables'[k].labels = tables[k].labels,
           tables \in Seq(SoundTable), NEW sym
    PROVE  Locations(sym)' = Locations(sym)
<1> DEFINE First == {n \in DOMAIN tables : \A m \in 1 .. n - 1 : Matching(tables[m], sym) = {}}
           Of(k) == {[table |-> k, offset |-> tables[k].labels[l]] : l \in Matching(tables[k], sym)}
<1>1. DOMAIN tables = 1 .. Len(tables) /\ Len(tables) \in Nat
  BY LenProperties
<1>2. ASSUME NEW k \in DOMAIN tables PROVE Matching(tables'[k], sym) = Matching(tables[k], sym)
  BY DEF Matching
<1>3. First' = First
  <2>1. \A n \in DOMAIN tables : \A m \in 1 .. n - 1 : m \in DOMAIN tables
    BY <1>1
  <2> QED
    BY <1>2, <2>1
<1>4. ASSUME NEW k \in First
      PROVE  {[table |-> k, offset |-> tables'[k].labels[l]] : l \in Matching(tables'[k], sym)} = Of(k)
  BY <1>2
<1>5. Locations(sym) = UNION {Of(k) : k \in First}
  BY DEF Locations
<1>6. Locations(sym)' =
        UNION {{[table |-> k, offset |-> tables'[k].labels[l]] : l \in Matching(tables'[k], sym)} : k \in First'}
  BY DEF Locations
<1> HIDE DEF First, Of
<1> QED
  BY <1>3, <1>4, <1>5, <1>6

LEMMA StuckStays ==
    ASSUME DOMAIN tables' = DOMAIN tables, \A k \in DOMAIN tables : tables'[k].labels = tables[k].labels,
           tables \in Seq(SoundTable), aliases' = aliases
    PROVE  \A a : Stuck(a)' = Stuck(a)
<1> TAKE a
<1>1. Locations(aliases[a].sym)' = Locations(aliases[a].sym)
  <2> DEFINE s == aliases[a].sym
  <2>1. s' = s
    OBVIOUS
  <2>2. \A x : Locations(x)' = Locations(x)
    BY SameLocations
  <2> QED
    BY <2>2
<1> QED
  BY <1>1 DEF Stuck

LEMMA AliasesLeft ==
    ASSUME TInv
    PROVE  /\ IsFiniteSet(DOMAIN aliases) /\ Cardinality(DOMAIN aliases) \in Nat
           /\ rounds \in Nat /\ progress \in BOOLEAN /\ todo \subseteq DOMAIN aliases
           /\ Cardinality(DOMAIN aliases) = 0 <=> DOMAIN aliases = {}
           /\ tables \in Seq(SoundTable)
<1>1. /\ IsFiniteSet(DOMAIN aliases) /\ rounds \in Nat /\ progress \in BOOLEAN
      /\ todo \subseteq DOMAIN aliases /\ tables \in Seq(SoundTable)
  BY DEF TInv, Resolution, Tables
<1> QED
  BY <1>1, FS_CardinalityType, FS_EmptySet

LEMMA StepKeepsRounds == AInv /\ [Next]_vars => AInv'
<1> SUFFICES ASSUME AInv, [Next]_vars PROVE AInv'
  OBVIOUS
<1>1. TInv /\ TInv'
  BY StepKeeps DEF AInv
<1>2. CASE /\ phase = "scan" /\ phase' = "scan" /\ progress' = progress
  BY <1>1, <1>2 DEF AInv
<1>3. CASE Fail
  BY <1>1, <1>3 DEF AInv, Fail
<1>4. CASE EndScan
  <2>1. /\ phase' = "aliases" /\ progress' = FALSE /\ aliases' = aliases /\ todo' = DOMAIN aliases
        /\ rounds' = Cardinality(DOMAIN aliases)
    BY <1>4 DEF EndScan, AInv
  <2>2. Cardinality(DOMAIN aliases) \in Nat
    BY <1>1, AliasesLeft
  <2>3. DOMAIN aliases' \ todo' = {}
    BY <2>1
  <2>4. Cardinality(DOMAIN aliases') + (IF progress' THEN 1 ELSE 0) <= rounds'
    BY <2>1, <2>2
  <2> QED
    BY <1>1, <2>1, <2>3, <2>4 DEF AInv
<1>5. CASE SkipAlias
  <2>1. PICK a \in todo : (aliases[a].sub # NoName \/ Locations(aliases[a].sym) = {}) /\ todo' = todo \ {a}
    BY <1>5 DEF SkipAlias
  <2>2. /\ phase = "aliases" /\ phase' = phase /\ aliases' = aliases /\ rounds' = rounds
        /\ progress' = progress /\ tables' = tables
    BY <1>5 DEF SkipAlias, Resolving
  <2>3. \A b : Stuck(b)' = Stuck(b)
    BY <1>1, <2>2, AliasesLeft, StuckStays
  <2>4. Stuck(a)
    BY <2>1 DEF Stuck
  <2>5. progress' \/ \A b \in DOMAIN aliases' \ todo' : Stuck(b)'
    BY <2>1, <2>2, <2>3, <2>4 DEF AInv
  <2>6. Cardinality(DOMAIN aliases') + (IF progress' THEN 1 ELSE 0) <= rounds'
    BY <2>2 DEF AInv
  <2> QED
    BY <1>1, <2>2, <2>5, <2>6 DEF AInv
<1>6. CASE ResolveAlias
  <2>1. PICK a \in todo : aliases' = Without(aliases, a)
    BY <1>6 DEF ResolveAlias
  <2>2. /\ phase = "aliases" /\ phase' = phase /\ rounds' = rounds /\ progress' = TRUE
    BY <1>6 DEF ResolveAlias, Resolving
  <2>3. DOMAIN aliases' = DOMAIN aliases \ {a} /\ a \in DOMAIN aliases
    BY <1>1, <2>1, AliasesLeft DEF Without
  <2>4. Cardinality(DOMAIN aliases') = Cardinality(DOMAIN aliases) - 1
    BY <1>1, <2>3, AliasesLeft, FS_RemoveElement
  <2>5. Cardinality(DOMAIN aliases) \in Nat /\ rounds \in Nat /\ Cardinality(DOMAIN aliases) <= rounds
    <3>1. Cardinality(DOMAIN aliases) + (IF progress THEN 1 ELSE 0) <= rounds
      BY <2>2 DEF AInv
    <3> QED
      BY <1>1, <3>1, AliasesLeft
  <2>6. Cardinality(DOMAIN aliases') + (IF progress' THEN 1 ELSE 0) <= rounds'
    BY <2>2, <2>4, <2>5
  <2> QED
    BY <1>1, <2>2, <2>6 DEF AInv
<1>7. CASE NextRound
  <2>1. /\ phase = "aliases" /\ phase' = phase /\ rounds' = rounds - 1 /\ progress' = FALSE /\ progress
        /\ aliases' = aliases /\ todo' = DOMAIN aliases
    BY <1>7 DEF NextRound, Resolving, Another
  <2>2. Cardinality(DOMAIN aliases) + (IF progress THEN 1 ELSE 0) <= rounds
    BY <2>1 DEF AInv
  <2>3. Cardinality(DOMAIN aliases) + 1 <= rounds /\ Cardinality(DOMAIN aliases) \in Nat /\ rounds \in Nat
    BY <1>1, <2>1, <2>2, AliasesLeft
  <2>4. Cardinality(DOMAIN aliases') + (IF progress' THEN 1 ELSE 0) <= rounds'
    BY <2>1, <2>3
  <2>5. DOMAIN aliases' \ todo' = {}
    BY <2>1
  <2> QED
    BY <1>1, <2>1, <2>4, <2>5 DEF AInv
<1>8. CASE EndAliases
  <2>1. /\ phase = "aliases" /\ phase' = "relocs" /\ aliases' = aliases /\ tables' = tables
        /\ rounds = 0 \/ (todo = {} /\ ~ Another)
    BY <1>8 DEF EndAliases
  <2>2. \A b : Stuck(b)' = Stuck(b)
    BY <1>1, <2>1, AliasesLeft, StuckStays
  <2>3. Cardinality(DOMAIN aliases) + (IF progress THEN 1 ELSE 0) <= rounds
    BY <2>1 DEF AInv
  <2>4. \A a \in DOMAIN aliases : Stuck(a)
    <3>1. CASE rounds = 0
      <4>1. Cardinality(DOMAIN aliases) = 0
        BY <1>1, <2>3, <3>1, AliasesLeft
      <4> QED
        BY <1>1, <4>1, AliasesLeft
    <3>2. CASE todo = {} /\ ~ progress
      BY <2>1, <3>2 DEF AInv
    <3>3. CASE progress /\ ~ (rounds > 1)
      <4>1. Cardinality(DOMAIN aliases) = 0
        BY <1>1, <2>3, <3>3, AliasesLeft
      <4> QED
        BY <1>1, <4>1, AliasesLeft
    <3> QED
      BY <2>1, <3>1, <3>2, <3>3 DEF Another
  <2> QED
    BY <1>1, <2>1, <2>2, <2>4 DEF AInv
<1>9. CASE /\ phase \notin {"scan", "aliases", "failed"} /\ phase' \notin {"scan", "aliases"}
           /\ aliases' = aliases /\ DOMAIN tables' = DOMAIN tables
           /\ \A k \in DOMAIN tables : tables'[k].labels = tables[k].labels
  <2>1. \A b : Stuck(b)' = Stuck(b)
    BY <1>1, <1>9, AliasesLeft, StuckStays
  <2> QED
    BY <1>1, <1>9, <2>1 DEF AInv
<1>10. CASE UNCHANGED vars
  <2>1. /\ phase' = phase /\ progress' = progress /\ aliases' = aliases /\ todo' = todo /\ rounds' = rounds
        /\ tables' = tables
    BY <1>10 DEF vars
  <2>2. \A b : Stuck(b)' = Stuck(b)
    BY <1>1, <2>1, AliasesLeft, StuckStays
  <2> QED
    BY <1>1, <2>1, <2>2 DEF AInv
<1>11. CASE WriteDifference
  BY <1>1, <1>9, <1>11, DifferenceKeepsLabels
<1>12. CASE KeepReloc \/ EndRelocs \/ RewriteReference \/ SkipLine \/ EndCode \/ EmitTables \/ EndEmit
  <2>1. /\ phase \in {"relocs", "code", "emit"} /\ phase' \in {"relocs", "code", "emit", "done"}
        /\ aliases' = aliases /\ tables' = tables
    BY <1>12 DEF KeepReloc, EndRelocs, Bound, RewriteReference, SkipLine, EndCode, EmitTables, EndEmit,
         AtReference, EmitNext, EmitReloc, EmitBytes, EmitGlobl, Emit, resolution
  <2> QED
    BY <1>9, <2>1
<1>13. CASE DataSection \/ TextSection \/ Common \/ SetAlias \/ PutBytes \/ PutReloc \/ Label \/ Skip
  <2>1. phase = "scan" /\ phase' = phase /\ progress' = progress
    BY <1>13 DEF DataSection, TextSection, Common, SetAlias, PutBytes, PutReloc, Label, Skip,
         ReadInto, Read, Scanning
  <2> QED
    BY <1>2, <2>1
<1>14. CASE RejectSection \/ RejectData \/ RejectAlias \/ RejectReloc \/ RejectReference
  <2>1. Fail
    BY <1>14 DEF RejectSection, RejectData, RejectAlias, RejectReloc, RejectReference
  <2> QED
    BY <1>3, <2>1
<1> QED
  BY <1>4, <1>5, <1>6, <1>7, <1>8, <1>10, <1>11, <1>12, <1>13, <1>14 DEF Next

\* Rounds end too soon for no alias: those that are left when references are
\* resolved name nothing in any table, in whatever order aliases were visited.
THEOREM RoundsSuffice == Spec => []AInv
<1>1. Init /\ TInv => AInv
  BY DEF Init, AInv
<1> QED
  BY <1>1, ConversionInvariance, StepKeepsRounds, PTL DEF Spec

-----------------------------------------------------------------------------
(***************************************************************************)
(* Names.  When they are distinct, a lookup that strips the underscore     *)
(* finds the label that is spelled so and no other, and an alias is put    *)
(* once, from then on at its distance from what it stands for.             *)
(***************************************************************************)
Sets == {k \in DOMAIN program : program[k].op = "set"}

\* How collectConstTables keeps an alias.
AliasOf(n) == [name |-> n.sym, sym |-> Strip[n.sym], add |-> n.add, sub |-> n.sub]

Kept(k) == program[k].name \in DOMAIN aliases /\ aliases[program[k].name] = AliasOf(program[k])
Unput(all, name) == \A m \in DOMAIN all : name \notin DOMAIN all[m].labels

\* The alias of line k, not yet resolved or resolved.
Waiting(k) == Kept(k) /\ Unput(tables, program[k].name)
Settled(k) ==
    /\ program[k].sub = NoName /\ program[k].name \notin DOMAIN aliases
    /\ \E m, o \in Int :
         /\ TableFor(program[k].sym) = {Place(m, o)}
         /\ TableFor(program[k].name) = {Place(m, o + program[k].add)}

Naming ==
    /\ phase = "scan" =>
         /\ \A a \in SetNames : Unput(Filling, a)
         /\ \A k \in Sets : k < line => Kept(k)
    /\ phase \notin {"scan", "failed"} => \A k \in Sets : Waiting(k) \/ Settled(k)

NInv == LInv /\ AInv /\ (Distinct(program) => Naming)

LEMMA DefinedFacts ==
    ASSUME NEW l, NEW i \in DefinedAt(l)
    PROVE  i \in DOMAIN program /\ Gives(program[i]) = {l}
  BY DEF DefinedAt, Gives

LEMMA PlainMatching ==
    ASSUME Distinct(program), Named(tables, DOMAIN program), NEW k \in DOMAIN program,
           NEW s \in Uses(program[k]), NEW m \in DOMAIN tables
    PROVE  Matching(tables[m], Strip[s]) = {l \in DOMAIN tables[m].labels : l = s}
<1>1. ASSUME NEW l \in DOMAIN tables[m].labels, Strip[s] \in {l, Strip[l]}
      PROVE  l = s
  <2>1. PICK i \in DefinedAt(l) : TRUE
    BY DEF Named
  <2>2. i \in DOMAIN program /\ l \in Gives(program[i])
    BY DefinedFacts
  <2>3. Strip[s] \in {l, Strip[l]} \cap {s, Strip[s]}
    BY <1>1
  <2>4. {l, Strip[l]} \cap {s, Strip[s]} # {} => l = s
    BY <2>2 DEF Distinct
  <2> QED
    BY <2>3, <2>4
<1> QED
  BY <1>1 DEF Matching

\* dataLabelLocation finds what tableFor finds.
LEMMA PlainLocations ==
    ASSUME Distinct(program), Named(tables, DOMAIN program), tables \in Seq(SoundTable),
           NEW k \in DOMAIN program, NEW s \in Uses(program[k])
    PROVE  /\ Locations(Strip[s]) = {} => TableFor(s) = {}
           /\ \A l \in Locations(Strip[s]) : TableFor(s) = {Place(l.table, l.offset)}
<1> DEFINE First == {n \in DOMAIN tables : s \in DOMAIN tables[n].labels
                       /\ \A m \in 1 .. n - 1 : s \notin DOMAIN tables[m].labels}
<1>1. DOMAIN tables = 1 .. Len(tables) /\ Len(tables) \in Nat
  BY LenProperties
<1>2. \A n \in DOMAIN tables : \A m \in 1 .. n - 1 : m \in DOMAIN tables
  BY <1>1
<1>3. \A m \in DOMAIN tables : Matching(tables[m], Strip[s]) = {l \in DOMAIN tables[m].labels : l = s}
  BY PlainMatching
<1>4. TableFor(s) = {[table |-> n, sym |-> NoName, offset |-> tables[n].labels[s]] : n \in First}
  BY DEF TableFor
<1>5. ASSUME NEW l \in Locations(Strip[s])
      PROVE  TableFor(s) = {Place(l.table, l.offset)}
  <2>1. PICK n \in {i \in DOMAIN tables : \A m \in 1 .. i - 1 : Matching(tables[m], Strip[s]) = {}} :
          l \in {[table |-> n, offset |-> tables[n].labels[x]] : x \in Matching(tables[n], Strip[s])}
    BY DEF Locations
  <2>2. PICK x \in Matching(tables[n], Strip[s]) : l = [table |-> n, offset |-> tables[n].labels[x]]
    BY <2>1
  <2>3. x = s /\ s \in DOMAIN tables[n].labels
    BY <1>3, <2>2
  <2>4. n \in First
    BY <1>2, <1>3, <2>1, <2>3
  <2>5. \A i \in First : i = n
    <3> TAKE i \in First
    <3>1. i \in Nat /\ n \in Nat /\ i >= 1 /\ n >= 1
      BY <1>1, <2>4
    <3>2. ~ (i < n)
      <4>1. i < n => i \in 1 .. n - 1
        BY <3>1
      <4> QED
        BY <2>4, <4>1
    <3>3. ~ (n < i)
      <4>1. n < i => n \in 1 .. i - 1
        BY <3>1
      <4> QED
        BY <2>4, <4>1
    <3> QED
      BY <3>1, <3>2, <3>3
  <2>6. First = {n}
    BY <2>4, <2>5
  <2> HIDE DEF First
  <2> QED
    BY <1>4, <2>2, <2>3, <2>6 DEF Place
<1>6. ASSUME NEW n \in First
      PROVE  Locations(Strip[s]) # {}
  <2>1. \A m \in 1 .. n - 1 : Matching(tables[m], Strip[s]) = {}
    BY <1>2, <1>3
  <2>2. s \in Matching(tables[n], Strip[s])
    BY <1>3
  <2> DEFINE Of(i) == {[table |-> i, offset |-> tables[i].labels[l]] : l \in Matching(tables[i], Strip[s])}
             Earliest == {i \in DOMAIN tables : \A m \in 1 .. i - 1 : Matching(tables[m], Strip[s]) = {}}
  <2>3. n \in Earliest /\ Of(n) # {}
    BY <2>1, <2>2
  <2>4. Locations(Strip[s]) = UNION {Of(i) : i \in Earliest}
    BY DEF Locations
  <2> HIDE DEF Of, Earliest
  <2> QED
    BY <2>3, <2>4
<1>7. Locations(Strip[s]) = {} => First = {}
  BY <1>6
<1> HIDE DEF First
<1> QED
  BY <1>4, <1>5, <1>7

LEMMA UnputNotFound ==
    ASSUME NEW name, Unput(tables, name)
    PROVE  TableFor(name) = {}
  BY DEF Unput, TableFor

\* A name is found where it was as long as its own labels stay.
LEMMA SameTableFor ==
    ASSUME DOMAIN tables' = DOMAIN tables, tables \in Seq(SoundTable), NEW name,
           \A k \in DOMAIN tables :
               /\ name \in DOMAIN tables'[k].labels <=> name \in DOMAIN tables[k].labels
               /\ name \in DOMAIN tables[k].labels => tables'[k].labels[name] = tables[k].labels[name]
    PROVE  TableFor(name)' = TableFor(name)
<1> DEFINE First == {n \in DOMAIN tables : name \in DOMAIN tables[n].labels
                       /\ \A m \in 1 .. n - 1 : name \notin DOMAIN tables[m].labels}
<1>1. DOMAIN tables = 1 .. Len(tables) /\ Len(tables) \in Nat
  BY LenProperties
<1>2. \A n \in DOMAIN tables : \A m \in 1 .. n - 1 : m \in DOMAIN tables
  BY <1>1
<1>3. First' = First
  BY <1>2
<1>4. TableFor(name) = {[table |-> n, sym |-> NoName, offset |-> tables[n].labels[name]] : n \in First}
  BY DEF TableFor
<1>5. TableFor(name)' = {[table |-> n, sym |-> NoName, offset |-> tables'[n].labels[name]] : n \in First'}
  BY DEF TableFor
<1>6. \A n \in First : tables'[n].labels[name] = tables[n].labels[name]
  OBVIOUS
<1> HIDE DEF First
<1> QED
  BY <1>3, <1>4, <1>5, <1>6

LEMMA SetsFacts ==
    ASSUME Source, Distinct(program), NEW k \in Sets
    PROVE  /\ k \in DOMAIN program /\ k \in Nat /\ program[k].name \in SetNames /\ program[k].op = "set"
           /\ program[k].add \in Int /\ program[k].sym \in Uses(program[k])
           /\ \A j \in DOMAIN program : program[j].op \in {"label", "common", "set"}
                /\ program[j].name = program[k].name => j = k
<1>1. k \in DOMAIN program /\ program[k].op = "set" /\ program[k].name \in SetNames
  BY DEF Sets, SetNames
<1>2. program \in Seq(SourceLine)
  BY ProgramsAssumption DEF Source
<1>3. k \in 1 .. Len(program) /\ Len(program) \in Nat /\ program[k] \in SourceLine
  BY <1>1, <1>2, LenProperties, ElementOfSeq
<1>4. program[k].add \in Int /\ program[k].sym \in Name
  BY <1>3 DEF SourceLine
<1>5. program[k].sym \in Uses(program[k])
  BY <1>1, <1>4, StripAssumption DEF Uses
<1>6. ASSUME NEW j \in DOMAIN program, program[j].op \in {"label", "common", "set"},
             program[j].name = program[k].name
      PROVE  j = k
  <2>1. Gives(program[j]) \cap Gives(program[k]) # {}
    BY <1>1, <1>6 DEF Gives
  <2> QED
    BY <1>1, <2>1 DEF Distinct
<1> QED
  BY <1>1, <1>3, <1>4, <1>5, <1>6

LEMMA ScanKeepsNames ==
    ASSUME NInv, LInv', AInv', LabelsPut,
           \/ aliases' = aliases /\ Current.op # "set"
           \/ Current.op = "set" /\ aliases' = With(aliases, Current.name, AliasOf(Current))
    PROVE  NInv'
<1> SUFFICES ASSUME Distinct(program) PROVE Naming'
  <2>1. program' = program
    BY DEF LabelsPut
  <2>2. Distinct(program)' = Distinct(program)
    BY <2>1 DEF Distinct
  <2> QED
    BY <2>2 DEF NInv
<1>1. /\ phase = "scan" /\ phase' = "scan" /\ program' = program /\ line' = line + 1
      /\ Source /\ line \in DOMAIN program /\ line \in Nat /\ Naming /\ line <= Len(program)
  BY ScanBytesFacts DEF LabelsPut, NInv, LInv, Scanning
<1>2. PICK fresh \in SUBSET {Current.name} :
        /\ fresh # {} => Current.op \in {"label", "common"}
        /\ Keeps(Filling, Filling', fresh)
  BY DEF LabelsPut
<1>3. SetNames' = SetNames /\ Sets' = Sets
  BY <1>1, NamesStay DEF Sets
<1>4. ASSUME NEW a \in SetNames PROVE Unput(Filling', a)
  <2>1. PICK i \in DOMAIN program : program[i].op = "set" /\ program[i].name = a
    BY DEF SetNames
  <2>2. i \in Sets
    BY <2>1 DEF Sets
  <2>3. a \notin fresh
    <3>1. ASSUME a \in fresh PROVE FALSE
      <4>1. program[line].op \in {"label", "common"} /\ program[line].name = program[i].name
        BY <1>2, <2>1, <3>1 DEF Current
      <4>2. line = i
        BY <1>1, <2>2, <4>1, SetsFacts
      <4> QED
        BY <2>1, <4>1, <4>2
    <3> QED
      BY <3>1
  <2>4. Unput(Filling, a)
    BY <1>1 DEF Naming
  <2> QED
    BY <1>2, <2>3, <2>4 DEF Unput, Keeps
<1>5. ASSUME NEW k \in Sets, k < line + 1
      PROVE  program[k].name \in DOMAIN aliases' /\ aliases'[program[k].name] = AliasOf(program[k])
  <2>1. k \in Nat
    BY <1>1, SetsFacts
  <2>2. CASE k = line
    <3>1. aliases' = With(aliases, program[k].name, AliasOf(program[k]))
      BY <2>2 DEF Current, Sets
    <3> QED
      BY <3>1 DEF With
  <2>3. CASE k < line
    <3>1. Kept(k)
      BY <1>1, <2>3 DEF Naming
    <3>2. CASE aliases' = aliases
      BY <3>1, <3>2 DEF Kept
    <3>3. CASE Current.op = "set" /\ aliases' = With(aliases, Current.name, AliasOf(Current))
      <4>1. program[line].op = "set" /\ aliases' = With(aliases, program[line].name, AliasOf(program[line]))
        BY <3>3 DEF Current
      <4>2. program[k].name # program[line].name
        BY <1>1, <2>3, <4>1, SetsFacts
      <4> QED
        BY <3>1, <4>1, <4>2 DEF Kept, With
    <3> QED
      BY <3>2, <3>3
  <2> QED
    BY <1>1, <1>5, <2>1, <2>2, <2>3
<1>6. \A k \in Sets : k < line + 1 => Kept(k)'
  BY <1>1, <1>5 DEF Kept, AliasOf
<1>7. \A a \in SetNames : Unput(Filling, a)'
  BY <1>4 DEF Unput
<1> QED
  BY <1>1, <1>3, <1>6, <1>7 DEF Naming

LEMMA EndScanKeepsNames ==
    ASSUME NInv, LInv', AInv', EndScan
    PROVE  NInv'
<1>1. /\ phase = "scan" /\ line > Len(program) /\ phase' = "aliases" /\ tables' = Flushed
      /\ program' = program /\ aliases' = aliases /\ Source /\ Tables
  BY DEF EndScan, NInv, LInv, BInv, TInv
<1> SUFFICES ASSUME Distinct(program) PROVE Naming'
  <2>1. Distinct(program)' = Distinct(program)
    BY <1>1 DEF Distinct
  <2> QED
    BY <2>1 DEF NInv
<1>2. Naming
  BY DEF NInv
<1>3. Keeps(Filling, tables', {})
  BY <1>1, FlushKeeps
<1>4. ASSUME NEW k \in Sets PROVE Kept(k) /\ Unput(tables', program[k].name)
  <2>1. k \in DOMAIN program /\ program[k].name \in SetNames
    BY <1>1, SetsFacts
  <2>2. k < line
    <3>1. program \in Seq(SourceLine)
      BY <1>1, ProgramsAssumption DEF Source
    <3>2. k \in 1 .. Len(program) /\ Len(program) \in Nat /\ line \in 1 .. Len(program) + 1
      BY <1>1, <2>1, <3>1, LenProperties DEF Source
    <3> QED
      BY <1>1, <3>2
  <2>3. Kept(k) /\ Unput(Filling, program[k].name)
    BY <1>1, <1>2, <2>1, <2>2 DEF Naming
  <2> QED
    BY <1>3, <2>3 DEF Unput, Keeps
<1>5. Sets' = Sets
  BY <1>1 DEF Sets
<1>6. \A k \in Sets : Waiting(k)'
  BY <1>1, <1>4 DEF Waiting, Kept, AliasOf, Unput
<1> QED
  BY <1>1, <1>5, <1>6 DEF Naming

\* Steps that leave labels and aliases alone.
LEMMA LaterKeepsNames ==
    ASSUME NInv, LInv', AInv', phase \notin {"scan", "failed"}, phase' # "scan", program' = program,
           aliases' = aliases, DOMAIN tables' = DOMAIN tables,
           \A k \in DOMAIN tables : tables'[k].labels = tables[k].labels
    PROVE  NInv'
<1> SUFFICES ASSUME Distinct(program) PROVE Naming'
  <2>1. Distinct(program)' = Distinct(program)
    BY DEF Distinct
  <2> QED
    BY <2>1 DEF NInv
<1>1. tables \in Seq(SoundTable) /\ \A k \in Sets : Waiting(k) \/ Settled(k)
  BY DEF NInv, LInv, BInv, TInv, Tables, Naming
<1>2. Sets' = Sets
  BY DEF Sets
<1>3. \A x : TableFor(x)' = TableFor(x)
  BY <1>1, SameTableFor
<1>4. ASSUME NEW k \in Sets, Waiting(k) PROVE Waiting(k)'
  BY <1>4 DEF Waiting, Kept, AliasOf, Unput
<1>5. ASSUME NEW k \in Sets, Settled(k) PROVE Settled(k)'
  <2>1. /\ TableFor(program[k].sym)' = TableFor(program[k].sym)
        /\ TableFor(program[k].name)' = TableFor(program[k].name)
    <3> DEFINE s == program[k].sym
               a == program[k].name
    <3>1. s' = s /\ a' = a
      OBVIOUS
    <3> QED
      BY <1>3
  <2> QED
    BY <1>5, <2>1 DEF Settled
<1>6. \A k \in Sets' : Waiting(k)' \/ Settled(k)'
  BY <1>1, <1>2, <1>4, <1>5
<1> QED
  BY <1>6 DEF Naming

\* An alias is put where it should be, and moves no other name.
LEMMA ResolvedAlias ==
    ASSUME TInv, ResolveAlias
    PROVE  \E a \in DOMAIN aliases : \E l \in Locations(aliases[a].sym) :
             /\ aliases[a].sub = NoName /\ aliases' = Without(aliases, a)
             /\ l.table \in DOMAIN tables /\ l.offset \in Nat /\ aliases[a].add \in Int
             /\ DOMAIN tables' = DOMAIN tables
             /\ DOMAIN tables'[l.table].labels = DOMAIN tables[l.table].labels \cup {a}
             /\ tables'[l.table].labels[a] = l.offset + aliases[a].add
             /\ \A x \in DOMAIN tables[l.table].labels \ {a} :
                  tables'[l.table].labels[x] = tables[l.table].labels[x]
             /\ \A k \in DOMAIN tables : k # l.table => tables'[k].labels = tables[k].labels
<1>1. Tables /\ todo \subseteq DOMAIN aliases /\ aliases \in AliasMaps
  BY DEF TInv, Resolution
<1>2. PICK a \in todo :
        /\ aliases[a].sub = NoName
        /\ \E l \in Locations(aliases[a].sym) :
             tables' = [tables EXCEPT ![l.table].labels = With(@, a, l.offset + aliases[a].add)]
        /\ aliases' = Without(aliases, a)
  BY DEF ResolveAlias
<1>3. PICK l \in Locations(aliases[a].sym) :
        tables' = [tables EXCEPT ![l.table].labels = With(@, a, l.offset + aliases[a].add)]
  BY <1>2
<1> DEFINE m == With(tables[l.table].labels, a, l.offset + aliases[a].add)
<1>4. tables' = [tables EXCEPT ![l.table] = [tables[l.table] EXCEPT !.labels = m]]
  BY <1>3
<1>5. /\ DOMAIN m = DOMAIN tables[l.table].labels \cup {a} /\ m[a] = l.offset + aliases[a].add
      /\ \A x \in DOMAIN tables[l.table].labels \ {a} : m[x] = tables[l.table].labels[x]
  BY DEF With
<1> HIDE DEF m
<1>6. l.table \in DOMAIN tables /\ l.offset \in Nat /\ aliases[a].add \in Int
  BY <1>1, LocationsFacts, AliasMapFacts
<1>7. \A k \in DOMAIN tables : tables[k] \in Table
  BY <1>1, TableIsSound, TableFields
<1>8. tables \in Seq(SoundTable)
  BY <1>1 DEF Tables
<1>9. DOMAIN tables' = DOMAIN tables
  BY <1>4, <1>8
<1>10. /\ \A k \in DOMAIN tables : k # l.table => tables'[k].labels = tables[k].labels
       /\ tables'[l.table].labels = m
  BY <1>4, <1>6, <1>7, <1>8 DEF Table
<1> QED
  BY <1>1, <1>2, <1>5, <1>6, <1>9, <1>10

LEMMA ResolveAliasKeepsNames ==
    ASSUME NInv, LInv', AInv', ResolveAlias
    PROVE  NInv'
<1>1. /\ phase' = phase /\ phase = "aliases" /\ program' = program /\ TInv /\ Source
      /\ tables \in Seq(SoundTable) /\ cur = <<>>
  BY DEF ResolveAlias, Resolving, NInv, LInv, BInv, TInv, Tables
<1> SUFFICES ASSUME Distinct(program) PROVE Naming'
  <2>1. Distinct(program)' = Distinct(program)
    BY <1>1 DEF Distinct
  <2> QED
    BY <2>1 DEF NInv
<1>2. /\ \A k \in Sets : Waiting(k) \/ Settled(k)
      /\ Named(tables, DOMAIN program) /\ DOMAIN aliases \subseteq SetNames
  <2>1. Filling = tables /\ Seen = DOMAIN program
    BY <1>1, ConcatEmptySeq DEF Filling, Seen
  <2> QED
    BY <1>1, <2>1 DEF NInv, LInv, Naming
<1>3. PICK a \in DOMAIN aliases : \E l \in Locations(aliases[a].sym) :
             /\ aliases[a].sub = NoName /\ aliases' = Without(aliases, a)
             /\ l.table \in DOMAIN tables /\ l.offset \in Nat /\ aliases[a].add \in Int
             /\ DOMAIN tables' = DOMAIN tables
             /\ DOMAIN tables'[l.table].labels = DOMAIN tables[l.table].labels \cup {a}
             /\ tables'[l.table].labels[a] = l.offset + aliases[a].add
             /\ \A x \in DOMAIN tables[l.table].labels \ {a} :
                  tables'[l.table].labels[x] = tables[l.table].labels[x]
             /\ \A k \in DOMAIN tables : k # l.table => tables'[k].labels = tables[k].labels
  BY <1>1, ResolvedAlias
<1>4. PICK l \in Locations(aliases[a].sym) :
             /\ aliases[a].sub = NoName /\ aliases' = Without(aliases, a)
             /\ l.table \in DOMAIN tables /\ l.offset \in Nat /\ aliases[a].add \in Int
             /\ DOMAIN tables' = DOMAIN tables
             /\ DOMAIN tables'[l.table].labels = DOMAIN tables[l.table].labels \cup {a}
             /\ tables'[l.table].labels[a] = l.offset + aliases[a].add
             /\ \A x \in DOMAIN tables[l.table].labels \ {a} :
                  tables'[l.table].labels[x] = tables[l.table].labels[x]
             /\ \A k \in DOMAIN tables : k # l.table => tables'[k].labels = tables[k].labels
  BY <1>3
<1>5. PICK h \in Sets : program[h].name = a
  BY <1>2 DEF SetNames, Sets
<1>6. Waiting(h)
  BY <1>2, <1>5 DEF Settled
<1>7. /\ aliases[a] = AliasOf(program[h]) /\ Unput(tables, a)
  BY <1>5, <1>6 DEF Waiting, Kept
<1>8. \A x : x # a => TableFor(x)' = TableFor(x)
  <2> SUFFICES ASSUME NEW x, x # a PROVE TableFor(x)' = TableFor(x)
    OBVIOUS
  <2>1. ASSUME NEW k \in DOMAIN tables
        PROVE  /\ x \in DOMAIN tables'[k].labels <=> x \in DOMAIN tables[k].labels
               /\ x \in DOMAIN tables[k].labels => tables'[k].labels[x] = tables[k].labels[x]
    <3>1. CASE k = l.table
      BY <1>4, <3>1
    <3>2. CASE k # l.table
      BY <1>4, <3>2
    <3> QED
      BY <3>1, <3>2
  <2> QED
    BY <1>1, <1>4, <2>1, SameTableFor
<1>9. TableFor(a) = {}
  BY <1>7, UnputNotFound
<1> DEFINE s == program[h].sym
<1>10. /\ aliases[a].sym = Strip[s] /\ aliases[a].add = program[h].add /\ aliases[a].sub = program[h].sub
  BY <1>7 DEF AliasOf
<1>11. TableFor(s) = {Place(l.table, l.offset)} /\ s # a
  <2>1. h \in DOMAIN program /\ s \in Uses(program[h])
    BY <1>1, SetsFacts
  <2>2. l \in Locations(Strip[s])
    BY <1>10
  <2> HIDE DEF s
  <2>3. TableFor(s) = {Place(l.table, l.offset)}
    BY <1>1, <1>2, <2>1, <2>2, PlainLocations
  <2> QED
    BY <1>9, <2>3
<1>12. TableFor(a)' = {Place(l.table, l.offset + program[h].add)}
  <2> DEFINE First == {n \in DOMAIN tables' : a \in DOMAIN tables'[n].labels
                         /\ \A m \in 1 .. n - 1 : a \notin DOMAIN tables'[m].labels}
  <2>1. \A n \in DOMAIN tables : a \in DOMAIN tables'[n].labels => n = l.table
    BY <1>4, <1>7 DEF Unput
  <2>2. \A m \in 1 .. l.table - 1 : m \in DOMAIN tables /\ m # l.table
    <3>1. DOMAIN tables = 1 .. Len(tables) /\ Len(tables) \in Nat
      BY <1>1, LenProperties
    <3> QED
      BY <1>4, <3>1
  <2>3. First = {l.table}
    BY <1>4, <2>1, <2>2
  <2>4. TableFor(a)' = {[table |-> n, sym |-> NoName, offset |-> tables'[n].labels[a]] : n \in First}
    BY DEF TableFor
  <2>5. tables'[l.table].labels[a] = l.offset + program[h].add
    BY <1>4, <1>10
  <2> HIDE DEF First, s
  <2>6. TableFor(a)' = {[table |-> l.table, sym |-> NoName, offset |-> tables'[l.table].labels[a]]}
    BY ONLY <2>3, <2>4
  <2> QED
    BY ONLY <2>5, <2>6 DEF Place
<1>13. Sets' = Sets
  BY <1>1 DEF Sets
<1>14. ASSUME NEW k \in Sets, k # h PROVE program[k].name # a
  <2>1. h \in DOMAIN program /\ program[h].op = "set"
    BY DEF Sets
  <2> QED
    BY <1>1, <1>5, <1>14, <2>1, SetsFacts
<1>15. Settled(h)'
  <2>1. program[h].sub = NoName /\ a \notin DOMAIN aliases'
    BY <1>4, <1>10 DEF Without
  <2>2. s' = s /\ program[h].name = a
    BY <1>1, <1>5
  <2> HIDE DEF s
  <2>3. TableFor(s)' = {Place(l.table, l.offset)}
    BY <1>8, <1>11, <2>2
  <2>4. TableFor(program[h].name)' = {Place(l.table, l.offset + program[h].add)}
    BY <1>1, <1>12, <2>2
  <2>5. l.table \in Int
    <3>1. DOMAIN tables = 1 .. Len(tables)
      BY <1>1, LenProperties
    <3> QED
      BY <1>4, <3>1
  <2> QED
    BY <1>1, <1>4, <1>5, <2>1, <2>3, <2>4, <2>5 DEF Settled, s
<1>16. ASSUME NEW k \in Sets, k # h, Waiting(k) PROVE Waiting(k)'
  <2> DEFINE b == program[k].name
  <2>1. b # a /\ b \in DOMAIN aliases /\ aliases[b] = AliasOf(program[k]) /\ Unput(tables, b)
    BY <1>14, <1>16 DEF Waiting, Kept
  <2> HIDE DEF b
  <2>2. b \in DOMAIN aliases' /\ aliases'[b] = AliasOf(program[k])
    BY <1>4, <2>1 DEF Without
  <2>3. Unput(tables', b)
    <3> SUFFICES ASSUME NEW k_1 \in DOMAIN tables PROVE b \notin DOMAIN tables'[k_1].labels
      BY <1>4 DEF Unput
    <3>1. CASE k_1 = l.table
      BY <1>4, <2>1, <3>1 DEF Unput
    <3>2. CASE k_1 # l.table
      BY <1>4, <2>1, <3>2 DEF Unput
    <3> QED
      BY <3>1, <3>2
  <2> QED
    BY <1>1, <2>2, <2>3 DEF Waiting, Kept, AliasOf, Unput, b
<1>17. ASSUME NEW k \in Sets, k # h, Settled(k) PROVE Settled(k)'
  <2> DEFINE b == program[k].name
             x == program[k].sym
             add == program[k].add
  <2>1. PICK m \in Int, o \in Int : TableFor(x) = {Place(m, o)} /\ TableFor(b) = {Place(m, o + add)}
    BY <1>17 DEF Settled
  <2>2. b # a /\ b \notin DOMAIN aliases' /\ program[k].sub = NoName
    BY <1>4, <1>14, <1>17 DEF Settled, Without
  <2> HIDE DEF b, x, add
  <2>3. x' = x /\ b' = b /\ add' = add
    BY <1>1 DEF x, b, add
  <2>4. x # a
    BY <1>9, <2>1
  <2>5. TableFor(x)' = {Place(m, o)} /\ TableFor(b)' = {Place(m, o + add)}
    BY <1>8, <2>1, <2>2, <2>3, <2>4
  <2> QED
    BY <1>1, <2>2, <2>3, <2>5 DEF Settled, x, b, add
<1>18. \A k \in Sets' : Waiting(k)' \/ Settled(k)'
  BY <1>2, <1>13, <1>15, <1>16, <1>17
<1> QED
  BY <1>1, <1>18 DEF Naming

LEMMA FailKeepsNames ==
    ASSUME NInv, LInv', AInv', Fail
    PROVE  NInv'
  BY DEF Fail, NInv, Naming

\* Every step of the scan puts at most the label of its line.
LEMMA ScanPuts ==
    ASSUME LInv, BInv', TInv',
           DataSection \/ TextSection \/ Common \/ SetAlias \/ PutBytes \/ PutReloc \/ Label \/ Skip
    PROVE  /\ LabelsPut
           /\ ~ SetAlias => aliases' = aliases /\ Current.op # "set"
<1>1. BInv
  BY DEF LInv
<1>2. CASE DataSection
  BY <1>1, <1>2, DataSectionKeepsBytes, DataSectionKeepsLabels DEF DataSection
<1>3. CASE TextSection
  BY <1>1, <1>3, TextSectionKeepsBytes, TextSectionKeepsLabels DEF TextSection
<1>4. CASE Common
  BY <1>1, <1>4, CommonKeepsBytes, CommonKeepsLabels DEF Common
<1>5. CASE SetAlias
  BY <1>1, <1>5, SetAliasKeepsBytes, SetAliasKeepsLabels
<1>6. CASE PutBytes
  BY <1>1, <1>6, PutBytesKeepsBytes, PutBytesKeepsLabels DEF PutBytes, ReadInto
<1>7. CASE PutReloc
  BY <1>1, <1>7, PutRelocKeepsBytes, PutRelocKeepsLabels DEF PutReloc, ReadInto
<1>8. CASE Label
  BY <1>1, <1>8, LabelKeepsBytes, LabelKeepsLabels DEF Label, ReadInto
<1>9. CASE Skip
  BY <1>1, <1>9, SkipKeepsBytes, SkipKeepsLabels DEF Skip
<1> QED
  BY <1>2, <1>3, <1>4, <1>5, <1>6, <1>7, <1>8, <1>9

LEMMA StepKeepsNames == NInv /\ [Next]_vars => NInv'
<1> SUFFICES ASSUME NInv, [Next]_vars PROVE NInv'
  OBVIOUS
<1>1. LInv /\ LInv' /\ AInv /\ AInv' /\ BInv' /\ TInv' /\ TInv
  BY StepKeepsLabels, StepKeepsRounds DEF NInv, LInv, AInv
<1>2. CASE SetAlias
  <2>1. LabelsPut
    BY <1>1, <1>2, ScanPuts
  <2>2. Current.op = "set" /\ aliases' = With(aliases, Current.name, AliasOf(Current))
    BY <1>2 DEF SetAlias, AliasOf
  <2> QED
    BY <1>1, <2>1, <2>2, ScanKeepsNames
<1>3. CASE ~ SetAlias /\ (DataSection \/ TextSection \/ Common \/ PutBytes \/ PutReloc \/ Label \/ Skip)
  BY <1>1, <1>3, ScanPuts, ScanKeepsNames
<1>4. CASE RejectSection \/ RejectData \/ RejectAlias \/ RejectReloc \/ RejectReference
  <2>1. Fail
    BY <1>4 DEF RejectSection, RejectData, RejectAlias, RejectReloc, RejectReference
  <2> QED
    BY <1>1, <2>1, FailKeepsNames
<1>5. CASE EndScan
  BY <1>1, <1>5, EndScanKeepsNames
<1>6. CASE ResolveAlias
  BY <1>1, <1>6, ResolveAliasKeepsNames
<1>7. CASE WriteDifference
  <2>1. phase = "relocs" /\ phase' = phase /\ program' = program /\ aliases' = aliases
    BY <1>1, <1>7, DifferenceKeepsLabels
  <2> QED
    BY <1>1, <1>7, <2>1, DifferenceKeepsLabels, LaterKeepsNames
<1>8. CASE SkipAlias \/ NextRound \/ EndAliases \/ KeepReloc \/ EndRelocs
  <2>1. /\ phase \in {"aliases", "relocs"} /\ phase' \in {"aliases", "relocs", "code"}
        /\ program' = program /\ tables' = tables /\ aliases' = aliases
    BY <1>8 DEF SkipAlias, NextRound, EndAliases, KeepReloc, EndRelocs, Resolving, Bound, resolution
  <2> QED
    BY <1>1, <2>1, LaterKeepsNames
<1>9. CASE RewriteReference \/ SkipLine \/ EndCode \/ EmitTables \/ EndEmit
  <2>1. /\ phase \in {"code", "emit"} /\ phase' \in {"code", "emit", "done"}
        /\ program' = program /\ tables' = tables /\ aliases' = aliases
    BY <1>9 DEF RewriteReference, SkipLine, EndCode, EmitTables, EndEmit, AtReference,
         EmitNext, EmitReloc, EmitBytes, EmitGlobl, Emit, resolution
  <2> QED
    BY <1>1, <2>1, LaterKeepsNames
<1>10. CASE UNCHANGED vars
  <2>1. /\ phase' = phase /\ program' = program /\ line' = line /\ cur' = cur /\ tables' = tables
        /\ aliases' = aliases
    BY <1>10 DEF vars
  <2>2. CASE phase = "scan"
    <3>1. Filling' = Filling /\ Sets' = Sets /\ SetNames' = SetNames
      BY <2>1, NamesStay DEF Filling, Sets
    <3>2. \A k : Kept(k)' = Kept(k)
      BY <2>1 DEF Kept, AliasOf
    <3>3. \A a : Unput(Filling, a)' = Unput(Filling, a)
      BY <3>1 DEF Unput
    <3>4. Naming => Naming'
      BY <2>1, <2>2, <3>1, <3>2, <3>3 DEF Naming
    <3>5. Distinct(program)' = Distinct(program)
      BY <2>1 DEF Distinct
    <3> QED
      BY <1>1, <3>4, <3>5 DEF NInv
  <2>3. CASE phase = "failed"
    BY <1>1, <2>1, <2>3 DEF NInv, Naming
  <2>4. CASE phase \notin {"scan", "failed"}
    BY <1>1, <2>1, <2>4, LaterKeepsNames
  <2> QED
    BY <2>2, <2>3, <2>4
<1> QED
  BY <1>2, <1>3, <1>4, <1>5, <1>6, <1>7, <1>8, <1>9, <1>10 DEF Next

LEMMA NamesInvariance == Spec => []NInv
<1>1. Init /\ LInv /\ AInv => NInv
  <2> SUFFICES ASSUME Init, LInv, AInv PROVE Naming
    BY DEF NInv
  <2>1. phase = "scan" /\ line = 1 /\ cur = <<>> /\ tables = <<>> /\ Tables /\ Source
    BY DEF Init, LInv, BInv, TInv
  <2>2. Filling = <<>>
    BY <2>1, FillingFacts
  <2>3. \A k \in Sets : ~ (k < line)
    <3>1. program \in Seq(SourceLine)
      BY <2>1, ProgramsAssumption DEF Source
    <3>2. DOMAIN program = 1 .. Len(program) /\ Len(program) \in Nat
      BY <3>1, LenProperties
    <3> QED
      BY <2>1, <3>2 DEF Sets
  <2> QED
    BY <2>1, <2>2, <2>3 DEF Naming, Unput
<1> QED
  BY <1>1, LabelsInvariance, RoundsSuffice, StepKeepsNames, PTL DEF Spec

\* In a source whose names are distinct an alias stands at its distance from
\* what it stands for, however many aliases chain, fork or form cycles, and in
\* whatever order the map of aliases is gone through.
THEOREM AliasesAreRight == Spec => [](Distinct(program) => AliasesResolved)
<1>1. NInv /\ Distinct(program) => AliasesResolved
  <2> SUFFICES ASSUME NInv, Distinct(program), Collected, phase # "aliases",
                      NEW k \in DOMAIN program, program[k].op = "set", program[k].sub = NoName
               PROVE  TableFor(program[k].name) = {Beyond(p, program[k].add) : p \in TableFor(program[k].sym)}
    BY DEF AliasesResolved
  <2> DEFINE b == program[k].name
             s == program[k].sym
             add == program[k].add
  <2>1. phase \notin {"scan", "aliases", "failed"} /\ Source /\ tables \in Seq(SoundTable) /\ cur = <<>>
    BY DEF Collected, NInv, LInv, BInv, TInv, Tables
  <2>2. Named(tables, DOMAIN program)
    <3>1. Filling = tables /\ Seen = DOMAIN program
      BY <2>1, ConcatEmptySeq DEF Filling, Seen
    <3> QED
      BY <2>1, <3>1 DEF NInv, LInv
  <2>3. k \in Sets /\ s \in Uses(program[k])
    <3>1. k \in Sets
      BY DEF Sets
    <3> QED
      BY <2>1, <3>1, SetsFacts
  <2>4. CASE Waiting(k)
    <3>1. b \in DOMAIN aliases /\ aliases[b].sub = NoName /\ aliases[b].sym = Strip[s] /\ Unput(tables, b)
      BY <2>4 DEF Waiting, Kept, AliasOf
    <3>2. Stuck(b)
      BY <2>1, <3>1 DEF NInv, AInv
    <3> HIDE DEF b, s
    <3>3. Locations(Strip[s]) = {}
      BY <3>1, <3>2 DEF Stuck
    <3>4. TableFor(s) = {}
      BY <2>1, <2>2, <2>3, <3>3, PlainLocations
    <3>5. TableFor(b) = {}
      BY <3>1, UnputNotFound
    <3> QED
      BY <3>4, <3>5 DEF b, s
  <2>5. CASE Settled(k)
    <3>1. PICK m \in Int, o \in Int : TableFor(s) = {Place(m, o)} /\ TableFor(b) = {Place(m, o + add)}
      BY <2>5 DEF Settled
    <3> HIDE DEF b, s, add
    <3>2. Beyond(Place(m, o), add) = Place(m, o + add)
      BY DEF Beyond, Place
    <3>3. TableFor(b) = {Beyond(p, add) : p \in TableFor(s)}
      BY <3>1, <3>2
    <3> QED
      BY <3>3 DEF b, s, add
  <2>6. Waiting(k) \/ Settled(k)
    BY <2>1, <2>3 DEF NInv, Naming
  <2> QED
    BY <2>4, <2>5, <2>6
<1> QED
  BY <1>1, NamesInvariance, PTL

-----------------------------------------------------------------------------
(***************************************************************************)
(* The references of the source.  Each is at the first byte of its line;   *)
(* one that is a difference is there until its bytes are written, and then *)
(* no reference that is left touches them.                                 *)
(***************************************************************************)
SymbolLines == {k \in DOMAIN program : program[k].op = "symbol"}

\* The reference of line k, at offset o.
RefOf(k, o) ==
    [offset |-> o, width |-> program[k].width, name |-> program[k].sym,
     sym |-> Strip[program[k].sym], add |-> program[k].add,
     sub |-> IF program[k].sub = NoName THEN NoName ELSE Strip[program[k].sub]]

\* b has the references that a has, and those in new.
Refers(a, b, new) ==
    /\ \A m \in DOMAIN a : a[m].from # <<>> => m \in DOMAIN b /\ a[m].relocs \subseteq b[m].relocs
    /\ \A m \in DOMAIN b : \A r \in b[m].relocs : r \in new \/ (m \in DOMAIN a /\ r \in a[m].relocs)

\* The bytes of line k begin at offset o of table n.
BeginsAt(all, k, n, o) ==
    /\ o + 1 \in DOMAIN all[n].from /\ all[n].from[o + 1] = k
    /\ o \in DOMAIN all[n].from => all[n].from[o] # k

\* Every reference is that of a line.
Sourced(all) ==
    \A m \in DOMAIN all : \A r \in all[m].relocs : \E k \in SymbolLines : r = RefOf(k, r.offset)

\* Every line that is a reference has its own, at its bytes.
Held(all) ==
    \A k \in SymbolLines : \A n \in DOMAIN all : \A o \in Nat :
        BeginsAt(all, k, n, o) => RefOf(k, o) \in all[n].relocs

\* The difference of line k, at offset o of table n, is a number now.
DifferenceAt(k, n, o) ==
    /\ program[k].sub # NoName
    /\ \A s \in tables[n].relocs : s.offset + s.width <= o \/ o + program[k].width <= s.offset
    /\ Dot \notin {program[k].sym, program[k].sub} =>
         \A q \in TableFor(program[k].sym), r \in TableFor(program[k].sub) :
             tables[n].data[o + 1] = NumberByte(q.offset - r.offset, 0)

HeldOrWritten ==
    \A k \in SymbolLines : \A n \in DOMAIN tables : \A o \in Nat :
        BeginsAt(tables, k, n, o) => RefOf(k, o) \in tables[n].relocs \/ DifferenceAt(k, n, o)

\* A difference that is left has still to be written.
DifferencesLeft ==
    \A k \in DOMAIN tables : \A r \in tables[k].relocs : r.sub # NoName =>
        phase = "relocs" /\ [table |-> k, reloc |-> r] \in unbound

\* The DATA lines, and the code, refer to what the source names.
LinesRight ==
    \A i \in DOMAIN lines : lines[i].reloc # NoReloc =>
        /\ \E k \in SymbolLines : lines[i].reloc = RefOf(k, lines[i].reloc.offset)
        /\ lines[i].target \in Targets(lines[i].reloc)

AddressRight(a) ==
    LET home == TableFor(program[a.line].sym)
    IN  IF home = {} THEN a.address.table = 0
        ELSE home = {Beyond(a.address, - program[a.line].add)}

Referring ==
    /\ phase # "failed" => Sourced(Filling)
    /\ phase \in {"scan", "aliases"} => Held(Filling)
    /\ phase \in {"relocs", "code", "emit", "done"} => HeldOrWritten /\ DifferencesLeft
    /\ phase \in {"scan", "aliases", "relocs"} => addresses = {}
    /\ LinesRight
    /\ \A a \in addresses : AddressRight(a)

RInv == NInv /\ (Distinct(program) => Referring)

LEMMA RefersSame ==
    ASSUME NEW a, NEW b, NEW new, DOMAIN a = DOMAIN b,
           \A m \in DOMAIN a : b[m].relocs = a[m].relocs
    PROVE  Refers(a, b, new)
  BY DEF Refers

LEMMA RefersByTable ==
    ASSUME NEW s \in Seq(SoundTable), NEW x \in SoundTable, NEW new, x.relocs \subseteq new
    PROVE  Refers(s, s \o <<x>>, new)
<1> DEFINE b == s \o <<x>>
<1>1. /\ Len(s) \in Nat /\ DOMAIN s = 1 .. Len(s) /\ DOMAIN b = 1 .. Len(s) + 1
      /\ b[Len(s) + 1] = x /\ \A m \in 1 .. Len(s) : b[m] = s[m]
  BY LastTable
<1> HIDE DEF b
<1>2. /\ \A i \in DOMAIN s : i \in DOMAIN b /\ b[i] = s[i]
      /\ \A i \in DOMAIN b : (i \in DOMAIN s /\ b[i] = s[i]) \/ b[i] = x
  BY <1>1
<1>3. Refers(s, b, new)
  BY <1>2 DEF Refers
<1> QED
  BY <1>3 DEF b

LEMMA RefersAtEnd ==
    ASSUME NEW s \in Seq(SoundTable), NEW c \in SoundTable, NEW x \in SoundTable, NEW new,
           x.relocs = c.relocs \cup new
    PROVE  Refers(s \o <<c>>, s \o <<x>>, new)
<1> DEFINE a == s \o <<c>>
           b == s \o <<x>>
<1>1. /\ Len(s) \in Nat /\ DOMAIN s = 1 .. Len(s) /\ DOMAIN b = 1 .. Len(s) + 1
      /\ b[Len(s) + 1] = x /\ \A m \in 1 .. Len(s) : b[m] = s[m]
  BY LastTable
<1>2. /\ DOMAIN a = 1 .. Len(s) + 1
      /\ a[Len(s) + 1] = c /\ \A m \in 1 .. Len(s) : a[m] = s[m]
  BY LastTable
<1> HIDE DEF a, b
<1>3. /\ DOMAIN a = DOMAIN b
      /\ \A i \in DOMAIN a : b[i] = a[i] \/ (a[i] = c /\ b[i] = x)
  BY <1>1, <1>2
<1>4. Refers(a, b, new)
  BY <1>3 DEF Refers
<1> QED
  BY <1>4 DEF a, b

LEMMA RefersTransitively ==
    ASSUME NEW a \in Seq(SoundTable), NEW b \in Seq(SoundTable), NEW c \in Seq(SoundTable),
           NEW U, Grows(a, b, U), Refers(a, b, {}), Refers(b, c, {})
    PROVE  Refers(a, c, {})
<1>1. ASSUME NEW m \in DOMAIN a, a[m].from # <<>> PROVE m \in DOMAIN b /\ b[m].from # <<>>
  <2>1. /\ m \in DOMAIN b
        /\ \A q \in DOMAIN a[m].from : q \in DOMAIN b[m].from
    BY <1>1 DEF Grows
  <2>2. a[m].from \in Seq(Nat) /\ b[m].from \in Seq(Nat)
    BY <2>1, LenProperties, ElementOfSeq, TableFields
  <2>3. Len(a[m].from) \in Nat \ {0}
    BY <1>1, <2>2, EmptySeq
  <2>4. 1 \in DOMAIN a[m].from
    BY <2>2, <2>3, LenProperties
  <2> QED
    BY <2>1, <2>2, <2>4, NotEmpty
<1> QED
  BY <1>1 DEF Refers

LEMMA FlushRefers ==
    ASSUME Tables
    PROVE  Refers(Filling, Flushed, {})
<1>1. CASE (cur # <<>> /\ cur[1].data # <<>>) \/ cur = <<>>
  <2>1. Flushed = Filling
    BY <1>1, FillingFacts DEF Flushed, Filling
  <2> QED
    BY <2>1, RefersSame
<1>2. CASE cur # <<>> /\ cur[1].data = <<>>
  <2>1. Flushed = tables /\ Filling = tables \o <<cur[1]>> /\ tables \in Seq(SoundTable)
    BY <1>2, FillingFacts DEF Flushed, Tables
  <2>2. cur[1] \in SoundTable
    BY <1>2, CurFacts
  <2>3. cur[1].from = <<>>
    <3>1. Len(cur[1].from) = 0 /\ cur[1].from \in Seq(Nat)
      BY <1>2, <2>2, TableFields, EmptySeq
    <3> QED
      BY <3>1, EmptySeq
  <2>4. /\ Len(tables) \in Nat /\ DOMAIN tables = 1 .. Len(tables)
        /\ DOMAIN Filling = 1 .. Len(tables) + 1
        /\ Filling[Len(tables) + 1] = cur[1] /\ \A m \in 1 .. Len(tables) : Filling[m] = tables[m]
    BY <2>1, <2>2, LastTable
  <2>5. /\ \A m \in DOMAIN tables : m \in DOMAIN Filling /\ Filling[m] = tables[m]
        /\ \A m \in DOMAIN Filling : (m \in DOMAIN tables /\ Filling[m] = tables[m]) \/ Filling[m] = cur[1]
    BY <2>4
  <2> QED
    BY <2>1, <2>3, <2>5 DEF Refers
<1> QED
  BY <1>1, <1>2

\* A line read without a reference leaves the references.
LEMMA ReadIntoRefers ==
    ASSUME Tables, NEW table \in SoundTable, NEW new, cur # <<>>, ReadInto(table),
           table.relocs = cur[1].relocs \cup new
    PROVE  Refers(Filling, Filling', new)
<1>1. tables' = tables /\ cur' = <<table>> /\ tables \in Seq(SoundTable) /\ cur[1] \in SoundTable
  BY CurFacts DEF ReadInto, Read, Tables
<1>2. Filling = tables \o <<cur[1]>> /\ Filling' = tables \o <<table>>
  BY <1>1, FillingFacts DEF Filling
<1> QED
  BY <1>1, <1>2, RefersAtEnd

LEMMA OpensRefers ==
    ASSUME Tables, NEW x \in SoundTable, x.relocs = {}, tables' = Flushed, cur' = <<x>>
    PROVE  Refers(Filling, Filling', {})
<1>1. Flushed \in Seq(SoundTable) /\ Filling \in Seq(SoundTable)
  BY FlushedFacts, FillingFacts
<1>2. Filling' = Flushed \o <<x>>
  BY DEF Filling
<1>3. Refers(Flushed, Flushed \o <<x>>, {}) /\ Flushed \o <<x>> \in Seq(SoundTable)
  BY <1>1, RefersByTable, LastTable
<1> QED
  BY <1>1, <1>2, <1>3, FlushGrows, FlushRefers, RefersTransitively

LEMMA CommonRefers ==
    ASSUME TInv, Common
    PROVE  Refers(Filling, Filling', {})
<1> DEFINE reuse == Reuses(TRUE)
           table == IF reuse THEN cur[1] ELSE NewTable(TRUE)
           p == Padding(table.data, Current.width)
           aligned == ExtendedFrom(0, table, p)
           named == Labelled(aligned, Current.name)
           z == Zeros(Current.size)
           full == Extended(named, z)
           nt == IF reuse THEN tables ELSE Flushed
<1>1. Scanning /\ Read(nt, <<full>>, TRUE) /\ Current.op = "common"
  BY DEF Common
<1>2. Tables /\ line \in Nat
  BY <1>1, ScanFacts DEF TInv
<1>3. Current.name \in Spelling /\ Current.width \in Nat /\ Current.size \in Nat
  BY <1>1, ScanFacts, LineFields
<1>4. reuse => cur # <<>> /\ cur[1] \in SoundTable
  BY <1>2, CurFacts DEF Reuses
<1>5. NewTable(TRUE) \in SoundTable /\ NewTable(TRUE).relocs = {}
  BY NewTableFacts DEF NewTable
<1>6. /\ reuse => table = cur[1] /\ nt = tables
      /\ ~ reuse => table = NewTable(TRUE) /\ nt = Flushed
  OBVIOUS
<1> HIDE DEF reuse
<1>7. table \in SoundTable
  BY <1>4, <1>5
<1> HIDE DEF table, nt
<1>8. p \in Seq(Byte)
  BY <1>3, <1>7, TableFields, PaddingFacts
<1> HIDE DEF p
<1>9. aligned \in SoundTable /\ aligned.relocs = table.relocs
  BY <1>7, <1>8, ExtendedFacts
<1> HIDE DEF aligned
<1>10. named \in SoundTable /\ named.relocs = table.relocs
  BY <1>3, <1>9, LabelledFacts
<1> HIDE DEF named
<1>11. z \in Seq(Byte)
  BY <1>3, ZerosFacts
<1> HIDE DEF z
<1>12. full \in SoundTable /\ full.relocs = table.relocs
  <2>1. full = ExtendedFrom(line, named, z)
    BY DEF Extended
  <2> HIDE DEF full
  <2> QED
    BY <1>2, <1>10, <1>11, <2>1, ExtendedFacts
<1> HIDE DEF full
<1>13. tables' = nt /\ cur' = <<full>>
  BY <1>1 DEF Read
<1>14. CASE reuse
  <2>1. Filling = tables \o <<cur[1]>> /\ Filling' = tables \o <<full>> /\ tables \in Seq(SoundTable)
    BY <1>2, <1>4, <1>6, <1>13, <1>14, FillingFacts DEF Filling, Tables
  <2>2. full.relocs = cur[1].relocs \cup {}
    BY <1>6, <1>12, <1>14
  <2> QED
    BY <1>4, <1>12, <1>14, <2>1, <2>2, RefersAtEnd
<1>15. CASE ~ reuse
  BY <1>2, <1>5, <1>6, <1>12, <1>13, <1>15, OpensRefers
<1> QED
  BY <1>14, <1>15

LEMMA ScanRefers ==
    ASSUME TInv, DataSection \/ TextSection \/ Common \/ SetAlias \/ PutBytes \/ Label \/ Skip
    PROVE  Refers(Filling, Filling', {})
<1>1. Tables
  BY DEF TInv
<1>2. CASE DataSection
  <2> DEFINE w == isWritableDataSection(Current)
  <2>1. /\ Scanning
        /\ IF Reuses(w) THEN Read(tables, cur, TRUE) ELSE Read(Flushed, <<NewTable(w)>>, TRUE)
    BY <1>2 DEF DataSection
  <2>2. w \in BOOLEAN
    BY <2>1, ScanFacts, WritableIsBoolean
  <2> HIDE DEF w
  <2>3. CASE Reuses(w)
    <3>1. Filling' = Filling
      BY <2>1, <2>3 DEF Read, Filling
    <3> QED
      BY <3>1, RefersSame
  <2>4. CASE ~ Reuses(w)
    <3>1. tables' = Flushed /\ cur' = <<NewTable(w)>>
      BY <2>1, <2>4 DEF Read
    <3>2. NewTable(w) \in SoundTable /\ NewTable(w).relocs = {}
      BY <2>2, NewTableFacts DEF NewTable
    <3> QED
      BY <1>1, <3>1, <3>2, OpensRefers
  <2> QED
    BY <2>3, <2>4
<1>3. CASE TextSection
  <2>1. tables' = Flushed /\ cur' = <<>>
    BY <1>3 DEF TextSection, Read
  <2>2. Filling' = Flushed
    BY <1>1, <2>1, FlushedFacts, ConcatEmptySeq DEF Filling
  <2> QED
    BY <1>1, <2>2, FlushRefers
<1>4. CASE Common
  BY <1>4, CommonRefers
<1>5. CASE SetAlias \/ Skip
  <2>1. Filling' = Filling
    BY <1>5 DEF SetAlias, Skip, Read, Filling
  <2> QED
    BY <2>1, RefersSame
<1>6. CASE PutBytes
  <2> DEFINE d == DataOf(Current)
             table == Extended(cur[1], d)
  <2>1. /\ Scanning /\ Collecting /\ Current.op \in {"bytes", "number", "zero", "align"}
        /\ ReadInto(table)
    BY <1>6 DEF PutBytes
  <2>2. /\ cur # <<>> /\ cur[1] \in SoundTable /\ line \in Nat /\ Current \in SourceLine
        /\ Current.bytes \in Seq(Byte) /\ Current.width \in Nat /\ Current.size \in Nat /\ Current.val \in Int
    BY <1>1, <2>1, CurFacts, ScanFacts, LineFields DEF Collecting
  <2>3. d \in Seq(Byte)
    BY <2>1, <2>2, DataOfFacts
  <2> HIDE DEF d
  <2>4. table \in SoundTable /\ table.relocs = cur[1].relocs \cup {}
    BY <2>2, <2>3, ExtendedFacts DEF Extended
  <2> HIDE DEF table
  <2> QED
    BY <1>1, <2>1, <2>2, <2>4, ReadIntoRefers
<1>7. CASE Label
  <2> DEFINE table == Labelled(cur[1], Current.name)
  <2>1. Scanning /\ Collecting /\ Current.op = "label" /\ ReadInto(table)
    BY <1>7 DEF Label
  <2>2. cur # <<>> /\ cur[1] \in SoundTable /\ Current.name \in Spelling
    BY <1>1, <2>1, CurFacts, ScanFacts, LineFields DEF Collecting
  <2>3. table \in SoundTable /\ table.relocs = cur[1].relocs \cup {}
    BY <2>2, LabelledFacts
  <2> HIDE DEF table
  <2> QED
    BY <1>1, <2>1, <2>2, <2>3, ReadIntoRefers
<1> QED
  BY <1>2, <1>3, <1>4, <1>5, <1>6, <1>7

LEMMA SymbolFacts ==
    ASSUME Source, NEW k \in SymbolLines
    PROVE  /\ k \in DOMAIN program /\ k \in Nat /\ k >= 1 /\ program[k].op = "symbol"
           /\ program[k].width \in Widths /\ program[k].width \in Nat /\ program[k].width > 0
           /\ program[k].sym \in Name /\ program[k].sym \in Uses(program[k])
           /\ program[k].sub # NoName => program[k].sub \in Name /\ program[k].sub \in Uses(program[k])
           /\ \A o : /\ RefOf(k, o).offset = o /\ RefOf(k, o).width = program[k].width
                     /\ RefOf(k, o).name = program[k].sym /\ RefOf(k, o).sym = Strip[program[k].sym]
                     /\ RefOf(k, o).add = program[k].add
                     /\ program[k].sub # NoName => RefOf(k, o).sub = Strip[program[k].sub] /\ RefOf(k, o).sub # NoName
                     /\ program[k].sub = NoName => RefOf(k, o).sub = NoName
<1>1. k \in DOMAIN program /\ program[k].op = "symbol"
  BY DEF SymbolLines
<1>2. program \in Seq(SourceLine) /\ program[k].width \in Widths
  BY <1>1, ProgramsAssumption DEF Source
<1>3. k \in 1 .. Len(program) /\ Len(program) \in Nat /\ program[k] \in SourceLine
  BY <1>1, <1>2, LenProperties, ElementOfSeq
<1>4. program[k].sym \in Name /\ program[k].sub \in Name \cup {NoName}
  BY <1>3 DEF SourceLine
<1>5. /\ program[k].sym \in Uses(program[k])
      /\ program[k].sub # NoName => program[k].sub \in Name /\ program[k].sub \in Uses(program[k])
  BY <1>1, <1>4, StripAssumption DEF Uses
<1>6. program[k].sub # NoName => Strip[program[k].sub] # NoName
  BY <1>4, StripAssumption
<1>7. program[k].width \in Nat /\ program[k].width > 0
  BY <1>2, WidthsAreNatural
<1>8. \A o : /\ RefOf(k, o).offset = o /\ RefOf(k, o).width = program[k].width
             /\ RefOf(k, o).name = program[k].sym /\ RefOf(k, o).sym = Strip[program[k].sym]
             /\ RefOf(k, o).add = program[k].add
             /\ program[k].sub # NoName => RefOf(k, o).sub = Strip[program[k].sub]
             /\ program[k].sub = NoName => RefOf(k, o).sub = NoName
  BY DEF RefOf
<1> QED
  BY <1>1, <1>2, <1>3, <1>4, <1>5, <1>6, <1>7, <1>8

\* The references stay while the tables grow, and the new ones are those of
\* the lines that are new.
LEMMA HeldStill ==
    ASSUME NEW a \in Seq(SoundTable), NEW b \in Seq(SoundTable), NEW S, NEW new,
           Grows(a, b, S), Refers(a, b, new), Sourced(a), Held(a),
           \A r \in new : \E k \in SymbolLines : r = RefOf(k, r.offset),
           \A k \in SymbolLines \cap S : \A n \in DOMAIN b : \A o \in Nat :
               BeginsAt(b, k, n, o) => RefOf(k, o) \in b[n].relocs
    PROVE  Sourced(b) /\ Held(b)
<1>1. Sourced(b)
  BY DEF Sourced, Refers
<1>2. ASSUME NEW k \in SymbolLines, NEW n \in DOMAIN b, NEW o \in Nat, BeginsAt(b, k, n, o)
      PROVE  RefOf(k, o) \in b[n].relocs
  <2>1. CASE k \in S
    BY <1>2, <2>1
  <2>2. CASE k \notin S
    <3>1. o + 1 \in DOMAIN b[n].from /\ b[n].from[o + 1] = k /\ (o \in DOMAIN b[n].from => b[n].from[o] # k)
      BY <1>2 DEF BeginsAt
    <3>2. n \in DOMAIN a /\ o + 1 \in DOMAIN a[n].from
      BY <2>2, <3>1 DEF Grows
    <3>3. a[n].from \in Seq(Nat)
      BY <3>2, LenProperties, ElementOfSeq, TableFields
    <3>4. a[n].from # <<>>
      BY <3>2, <3>3, NotEmpty
    <3>5. \A q \in DOMAIN a[n].from : q \in DOMAIN b[n].from /\ b[n].from[q] = a[n].from[q]
      BY <3>2, <3>4 DEF Grows
    <3>6. BeginsAt(a, k, n, o)
      BY <3>1, <3>2, <3>5 DEF BeginsAt
    <3>7. RefOf(k, o) \in a[n].relocs
      BY <3>2, <3>6 DEF Held
    <3> QED
      BY <3>2, <3>4, <3>7 DEF Refers
  <2> QED
    BY <2>1, <2>2
<1> QED
  BY <1>1, <1>2 DEF Held

\* What the source says of references does not change.
LEMMA ReferencesStay ==
    ASSUME program' = program
    PROVE  /\ SymbolLines' = SymbolLines /\ \A k, o : RefOf(k, o)' = RefOf(k, o)
           /\ Sourced(Filling)' = Sourced(Filling') /\ Held(Filling)' = Held(Filling')
<1>1. SymbolLines' = SymbolLines /\ \A k, o : RefOf(k, o)' = RefOf(k, o)
  BY DEF SymbolLines, RefOf
<1>2. \A k, n, o : BeginsAt(Filling, k, n, o)' = BeginsAt(Filling', k, n, o)
  BY DEF BeginsAt
<1> QED
  BY <1>1, <1>2 DEF Sourced, Held

LEMMA ScanKeepsHeld ==
    ASSUME BInv, TInv', Scanning, program' = program, NEW S, NEW new, Sourced(Filling), Held(Filling),
           Grows(Filling, Filling', S), Refers(Filling, Filling', new),
           \A r \in new : \E k \in SymbolLines : r = RefOf(k, r.offset),
           \A k \in SymbolLines \cap S : \A n \in DOMAIN Filling' : \A o \in Nat :
               BeginsAt(Filling', k, n, o) => RefOf(k, o) \in Filling'[n].relocs
    PROVE  Sourced(Filling)' /\ Held(Filling)'
<1>1. Filling \in Seq(SoundTable)
  BY FillingFacts DEF BInv, TInv
<1>2. Filling' \in Seq(SoundTable)
  <2>1. (Tables => Filling \in Seq(SoundTable))'
    BY FillingFacts, PTL
  <2> QED
    BY <2>1 DEF TInv
<1>3. Sourced(Filling') /\ Held(Filling')
  <2> DEFINE a == Filling
             b == Filling'
  <2>1. /\ a \in Seq(SoundTable) /\ b \in Seq(SoundTable) /\ Grows(a, b, S) /\ Refers(a, b, new)
        /\ Sourced(a) /\ Held(a)
        /\ \A k \in SymbolLines \cap S : \A n \in DOMAIN b : \A o \in Nat :
             BeginsAt(b, k, n, o) => RefOf(k, o) \in b[n].relocs
    BY <1>1, <1>2
  <2>2. \A r \in new : \E k \in SymbolLines : r = RefOf(k, r.offset)
    OBVIOUS
  <2> HIDE DEF a, b
  <2>3. Sourced(b) /\ Held(b)
    BY ONLY <2>1, <2>2, HeldStill
  <2> QED
    BY <2>3 DEF a, b
<1> QED
  BY <1>3, ReferencesStay

\* The steps of the scan that put no reference.
LEMMA OthersKeepHeld ==
    ASSUME LInv, LInv', Sourced(Filling), Held(Filling),
           DataSection \/ TextSection \/ Common \/ SetAlias \/ PutBytes \/ Label \/ Skip,
           Grows(Filling, Filling', {0, line})
    PROVE  Sourced(Filling)' /\ Held(Filling)'
<1>1. Scanning /\ program' = program
  BY DEF DataSection, TextSection, Common, SetAlias, PutBytes, Label, Skip, ReadInto, Read
<1>2. BInv /\ TInv /\ TInv' /\ Source /\ line \in Nat
  BY <1>1, ScanBytesFacts DEF LInv, BInv
<1>3. Refers(Filling, Filling', {})
  BY <1>2, ScanRefers
<1>4. ASSUME NEW k \in SymbolLines \cap {0, line}, NEW n \in DOMAIN Filling', NEW o \in Nat,
             BeginsAt(Filling', k, n, o)
      PROVE  FALSE
  <2>1. k = line /\ Current.op = "symbol"
    BY <1>2, SymbolFacts DEF Current
  <2>2. Skip
    BY <2>1 DEF DataSection, TextSection, Common, SetAlias, PutBytes, Label
  <2>3. Filling' = Filling
    BY <2>2 DEF Skip, Read, Filling
  <2>4. o + 1 \in DOMAIN Filling[n].from /\ Filling[n].from[o + 1] = line
    BY <1>4, <2>1, <2>3 DEF BeginsAt
  <2>5. Filling[n].from[o + 1] < line
    BY <1>1, <1>2, <2>3, <2>4, ScanBytesFacts
  <2> QED
    BY <1>2, <2>4, <2>5
<1> QED
  BY <1>1, <1>2, <1>3, <1>4, ScanKeepsHeld

LEMMA PutRelocKeepsHeld ==
    ASSUME LInv, LInv', Sourced(Filling), Held(Filling), PutReloc,
           Grows(Filling, Filling', {0, line})
    PROVE  Sourced(Filling)' /\ Held(Filling)'
<1> DEFINE r == [offset |-> Len(cur[1].data), width |-> Current.width, name |-> Current.sym,
                 sym |-> Strip[Current.sym], add |-> Current.add,
                 sub |-> IF Current.sub = NoName THEN NoName ELSE Strip[Current.sub]]
           d == DataOf(Current)
           e == Extended(cur[1], d)
           lo == Len(cur[1].data)
           table == [e EXCEPT !.relocs = @ \cup {r}]
<1>1. Scanning /\ Collecting /\ Current.op = "symbol" /\ ReadInto(table) /\ program' = program
  BY DEF PutReloc, ReadInto, Read
<1>2. /\ BInv /\ TInv /\ TInv' /\ Source /\ Tables /\ cur # <<>> /\ cur[1] \in SoundTable /\ line \in Nat
      /\ Current.width \in Nat /\ tables \in Seq(SoundTable) /\ line \in DOMAIN program
  BY <1>1, ScanBytesFacts, CurFacts, ScanFacts, LineFields DEF Collecting, LInv, BInv, Tables
<1>3. d \in Seq(Byte) /\ Len(d) = Current.width
  BY <1>1, <1>2, DataOfFacts
<1>4. r = RefOf(line, lo)
  BY DEF RefOf, Current
<1>5. DOMAIN d = 1 .. Len(d) /\ Len(d) \in Nat
  BY <1>3, LenProperties
<1>6. cur[1].from \in Seq(Nat) /\ Len(cur[1].from) = lo /\ lo \in Nat /\ DOMAIN cur[1].from = 1 .. lo
  BY <1>2, TableFields, LenProperties
<1> HIDE DEF r, d, lo
<1>7. /\ e \in SoundTable /\ e.relocs = cur[1].relocs
      /\ e.from = cur[1].from \o [k \in DOMAIN d |-> line]
  BY <1>2, <1>3, ExtendedFacts DEF Extended
<1> HIDE DEF e
<1>8. table.from = e.from /\ table.relocs = e.relocs \cup {r}
  BY <1>7, TableFields DEF Table
<1>9. table \in SoundTable
  <2>1. tables' \in Seq(SoundTable) /\ cur' \in Seq(SoundTable)
    BY <1>2 DEF TInv, Tables
  <2>2. cur' = <<table>>
    BY <1>1 DEF ReadInto, Read
  <2> HIDE DEF table
  <2>3. 1 \in 1 .. Len(cur') /\ cur'[1] = table
    BY <2>2
  <2>4. cur'[1] \in SoundTable
    BY <2>1, <2>3, ElementOfSeq
  <2> QED
    BY <2>3, <2>4
<1> HIDE DEF table
<1>10. Refers(Filling, Filling', {r})
  BY <1>1, <1>2, <1>7, <1>8, <1>9, ReadIntoRefers
<1>11. line \in SymbolLines
  BY <1>1, <1>2 DEF SymbolLines, Current
<1>12. ASSUME NEW n \in DOMAIN Filling', NEW o \in Nat, BeginsAt(Filling', line, n, o)
       PROVE  RefOf(line, o) \in Filling'[n].relocs
  <2>1. Filling = tables \o <<cur[1]>> /\ Filling' = tables \o <<table>>
    <3>1. tables' = tables /\ cur' = <<table>>
      BY <1>1 DEF ReadInto, Read
    <3> QED
      BY <1>2, <3>1, FillingFacts DEF Filling
  <2> DEFINE h == Len(tables) + 1
             more == [k \in DOMAIN d |-> line]
  <2>2. /\ Len(tables) \in Nat /\ DOMAIN tables = 1 .. Len(tables)
        /\ DOMAIN Filling' = 1 .. h /\ Filling'[h] = table
        /\ \A m \in 1 .. Len(tables) : Filling'[m] = tables[m]
    BY <1>2, <1>9, <2>1, LastTable
  <2>3. /\ DOMAIN Filling = 1 .. h /\ Filling[h] = cur[1]
        /\ \A m \in 1 .. Len(tables) : Filling[m] = tables[m]
    BY <1>2, <2>1, LastTable
  <2>4. \A m \in DOMAIN Filling : \A q \in DOMAIN Filling[m].from :
          Filling[m].from[q] < line /\ Filling[m].from[q] \in Nat
    BY <1>1, <1>2, ScanBytesFacts
  <2>5. /\ o + 1 \in DOMAIN Filling'[n].from /\ Filling'[n].from[o + 1] = line
        /\ o \in DOMAIN Filling'[n].from => Filling'[n].from[o] # line
    BY <1>12 DEF BeginsAt
  <2>6. n = h
    <3>1. ASSUME n # h PROVE FALSE
      <4>1. n \in 1 .. Len(tables) /\ n \in DOMAIN Filling
        BY <2>2, <2>3, <3>1
      <4>2. Filling'[n] = Filling[n]
        BY <2>2, <2>3, <4>1
      <4> QED
        BY <1>2, <2>4, <2>5, <4>1, <4>2
    <3> QED
      BY <3>1
  <2>7. more \in Seq(Nat) /\ Len(more) = Len(d) /\ \A i \in 1 .. Len(d) : more[i] = line
    BY <1>2, <1>5
  <2> HIDE DEF more
  <2>8. /\ table.from \in Seq(Nat) /\ Len(table.from) = lo + Len(d)
        /\ \A i \in 1 .. lo + Len(d) : table.from[i] = IF i <= lo THEN cur[1].from[i] ELSE more[i - lo]
    <3>1. table.from = cur[1].from \o more
      BY <1>7, <1>8 DEF more
    <3> DEFINE old == cur[1].from
    <3>2. old \in Seq(Nat) /\ Len(old) = lo
      BY <1>6
    <3> HIDE DEF old
    <3>3. /\ old \o more \in Seq(Nat) /\ Len(old \o more) = Len(old) + Len(more)
          /\ \A i \in 1 .. Len(old) + Len(more) :
               (old \o more)[i] = IF i <= Len(old) THEN old[i] ELSE more[i - Len(old)]
      BY ONLY <2>7, <3>2, ConcatProperties
    <3> QED
      BY <2>7, <3>1, <3>2, <3>3 DEF old
  <2>9. DOMAIN table.from = 1 .. lo + Len(d)
    BY <2>8, LenProperties
  <2>10. o + 1 \in 1 .. lo + Len(d) /\ table.from[o + 1] = line
         /\ (o \in 1 .. lo + Len(d) => table.from[o] # line)
    BY <2>2, <2>5, <2>6, <2>9
  <2>11. ~ (o + 1 <= lo)
    <3>1. ASSUME o + 1 <= lo PROVE FALSE
      <4>1. o + 1 \in DOMAIN cur[1].from /\ cur[1].from[o + 1] = line
        BY <1>6, <2>8, <2>10, <3>1
      <4>2. h \in DOMAIN Filling
        BY <2>2, <2>3
      <4> HIDE DEF h
      <4>3. cur[1].from[o + 1] < line
        BY <2>3, <2>4, <4>1, <4>2
      <4> QED
        BY <1>2, <4>1, <4>3
    <3> QED
      BY <3>1
  <2>12. ~ (o > lo)
    <3>1. ASSUME o > lo PROVE FALSE
      <4>1. o \in 1 .. lo + Len(d) /\ ~ (o <= lo) /\ o - lo \in 1 .. Len(d)
        BY <1>5, <1>6, <2>10, <3>1
      <4>2. table.from[o] = line
        BY <2>7, <2>8, <4>1
      <4> QED
        BY <2>10, <4>1, <4>2
    <3> QED
      BY <3>1
  <2>13. o = lo
    BY <1>6, <2>11, <2>12
  <2> QED
    BY <1>4, <1>8, <2>2, <2>6, <2>13
<1>13. \A k \in SymbolLines \cap {0, line} : k = line
  BY <1>2, SymbolFacts
<1>14. \A q \in {r} : \E k \in SymbolLines : q = RefOf(k, q.offset)
  <2>1. RefOf(line, lo).offset = lo
    BY DEF RefOf
  <2> QED
    BY <1>4, <1>11, <2>1
<1> QED
  BY <1>1, <1>2, <1>10, <1>12, <1>13, <1>14, ScanKeepsHeld

\* What the writing of a difference changes.
WrittenOver(u, v) ==
    /\ u.reloc.sub # NoName /\ Bound(u)
    /\ DOMAIN tables' = DOMAIN tables
    /\ \A k \in DOMAIN tables : k # u.table => tables'[k] = tables[k]
    /\ tables'[u.table].relocs = tables[u.table].relocs \ {u.reloc}
    /\ \A q \in DOMAIN tables[u.table].data :
         tables'[u.table].data[q] =
           IF q \in u.reloc.offset + 1 .. u.reloc.offset + u.reloc.width
           THEN LittleEndian(v, u.reloc.width)[q - u.reloc.offset]
           ELSE tables[u.table].data[q]

LEMMA DifferenceWritten ==
    ASSUME TInv, WriteDifference
    PROVE  \E u \in unbound :
             \E left \in SideLocations(u, u.reloc.sym), right \in SideLocations(u, u.reloc.sub) :
               WrittenOver(u, left.offset - right.offset)
<1>1. phase = "relocs" /\ tables \in Seq(SoundTable)
  BY DEF WriteDifference, TInv, Tables
<1>2. PICK u \in unbound :
        /\ u.reloc.sub # NoName
        /\ \E left \in SideLocations(u, u.reloc.sym), right \in SideLocations(u, u.reloc.sub) :
              LET bytes == LittleEndian(left.offset - right.offset, u.reloc.width)
                  o == u.reloc.offset
              IN  tables' = [tables EXCEPT
                       ![u.table].data = [k \in DOMAIN @ |->
                           IF k \in o + 1 .. o + u.reloc.width THEN bytes[k - o] ELSE @[k]],
                       ![u.table].relocs = @ \ {u.reloc}]
        /\ Bound(u)
  BY DEF WriteDifference
<1>3. PICK left \in SideLocations(u, u.reloc.sym), right \in SideLocations(u, u.reloc.sub) :
              LET bytes == LittleEndian(left.offset - right.offset, u.reloc.width)
                  o == u.reloc.offset
              IN  tables' = [tables EXCEPT
                       ![u.table].data = [k \in DOMAIN @ |->
                           IF k \in o + 1 .. o + u.reloc.width THEN bytes[k - o] ELSE @[k]],
                       ![u.table].relocs = @ \ {u.reloc}]
  BY <1>2
<1> DEFINE old == tables[u.table]
           bytes == LittleEndian(left.offset - right.offset, u.reloc.width)
           o == u.reloc.offset
           w == u.reloc.width
           d == [k \in DOMAIN old.data |-> IF k \in o + 1 .. o + w THEN bytes[k - o] ELSE old.data[k]]
           e == Written(old, d, u.reloc)
<1>4. tables' = [tables EXCEPT ![u.table] = e]
  BY <1>3 DEF Written
<1>5. u.table \in DOMAIN tables /\ old \in Table
  BY <1>1, UnboundFacts, TableFields
<1>6. \A q \in DOMAIN old.data : d[q] = IF q \in o + 1 .. o + w THEN bytes[q - o] ELSE old.data[q]
  OBVIOUS
<1> HIDE DEF d
<1>7. e.data = d /\ e.relocs = old.relocs \ {u.reloc}
  BY <1>5 DEF Written, Table
<1> HIDE DEF e
<1>8. DOMAIN tables' = DOMAIN tables /\ tables'[u.table] = e /\ \A k \in DOMAIN tables : k # u.table => tables'[k] = tables[k]
  BY <1>1, <1>4, <1>5
<1>9. WrittenOver(u, left.offset - right.offset)
  BY <1>2, <1>6, <1>7, <1>8 DEF WrittenOver
<1> QED
  BY <1>9

LEMMA DotStaysDot ==
    ASSUME Distinct(program), NEW k \in DOMAIN program, NEW s \in Uses(program[k]), s # Dot
    PROVE  Strip[s] # Dot
  BY DEF Distinct

\* A difference is that of the places of the labels it is spelled with.
LEMMA SideFound ==
    ASSUME Distinct(program), Named(tables, DOMAIN program), tables \in Seq(SoundTable),
           NEW k \in DOMAIN program, NEW s \in Uses(program[k]), s # Dot, NEW u,
           NEW l \in SideLocations(u, Strip[s])
    PROVE  TableFor(s) = {Place(l.table, l.offset)}
<1>1. l \in Locations(Strip[s])
  BY DotStaysDot DEF SideLocations
<1> QED
  BY <1>1, PlainLocations

LEMMA WriteDifferenceKeepsReferences ==
    ASSUME NInv, NInv', WriteDifference, Distinct(program), HeldOrWritten, DifferencesLeft, Sourced(Filling)
    PROVE  HeldOrWritten' /\ DifferencesLeft' /\ Sourced(Filling)'
<1>1. /\ TInv /\ LInv /\ Source /\ Tables /\ tables \in Seq(SoundTable) /\ phase = "relocs"
      /\ phase' = "relocs" /\ program' = program /\ cur' = cur /\ cur = <<>>
      /\ \A k \in DOMAIN tables : tables'[k].from = tables[k].from /\ tables'[k].labels = tables[k].labels
  BY DifferenceKeepsLabels DEF WriteDifference, NInv, LInv, BInv, TInv, Tables
<1>2. PICK u \in unbound :
        \E left \in SideLocations(u, u.reloc.sym), right \in SideLocations(u, u.reloc.sub) :
          WrittenOver(u, left.offset - right.offset)
  BY <1>1, DifferenceWritten
<1>a. PICK left \in SideLocations(u, u.reloc.sym), right \in SideLocations(u, u.reloc.sub) :
          WrittenOver(u, left.offset - right.offset)
  BY <1>2
<1>3. /\ u.reloc.sub # NoName /\ Bound(u)
      /\ DOMAIN tables' = DOMAIN tables
      /\ \A k \in DOMAIN tables : k # u.table => tables'[k] = tables[k]
      /\ tables'[u.table].relocs = tables[u.table].relocs \ {u.reloc}
      /\ \A q \in DOMAIN tables[u.table].data :
           tables'[u.table].data[q] =
             IF q \in u.reloc.offset + 1 .. u.reloc.offset + u.reloc.width
             THEN LittleEndian(left.offset - right.offset, u.reloc.width)[q - u.reloc.offset]
             ELSE tables[u.table].data[q]
  BY <1>a DEF WrittenOver
<1> DEFINE g == u.table
           o == u.reloc.offset
           w == u.reloc.width
<1>4. /\ g \in DOMAIN tables /\ u.reloc \in tables[g].relocs /\ tables[g] \in SoundTable
      /\ o \in Nat /\ w \in Nat
  BY <1>1, UnboundFacts
<1>5. Spread(tables[g]) /\ Within(tables[g]) /\ tables[g].relocs \subseteq Reloc
  BY <1>4, TableFields
<1>6. Filling = tables /\ Filling' = tables'
  <2>1. cur' = <<>> /\ Tables'
    BY <1>1 DEF NInv, LInv, BInv, TInv
  <2> QED
    BY <1>1, <2>1, ConcatEmptySeq DEF Filling, Tables
<1>7. \A k \in DOMAIN tables : tables'[k].relocs \subseteq tables[k].relocs
  BY <1>3
<1>8. Sourced(Filling)'
  <2>1. Sourced(Filling')
    BY <1>3, <1>6, <1>7 DEF Sourced
  <2> QED
    BY <1>1, <2>1, ReferencesStay
<1>9. DifferencesLeft'
  <2>1. unbound' = unbound \ {u}
    BY <1>3 DEF Bound
  <2>2. ASSUME NEW k \in DOMAIN tables, NEW r \in tables'[k].relocs, r.sub # NoName
        PROVE  [table |-> k, reloc |-> r] \in unbound \ {u}
    <3>1. [table |-> k, reloc |-> r] \in unbound
      BY <1>7, <2>2 DEF DifferencesLeft
    <3>2. ASSUME [table |-> k, reloc |-> r] = u PROVE FALSE
      <4>1. k = u.table /\ r = u.reloc
        BY <3>2
      <4> QED
        BY <1>3, <2>2, <4>1
    <3> QED
      BY <3>1, <3>2
  <2> QED
    BY <1>1, <1>3, <2>1, <2>2 DEF DifferencesLeft
<1>10. \A x : TableFor(x)' = TableFor(x)
  BY <1>1, <1>3, SameTableFor
<1>11. ASSUME NEW k \in SymbolLines, NEW n \in DOMAIN tables, NEW p \in Nat, BeginsAt(tables, k, n, p)
       PROVE  \/ RefOf(k, p) \in tables'[n].relocs
              \/ /\ program[k].sub # NoName
                 /\ \A s \in tables'[n].relocs : s.offset + s.width <= p \/ p + program[k].width <= s.offset
                 /\ Dot \notin {program[k].sym, program[k].sub} =>
                      \A q \in TableFor(program[k].sym), r \in TableFor(program[k].sub) :
                          tables'[n].data[p + 1] = NumberByte(q.offset - r.offset, 0)
  <2>1. RefOf(k, p) \in tables[n].relocs \/ DifferenceAt(k, n, p)
    BY <1>11 DEF HeldOrWritten
  <2>2. CASE n # g
    <3>1. tables'[n] = tables[n]
      BY <1>3, <2>2
    <3> QED
      BY <2>1, <3>1 DEF DifferenceAt
  <2>3. CASE n = g /\ RefOf(k, p) \in tables[n].relocs /\ RefOf(k, p) # u.reloc
    BY <1>3, <2>3
  <2>4. /\ k \in DOMAIN program /\ program[k].width \in Nat /\ program[k].width > 0
        /\ program[k].sym \in Uses(program[k])
        /\ program[k].sub # NoName => program[k].sub \in Uses(program[k])
        /\ RefOf(k, p).offset = p /\ RefOf(k, p).width = program[k].width
        /\ RefOf(k, p).sym = Strip[program[k].sym]
        /\ program[k].sub # NoName => RefOf(k, p).sub = Strip[program[k].sub]
        /\ program[k].sub = NoName => RefOf(k, p).sub = NoName
    BY <1>1, SymbolFacts
  <2>5. p + 1 \in DOMAIN tables[n].data
    <3>1. tables[n].from \in Seq(Nat) /\ tables[n].data \in Seq(Byte) /\ Len(tables[n].from) = Len(tables[n].data)
      BY <1>1, TableIsSound, TableFields
    <3>2. p + 1 \in DOMAIN tables[n].from
      BY <1>11 DEF BeginsAt
    <3> QED
      BY <3>1, <3>2, LenProperties
  <2>6. CASE n = g /\ RefOf(k, p) = u.reloc
    <3>1. program[k].sub # NoName /\ p = o /\ program[k].width = w
      BY <1>3, <2>4, <2>6
    <3>2. ASSUME NEW s \in tables'[n].relocs
          PROVE  s.offset + s.width <= p \/ p + program[k].width <= s.offset
      <4>1. s \in tables[g].relocs /\ s # u.reloc
        BY <1>3, <2>6
      <4>2. Apart(s, u.reloc)
        BY <1>4, <1>5, <4>1 DEF Spread
      <4> QED
        BY <3>1, <4>2 DEF Apart
    <3>3. ASSUME Dot \notin {program[k].sym, program[k].sub},
                 NEW q \in TableFor(program[k].sym), NEW r \in TableFor(program[k].sub)
          PROVE  tables'[n].data[p + 1] = NumberByte(q.offset - r.offset, 0)
      <4>1. Named(tables, DOMAIN program)
        BY <1>1, <1>6 DEF LInv, Seen
      <4>2. left \in SideLocations(u, Strip[program[k].sym]) /\ right \in SideLocations(u, Strip[program[k].sub])
        BY <2>4, <2>6, <3>1
      <4>3. /\ TableFor(program[k].sym) = {Place(left.table, left.offset)}
            /\ TableFor(program[k].sub) = {Place(right.table, right.offset)}
        <5> DEFINE x == program[k].sym
                   y == program[k].sub
        <5>1. x \in Uses(program[k]) /\ y \in Uses(program[k]) /\ x # Dot /\ y # Dot
          BY <2>4, <3>1, <3>3
        <5> HIDE DEF x, y
        <5>2. left \in SideLocations(u, Strip[x]) /\ right \in SideLocations(u, Strip[y])
          BY <4>2 DEF x, y
        <5>3. TableFor(x) = {Place(left.table, left.offset)}
          BY ONLY Distinct(program), <1>1, <2>4, <4>1, <5>1, <5>2, SideFound
        <5>4. TableFor(y) = {Place(right.table, right.offset)}
          BY ONLY Distinct(program), <1>1, <2>4, <4>1, <5>1, <5>2, SideFound
        <5> QED
          BY <5>3, <5>4 DEF x, y
      <4>4. q.offset = left.offset /\ r.offset = right.offset
        BY <4>3 DEF Place
      <4>5. p + 1 \in o + 1 .. o + w /\ (p + 1) - o = 1 /\ 1 \in 1 .. w
        BY <1>4, <2>4, <3>1
      <4>6. tables'[n].data[p + 1] = LittleEndian(left.offset - right.offset, w)[1]
        BY <1>3, <2>5, <2>6, <4>5
      <4>7. LittleEndian(left.offset - right.offset, w)[1] = NumberByte(left.offset - right.offset, 0)
        BY <4>5 DEF LittleEndian
      <4> QED
        BY <4>4, <4>6, <4>7
    <3> QED
      BY <3>1, <3>2, <3>3
  <2>7. CASE n = g /\ DifferenceAt(k, n, p)
    <3>1. o + w <= p \/ p + program[k].width <= o
      BY <1>4, <2>7 DEF DifferenceAt
    <3>2. p + 1 \notin o + 1 .. o + w
      BY <1>4, <2>4, <3>1
    <3>3. tables'[n].data[p + 1] = tables[n].data[p + 1]
      BY <1>3, <2>5, <2>7, <3>2
    <3> QED
      BY <1>7, <2>7, <3>3 DEF DifferenceAt
  <2> QED
    BY <2>1, <2>2, <2>3, <2>6, <2>7
<1>12. HeldOrWritten'
  <2>1. SymbolLines' = SymbolLines /\ \A k, p : RefOf(k, p)' = RefOf(k, p)
    BY <1>1, ReferencesStay
  <2>2. ASSUME NEW k \in SymbolLines, NEW n \in DOMAIN tables, NEW p \in Nat, BeginsAt(tables, k, n, p)'
        PROVE  RefOf(k, p) \in tables'[n].relocs \/ DifferenceAt(k, n, p)'
    <3>1. BeginsAt(tables, k, n, p)
      BY <1>1, <2>2 DEF BeginsAt
    <3>2. /\ TableFor(program[k].sym)' = TableFor(program[k].sym)
          /\ TableFor(program[k].sub)' = TableFor(program[k].sub)
      <4> DEFINE x == program[k].sym
                 y == program[k].sub
      <4>1. x' = x /\ y' = y
        BY <1>1
      <4> QED
        BY <1>10, <4>1
    <3> QED
      BY <1>1, <1>11, <3>1, <3>2 DEF DifferenceAt
  <2> QED
    BY <1>3, <2>1, <2>2 DEF HeldOrWritten
<1> QED
  BY <1>8, <1>9, <1>12

\* Stripping the underscore finds nothing that the name itself does not.
LEMMA PlainTableFor ==
    ASSUME Distinct(program), Named(tables, DOMAIN program),
           NEW k \in DOMAIN program, NEW s \in Uses(program[k])
    PROVE  TableForAMD64(s) = TableFor(s)
<1>1. CASE Strip[s] = s
  BY <1>1 DEF TableForAMD64
<1>2. CASE Strip[s] # s
  <2>1. ASSUME NEW m \in DOMAIN tables, Strip[s] \in DOMAIN tables[m].labels PROVE FALSE
    <3> DEFINE x == Strip[s]
    <3>1. PICK i \in DefinedAt(x) : TRUE
      BY <2>1 DEF Named
    <3>2. i \in DOMAIN program /\ x \in Gives(program[i])
      BY DefinedFacts
    <3>3. {x, Strip[x]} \cap {s, Strip[s]} # {} => x = s
      BY <3>2 DEF Distinct
    <3> QED
      BY <1>2, <3>3
  <2>2. TableFor(Strip[s]) = {}
    BY <2>1, UnputNotFound DEF Unput
  <2> QED
    BY <2>2 DEF TableForAMD64
<1> QED
  BY <1>1, <1>2

References64 == {"lea", "gotmov", "gotuse", "access", "odd"}

LEMMA AddressFound ==
    ASSUME Source, Tables, Distinct(program), Named(tables, DOMAIN program),
           NEW k \in DOMAIN program, program[k].op \in References64, NEW p \in Address(program[k])
    PROVE  LET home == TableFor(program[k].sym)
           IN  IF home = {} THEN p.table = 0 ELSE home = {Beyond(p, - program[k].add)}
<1> DEFINE s == program[k].sym
           add == program[k].add
<1>1. s \in Uses(program[k]) /\ add \in Int
  <2>1. program \in Seq(SourceLine)
    BY ProgramsAssumption DEF Source
  <2>2. program[k] \in SourceLine
    BY <2>1, LenProperties, ElementOfSeq
  <2>3. s \in Name /\ add \in Int
    BY <2>2 DEF SourceLine
  <2> QED
    BY <2>3, StripAssumption DEF Uses, References64
<1>2. TableForAMD64(s) = TableFor(s)
  BY <1>1, PlainTableFor
<1>3. /\ TableForAMD64(s) # {} => p \in {Placed(x, add) : x \in TableForAMD64(s)}
      /\ TableForAMD64(s) = {} => p \in {Placed([table |-> 0, sym |-> f, offset |-> 0], add) : f \in Functions \cap {Strip[s]}}
  BY DEF Address
<1> HIDE DEF s, add
<1>4. CASE TableFor(s) = {}
  <2>1. PICK f : p = Placed([table |-> 0, sym |-> f, offset |-> 0], add)
    BY <1>2, <1>3, <1>4
  <2>2. p.table = 0
    BY <2>1 DEF Placed
  <2> QED
    BY <1>4, <2>2 DEF s
<1>5. CASE TableFor(s) # {}
  <2>1. Tables /\ tables \in Seq(SoundTable)
    BY DEF Tables
  <2>2. PICK l \in Locations(Strip[s]) : TableFor(s) = {Place(l.table, l.offset)}
    BY <1>1, <1>5, <2>1, PlainLocations
  <2>3. l.offset \in Nat
    BY LocationsFacts
  <2>4. p = Placed(Place(l.table, l.offset), add)
    BY <1>2, <1>3, <1>5, <2>2
  <2>5. Beyond(p, - add) = Place(l.table, l.offset)
    <3>1. p = [table |-> l.table, sym |-> NoName, offset |-> l.offset + add]
      BY <2>4 DEF Placed, Place
    <3>2. Beyond(p, - add) = [table |-> l.table, sym |-> NoName, offset |-> (l.offset + add) + (- add)]
      BY <3>1 DEF Beyond
    <3>3. (l.offset + add) + (- add) = l.offset
      BY <1>1, <2>3
    <3> QED
      BY <3>2, <3>3 DEF Place
  <2> QED
    BY <1>5, <2>2, <2>5 DEF s, add
<1> QED
  BY <1>4, <1>5

LEMMA SameTablesRefer ==
    ASSUME program' = program, tables' = tables, cur' = cur
    PROVE  /\ Sourced(Filling)' = Sourced(Filling) /\ Held(Filling)' = Held(Filling)
           /\ HeldOrWritten' = HeldOrWritten
           /\ \A a : AddressRight(a)' = AddressRight(a)
           /\ \A r : Targets(r)' = Targets(r)
<1>1. Filling' = Filling
  BY DEF Filling
<1>2. Sourced(Filling)' = Sourced(Filling) /\ Held(Filling)' = Held(Filling)
  BY <1>1, ReferencesStay
<1>3. \A x : TableFor(x)' = TableFor(x)
  BY DEF TableFor
<1>4. \A a : AddressRight(a)' = AddressRight(a)
  BY DEF AddressRight, TableFor
<1>5. \A r : Targets(r)' = Targets(r)
  BY DEF Targets, Locations
<1>6. \A k, n, o : DifferenceAt(k, n, o)' = DifferenceAt(k, n, o)
  BY DEF DifferenceAt, TableFor
<1>7. \A k, n, o : BeginsAt(tables, k, n, o)' = BeginsAt(tables, k, n, o)
  BY DEF BeginsAt
<1>8. SymbolLines' = SymbolLines /\ \A k, o : RefOf(k, o)' = RefOf(k, o)
  BY ReferencesStay
<1>9. HeldOrWritten' = HeldOrWritten
  BY <1>6, <1>7, <1>8 DEF HeldOrWritten
<1> QED
  BY <1>2, <1>4, <1>5, <1>9

\* The steps that leave tables, lines and addresses alone.
LEMMA SameKeepsReferences ==
    ASSUME Referring, program' = program, tables' = tables, cur' = cur, lines' = lines,
           addresses' = addresses, phase' # "failed" => phase # "failed",
           phase' \in {"scan", "aliases"} => phase \in {"scan", "aliases"},
           phase' \in {"relocs", "code", "emit", "done"} => HeldOrWritten /\ DifferencesLeft',
           phase' \in {"scan", "aliases", "relocs"} => phase \in {"scan", "aliases", "relocs"}
    PROVE  Referring'
<1>1. LinesRight'
  <2>1. \A k, o : RefOf(k, o)' = RefOf(k, o)
    BY ReferencesStay
  <2>2. SymbolLines' = SymbolLines /\ \A r : Targets(r)' = Targets(r)
    BY SameTablesRefer, ReferencesStay
  <2>3. ASSUME NEW i \in DOMAIN lines', lines'[i].reloc # NoReloc
        PROVE  /\ \E k \in SymbolLines : lines'[i].reloc = RefOf(k, lines'[i].reloc.offset)
               /\ lines'[i].target \in Targets(lines'[i].reloc)
    BY <2>3 DEF Referring, LinesRight
  <2>4. \A k, i : RefOf(k, lines[i].reloc.offset)' = RefOf(k, lines'[i].reloc.offset)
    BY DEF RefOf
  <2>5. \A i : Targets(lines[i].reloc)' = Targets(lines'[i].reloc)
    BY DEF Targets, Locations
  <2>6. \A i \in DOMAIN lines' : lines'[i].reloc # NoReloc =>
          /\ \E k \in SymbolLines' : lines'[i].reloc = RefOf(k, lines[i].reloc.offset)'
          /\ lines'[i].target \in Targets(lines[i].reloc)'
    <3> SUFFICES ASSUME NEW i \in DOMAIN lines', lines'[i].reloc # NoReloc
                 PROVE  /\ \E k \in SymbolLines' : lines'[i].reloc = RefOf(k, lines[i].reloc.offset)'
                        /\ lines'[i].target \in Targets(lines[i].reloc)'
      OBVIOUS
    <3>1. PICK k \in SymbolLines : lines'[i].reloc = RefOf(k, lines'[i].reloc.offset)
      BY ONLY <2>3, i \in DOMAIN lines', lines'[i].reloc # NoReloc
    <3>2. lines'[i].reloc = RefOf(k, lines[i].reloc.offset)'
      BY ONLY <2>4, <3>1
    <3>3. k \in SymbolLines'
      BY ONLY <2>2, <3>1
    <3>4. lines'[i].target \in Targets(lines[i].reloc)'
      BY ONLY <2>3, <2>5, i \in DOMAIN lines', lines'[i].reloc # NoReloc
    <3> QED
      BY ONLY <3>2, <3>3, <3>4
  <2> QED
    BY ONLY <2>6 DEF LinesRight
<1>2. \A a \in addresses' : AddressRight(a)'
  BY SameTablesRefer DEF Referring
<1> QED
  BY <1>1, <1>2, SameTablesRefer DEF Referring

LEMMA ScanKeepsReferences ==
    ASSUME RInv, NInv', Distinct(program), Referring,
           DataSection \/ TextSection \/ Common \/ SetAlias \/ PutBytes \/ PutReloc \/ Label \/ Skip
    PROVE  Referring'
<1>1. /\ phase = "scan" /\ phase' = "scan" /\ program' = program /\ addresses' = addresses
      /\ LInv /\ LInv' /\ BInv /\ TInv'
  BY DEF DataSection, TextSection, Common, SetAlias, PutBytes, PutReloc, Label, Skip, ReadInto, Read,
     Scanning, RInv, NInv, LInv, BInv
<1>2. Sourced(Filling) /\ Held(Filling) /\ addresses = {}
  BY <1>1 DEF Referring
<1>3. Sourced(Filling)' /\ Held(Filling)'
  <2>1. Grows(Filling, Filling', {0, line})
    <3>1. CASE DataSection
      BY <1>1, <3>1, DataSectionKeepsBytes
    <3>2. CASE TextSection
      BY <1>1, <3>2, TextSectionKeepsBytes
    <3>3. CASE Common
      BY <1>1, <3>3, CommonKeepsBytes
    <3>4. CASE SetAlias
      BY <1>1, <3>4, SetAliasKeepsBytes
    <3>5. CASE PutBytes
      BY <1>1, <3>5, PutBytesKeepsBytes
    <3>6. CASE PutReloc
      BY <1>1, <3>6, PutRelocKeepsBytes
    <3>7. CASE Label
      BY <1>1, <3>7, LabelKeepsBytes
    <3>8. CASE Skip
      BY <1>1, <3>8, SkipKeepsBytes
    <3> QED
      BY <3>1, <3>2, <3>3, <3>4, <3>5, <3>6, <3>7, <3>8
  <2>2. CASE PutReloc
    BY <1>1, <1>2, <2>1, <2>2, PutRelocKeepsHeld
  <2>3. CASE DataSection \/ TextSection \/ Common \/ SetAlias \/ PutBytes \/ Label \/ Skip
    BY <1>1, <1>2, <2>1, <2>3, OthersKeepHeld
  <2> QED
    BY <2>2, <2>3
<1>4. LinesRight'
  <2>1. lines' = <<>>
    BY <1>1 DEF TInv, Emission, Idle
  <2> QED
    BY <2>1 DEF LinesRight
<1> QED
  BY <1>1, <1>2, <1>3, <1>4 DEF Referring

\* The tables as they are when the lines have been read, and an alias put.
LEMMA LaterKeepsHeld ==
    ASSUME RInv, NInv', Distinct(program), Referring, EndScan \/ ResolveAlias
    PROVE  Referring'
<1>1. /\ phase \in {"scan", "aliases"} /\ phase' = "aliases" /\ program' = program
      /\ addresses' = addresses /\ TInv /\ TInv' /\ Tables /\ BInv
  BY DEF EndScan, ResolveAlias, Resolving, RInv, NInv, LInv, BInv, TInv
<1>2. Sourced(Filling) /\ Held(Filling) /\ addresses = {}
  BY <1>1 DEF Referring
<1>3. Grows(Filling, Filling', {}) /\ Refers(Filling, Filling', {})
  <2>1. CASE EndScan
    <3>1. tables' = Flushed /\ cur' = <<>>
      BY <2>1 DEF EndScan
    <3>2. Filling' = Flushed
      BY <1>1, <3>1, FlushedFacts, ConcatEmptySeq DEF Filling
    <3> QED
      BY <1>1, <3>2, FlushGrows, FlushRefers
  <2>2. CASE ResolveAlias
    <3>1. /\ DOMAIN tables' = DOMAIN tables
          /\ \A k \in DOMAIN tables :
               /\ tables'[k].from = tables[k].from /\ tables'[k].writable = tables[k].writable
               /\ tables'[k].relocs = tables[k].relocs
      <4>1. PICK a \in todo : \E l \in Locations(aliases[a].sym) :
              tables' = [tables EXCEPT ![l.table].labels = With(@, a, l.offset + aliases[a].add)]
        BY <2>2 DEF ResolveAlias
      <4>2. PICK l \in Locations(aliases[a].sym) :
              tables' = [tables EXCEPT ![l.table].labels = With(@, a, l.offset + aliases[a].add)]
        BY <4>1
      <4> DEFINE m == With(tables[l.table].labels, a, l.offset + aliases[a].add)
      <4>3. tables' = [tables EXCEPT ![l.table] = [tables[l.table] EXCEPT !.labels = m]]
        BY <4>2
      <4> HIDE DEF m
      <4>4. l.table \in DOMAIN tables /\ tables \in Seq(SoundTable)
        BY <1>1, LocationsFacts DEF Tables
      <4>5. \A k \in DOMAIN tables : tables[k] \in Table
        BY <1>1, TableIsSound, TableFields
      <4> QED
        BY <4>3, <4>4, <4>5 DEF Table
    <3>2. Filling = tables /\ Filling' = tables'
      <4>1. cur = <<>> /\ cur' = cur /\ tables \in Seq(SoundTable) /\ tables' \in Seq(SoundTable)
        BY <1>1, <2>2 DEF ResolveAlias, Resolving, BInv, TInv, Tables
      <4> QED
        BY <4>1, ConcatEmptySeq DEF Filling
    <3> QED
      BY <3>1, <3>2, GrowsSame, RefersSame
  <2> QED
    BY <2>1, <2>2
<1>4. Sourced(Filling)' /\ Held(Filling)'
  <2> DEFINE a == Filling
             b == Filling'
  <2>1. a \in Seq(SoundTable) /\ b \in Seq(SoundTable)
    <3>1. (Tables => Filling \in Seq(SoundTable))'
      BY FillingFacts, PTL
    <3> QED
      BY <1>1, <3>1, FillingFacts DEF TInv
  <2>2. Grows(a, b, {}) /\ Refers(a, b, {}) /\ Sourced(a) /\ Held(a)
    BY <1>2, <1>3
  <2> HIDE DEF a, b
  <2>3. \A k \in SymbolLines \cap {} : \A n \in DOMAIN b : \A o \in Nat :
          BeginsAt(b, k, n, o) => RefOf(k, o) \in b[n].relocs
    OBVIOUS
  <2>4. Sourced(b) /\ Held(b)
    BY ONLY <2>1, <2>2, <2>3, HeldStill
  <2> QED
    BY <1>1, <2>4, ReferencesStay DEF b
<1>5. LinesRight'
  <2>1. lines' = <<>>
    BY <1>1 DEF TInv, Emission, Idle
  <2> QED
    BY <2>1 DEF LinesRight
<1> QED
  BY <1>1, <1>2, <1>4, <1>5 DEF Referring

LEMMA EndAliasesKeepsReferences ==
    ASSUME RInv, NInv', Distinct(program), Referring, EndAliases
    PROVE  Referring'
<1>1. /\ phase = "aliases" /\ phase' = "relocs" /\ program' = program /\ tables' = tables /\ cur' = cur
      /\ lines' = lines /\ addresses' = addresses
      /\ unbound' = UNION {{[table |-> k, reloc |-> r] : r \in tables[k].relocs} : k \in DOMAIN tables}
  BY DEF EndAliases, emission
<1>2. Filling = tables
  <2>1. cur = <<>> /\ tables \in Seq(SoundTable)
    BY <1>1 DEF RInv, NInv, LInv, BInv, TInv, Tables
  <2> QED
    BY <2>1, ConcatEmptySeq DEF Filling
<1>3. HeldOrWritten
  BY <1>1, <1>2 DEF Referring, Held, HeldOrWritten
<1>4. DifferencesLeft'
  <2>1. ASSUME NEW k \in DOMAIN tables, NEW r \in tables[k].relocs
        PROVE  [table |-> k, reloc |-> r] \in unbound'
    BY <1>1
  <2> QED
    BY <1>1, <2>1 DEF DifferencesLeft
<1> QED
  BY <1>1, <1>3, <1>4, SameKeepsReferences

LEMMA RelocsKeepReferences ==
    ASSUME RInv, NInv', Distinct(program), Referring, KeepReloc \/ EndRelocs \/ WriteDifference
    PROVE  Referring'
<1>1. /\ phase = "relocs" /\ program' = program /\ cur' = cur /\ lines' = lines
      /\ addresses' = addresses /\ phase' \in {"relocs", "code"} /\ TInv
      /\ HeldOrWritten /\ DifferencesLeft /\ Sourced(Filling) /\ addresses = {}
  BY DEF KeepReloc, EndRelocs, WriteDifference, Bound, emission, resolution, Referring, RInv, NInv, LInv, BInv
<1>2. CASE KeepReloc
  <2>1. PICK u \in unbound : u.reloc.sub = NoName /\ Bound(u)
    BY <1>2 DEF KeepReloc
  <2>2. tables' = tables /\ unbound' = unbound \ {u} /\ phase' = "relocs"
    BY <1>1, <1>2, <2>1 DEF KeepReloc, Bound
  <2>3. ASSUME NEW k \in DOMAIN tables, NEW r \in tables[k].relocs, r.sub # NoName
        PROVE  [table |-> k, reloc |-> r] \in unbound'
    <3>1. [table |-> k, reloc |-> r] # u
      BY <2>1, <2>3
    <3> QED
      BY <1>1, <2>2, <2>3, <3>1 DEF DifferencesLeft
  <2>4. DifferencesLeft'
    BY <2>2, <2>3 DEF DifferencesLeft
  <2> QED
    BY <1>1, <2>2, <2>4, SameKeepsReferences
<1>3. CASE EndRelocs
  <2>1. tables' = tables /\ unbound = {} /\ phase' = "code"
    BY <1>3 DEF EndRelocs
  <2>2. DifferencesLeft'
    BY <1>1, <2>1 DEF DifferencesLeft
  <2> QED
    BY <1>1, <2>1, <2>2, SameKeepsReferences
<1>4. CASE WriteDifference
  <2>1. phase' = "relocs"
    BY <1>1, <1>4, DifferenceKeepsLabels
  <2>2. HeldOrWritten' /\ DifferencesLeft' /\ Sourced(Filling)'
    BY <1>1, <1>4, WriteDifferenceKeepsReferences DEF RInv
  <2>3. lines' = <<>>
    BY <1>1 DEF TInv, Emission, Idle
  <2>4. LinesRight'
    BY <2>3 DEF LinesRight
  <2> QED
    BY <1>1, <2>1, <2>2, <2>4 DEF Referring
<1> QED
  BY <1>2, <1>3, <1>4

LEMMA CodeKeepsReferences ==
    ASSUME RInv, NInv', Distinct(program), Referring, RewriteReference
    PROVE  Referring'
<1>1. /\ phase = "code" /\ phase' = "code" /\ program' = program /\ tables' = tables /\ cur' = cur
      /\ lines' = lines /\ line <= Len(program) /\ Current.op \in References64
      /\ TInv /\ LInv /\ Source /\ Tables
  BY DEF RewriteReference, AtReference, emission, References64, RInv, NInv, LInv, BInv, TInv
<1>2. PICK a \in Address(Current) : addresses' = addresses \cup {[line |-> line, address |-> a]}
  BY DEF RewriteReference
<1>3. line \in DOMAIN program
  <2>1. program \in Seq(SourceLine)
    BY <1>1, ProgramsAssumption DEF Source
  <2>2. line \in 1 .. Len(program) + 1 /\ Len(program) \in Nat /\ DOMAIN program = 1 .. Len(program)
    BY <1>1, <2>1, LenProperties DEF Source
  <2> QED
    BY <1>1, <2>2
<1>4. Named(tables, DOMAIN program)
  <2>1. Filling = tables /\ Seen = DOMAIN program
    <3>1. cur = <<>> /\ tables \in Seq(SoundTable)
      BY <1>1 DEF LInv, BInv, Tables
    <3> QED
      BY <1>1, <3>1, ConcatEmptySeq DEF Filling, Seen
  <2> QED
    BY <1>1, <2>1 DEF LInv
<1>5. AddressRight([line |-> line, address |-> a])
  <2>1. program[line].op \in References64 /\ a \in Address(program[line])
    BY <1>1 DEF Current
  <2>2. LET home == TableFor(program[line].sym)
        IN  IF home = {} THEN a.table = 0 ELSE home = {Beyond(a, - program[line].add)}
    BY <1>1, <1>3, <1>4, <2>1, AddressFound
  <2> QED
    BY <2>2 DEF AddressRight
<1>6. \A b \in addresses' : AddressRight(b)'
  <2>1. \A b \in addresses' : AddressRight(b)
    BY <1>2, <1>5 DEF Referring
  <2> QED
    BY <1>1, <2>1, SameTablesRefer
<1>7. LinesRight'
  <2>1. lines' = <<>>
    BY <1>1 DEF TInv, Emission, Idle
  <2> QED
    BY <2>1 DEF LinesRight
<1>8. (HeldOrWritten /\ DifferencesLeft /\ Sourced(Filling))'
  <2>1. HeldOrWritten /\ DifferencesLeft /\ Sourced(Filling)
    BY <1>1 DEF Referring
  <2>2. DifferencesLeft'
    BY <1>1, <2>1 DEF DifferencesLeft
  <2> QED
    BY <1>1, <2>1, <2>2, SameTablesRefer
<1> QED
  BY <1>1, <1>6, <1>7, <1>8 DEF Referring

LEMMA EmitAddsLine ==
    ASSUME IInv, EmitReloc \/ EmitBytes, NEW i \in DOMAIN lines'
    PROVE  \/ i \in DOMAIN lines /\ lines'[i] = lines[i]
           \/ lines'[i].reloc = NoReloc
           \/ lines'[i].reloc \in Here.relocs /\ lines'[i].target \in Targets(lines'[i].reloc)
<1>1. PICK S : lines \in Seq(S)
  <2>1. t <= Len(tables)
    BY DEF EmitReloc, EmitBytes, Emitting
  <2> QED
    BY <2>1 DEF IInv, Body
<1>2. ASSUME NEW w, NEW b, NEW r, NEW g, Emit(w, b, r, g)
      PROVE  (i \in DOMAIN lines /\ lines'[i] = lines[i]) \/ (lines'[i].reloc = r /\ lines'[i].target = g)
  <2> DEFINE x == [pos |-> pos, width |-> w, bytes |-> b, reloc |-> r, target |-> g]
  <2>1. lines' = Append(lines, x) /\ x.reloc = r /\ x.target = g
    BY <1>2 DEF Emit
  <2> HIDE DEF x
  <2>2. /\ DOMAIN lines = 1 .. Len(lines) /\ DOMAIN lines' = 1 .. Len(lines) + 1 /\ Len(lines) \in Nat
        /\ \A j \in 1 .. Len(lines) : lines'[j] = lines[j]
        /\ lines'[Len(lines) + 1] = x
    BY <1>1, <2>1, AppendProperties, LenProperties
  <2>3. i \in 1 .. Len(lines) \/ i = Len(lines) + 1
    BY <2>2
  <2> QED
    BY <2>1, <2>2, <2>3
<1>3. CASE EmitReloc
  <2>1. PICK r \in Left : \E g \in Targets(r) : Emit(r.width, <<>>, r, g)
    BY <1>3 DEF EmitReloc
  <2>2. PICK g \in Targets(r) : Emit(r.width, <<>>, r, g)
    BY <2>1
  <2>3. r \in Here.relocs
    BY DEF Left
  <2> QED
    BY <1>2, <2>2, <2>3
<1>4. CASE EmitBytes
  <2> DEFINE b == [k \in 1 .. Width |-> Padded(Here, pos + k - 1)]
  <2>1. Emit(Width, b, NoReloc, {})
    BY <1>4 DEF EmitBytes
  <2> HIDE DEF b
  <2> QED
    BY <1>2, <2>1
<1> QED
  BY <1>3, <1>4

LEMMA EmitKeepsReferences ==
    ASSUME RInv, NInv', Distinct(program), Referring, EmitTables
    PROVE  Referring'
<1>1. /\ phase = "emit" /\ phase' = "emit" /\ program' = program /\ cur' = cur /\ EmitNext
      /\ addresses' = addresses /\ unbound' = unbound /\ TInv /\ LInv /\ BInv /\ Tables /\ IInv
  BY DEF EmitTables, resolution, RInv, NInv, LInv, BInv, TInv, Emission
<1>2. tables' = tables
  BY <1>1 DEF EmitNext, EmitReloc, EmitBytes, EmitGlobl, Emit
<1>3. Sourced(tables)
  <2>1. cur = <<>> /\ tables \in Seq(SoundTable)
    BY <1>1 DEF BInv, Tables
  <2>2. Filling = tables
    BY <2>1, ConcatEmptySeq DEF Filling
  <2> QED
    BY <1>1, <2>2 DEF Referring
<1> DEFINE Right(l) == l.reloc # NoReloc =>
                         /\ \E k \in SymbolLines : l.reloc = RefOf(k, l.reloc.offset)
                         /\ l.target \in Targets(l.reloc)
<1>4. ASSUME NEW i \in DOMAIN lines' PROVE Right(lines'[i])
  <2>1. \A j \in DOMAIN lines : Right(lines[j])
    BY DEF Referring, LinesRight
  <2>2. CASE EmitGlobl
    BY <1>4, <2>2 DEF EmitGlobl
  <2>3. CASE EmitReloc \/ EmitBytes
    <3>1. t \in DOMAIN tables
      <4>1. t \in 1 .. Len(tables) + 1 /\ t <= Len(tables)
        BY <1>1, <2>3 DEF IInv, EmitReloc, EmitBytes, Emitting
      <4>2. tables \in Seq(SoundTable)
        BY <1>1 DEF Tables
      <4> QED
        BY <4>1, <4>2, LenProperties
    <3>2. \A r \in Here.relocs : \E k \in SymbolLines : r = RefOf(k, r.offset)
      BY <1>3, <3>1 DEF Sourced, Here
    <3> QED
      BY <1>1, <2>1, <2>3, <3>2, EmitAddsLine
  <2> QED
    BY <1>1, <2>2, <2>3 DEF EmitNext
<1>5. LinesRight'
  <2>1. SymbolLines' = SymbolLines /\ (\A k, o : RefOf(k, o)' = RefOf(k, o))
    BY <1>1, ReferencesStay
  <2>2. \A k, i : RefOf(k, lines[i].reloc.offset)' = RefOf(k, lines'[i].reloc.offset)
    BY <1>1 DEF RefOf
  <2>3. \A i : Targets(lines[i].reloc)' = Targets(lines'[i].reloc)
    BY <1>2 DEF Targets, Locations
  <2> QED
    BY <1>4, <2>1, <2>2, <2>3 DEF LinesRight
<1>6. (HeldOrWritten /\ DifferencesLeft /\ Sourced(Filling))'
  <2>1. HeldOrWritten /\ DifferencesLeft /\ Sourced(Filling)
    BY <1>1 DEF Referring
  <2>2. DifferencesLeft'
    BY <1>1, <1>2, <2>1 DEF DifferencesLeft
  <2> QED
    BY <1>1, <1>2, <2>1, <2>2, SameTablesRefer
<1>7. \A a \in addresses' : AddressRight(a)'
  BY <1>1, <1>2, SameTablesRefer DEF Referring
<1> QED
  BY <1>1, <1>5, <1>6, <1>7 DEF Referring

LEMMA FailKeepsReferences ==
    ASSUME Referring, TInv', Fail
    PROVE  Referring'
<1>1. /\ phase' = "failed" /\ program' = program /\ tables' = tables /\ cur' = cur /\ lines' = lines
      /\ addresses' = addresses
  BY DEF Fail, resolution, emission
<1>2. lines' = <<>>
  BY <1>1 DEF TInv, Emission, Idle
<1>3. LinesRight'
  BY <1>2 DEF LinesRight
<1>4. \A a \in addresses' : AddressRight(a)'
  BY <1>1, SameTablesRefer DEF Referring
<1> QED
  BY <1>1, <1>3, <1>4 DEF Referring

LEMMA StepKeepsReferences == RInv /\ [Next]_vars => RInv'
<1> SUFFICES ASSUME RInv, [Next]_vars PROVE RInv'
  OBVIOUS
<1>1. NInv /\ NInv' /\ TInv'
  BY StepKeepsNames DEF RInv, NInv, LInv, BInv
<1>2. program' = program
  <2>1. CASE Next
    BY <2>1 DEF Next, DataSection, RejectSection, TextSection, Common, SetAlias, PutBytes, PutReloc, RejectData,
       Label, Skip, EndScan, SkipAlias, ResolveAlias, RejectAlias, NextRound, EndAliases,
       WriteDifference, KeepReloc, RejectReloc, EndRelocs, RewriteReference, RejectReference,
       SkipLine, EndCode, EmitTables, EndEmit, ReadInto, Read, Fail, Bound
  <2>2. CASE UNCHANGED vars
    BY <2>2 DEF vars
  <2> QED
    BY <2>1, <2>2
<1>3. Distinct(program)' = Distinct(program)
  BY <1>2 DEF Distinct
<1> SUFFICES ASSUME Distinct(program), Referring PROVE Referring'
  BY <1>1, <1>3 DEF RInv
<1>4. CASE DataSection \/ TextSection \/ Common \/ SetAlias \/ PutBytes \/ PutReloc \/ Label \/ Skip
  BY <1>1, <1>4, ScanKeepsReferences
<1>5. CASE RejectSection \/ RejectData \/ RejectAlias \/ RejectReloc \/ RejectReference
  <2>1. Fail
    BY <1>5 DEF RejectSection, RejectData, RejectAlias, RejectReloc, RejectReference
  <2> QED
    BY <1>1, <2>1, FailKeepsReferences
<1>6. CASE EndScan \/ ResolveAlias
  BY <1>1, <1>6, LaterKeepsHeld
<1>7. CASE EndAliases
  BY <1>1, <1>7, EndAliasesKeepsReferences
<1>8. CASE WriteDifference \/ KeepReloc \/ EndRelocs
  BY <1>1, <1>8, RelocsKeepReferences
<1>9. CASE RewriteReference
  BY <1>1, <1>9, CodeKeepsReferences
<1>10. CASE EmitTables
  BY <1>1, <1>10, EmitKeepsReferences
<1>11. CASE SkipAlias \/ NextRound
  <2>1. /\ phase = "aliases" /\ phase' = "aliases" /\ tables' = tables /\ cur' = cur /\ lines' = lines
        /\ addresses' = addresses
    BY <1>11 DEF SkipAlias, NextRound, Resolving, emission
  <2> QED
    BY <1>2, <2>1, SameKeepsReferences
<1>12. CASE SkipLine \/ EndCode \/ EndEmit
  <2>1. /\ phase \in {"code", "emit"} /\ phase' \in {"code", "emit", "done"}
        /\ tables' = tables /\ cur' = cur /\ lines' = lines /\ addresses' = addresses
    BY <1>12 DEF SkipLine, EndCode, EndEmit, emission, resolution
  <2>2. HeldOrWritten /\ DifferencesLeft
    BY <2>1 DEF Referring
  <2>3. DifferencesLeft'
    BY <2>1, <2>2 DEF DifferencesLeft
  <2> QED
    BY <1>2, <2>1, <2>2, <2>3, SameKeepsReferences
<1>13. CASE UNCHANGED vars
  <2>1. /\ phase' = phase /\ tables' = tables /\ cur' = cur /\ lines' = lines
        /\ addresses' = addresses /\ unbound' = unbound
    BY <1>13 DEF vars
  <2>2. DifferencesLeft' = DifferencesLeft
    BY <2>1 DEF DifferencesLeft
  <2>3. phase' \in {"relocs", "code", "emit", "done"} => HeldOrWritten /\ DifferencesLeft'
    BY <2>1, <2>2 DEF Referring
  <2> QED
    BY <1>2, <2>1, <2>3, SameKeepsReferences
<1> QED
  BY <1>4, <1>5, <1>6, <1>7, <1>8, <1>9, <1>10, <1>11, <1>12, <1>13 DEF Next

LEMMA ReferencesInvariance == Spec => []RInv
<1>1. Init /\ NInv => RInv
  <2> SUFFICES ASSUME Init, NInv PROVE Referring
    BY DEF RInv
  <2>1. /\ phase = "scan" /\ cur = <<>> /\ tables = <<>> /\ lines = <<>> /\ addresses = {} /\ Tables
    BY DEF Init, NInv, LInv, BInv, TInv
  <2>2. Filling = <<>>
    BY <2>1, FillingFacts
  <2> QED
    BY <2>1, <2>2 DEF Referring, Sourced, Held, LinesRight
<1> QED
  BY <1>1, NamesInvariance, StepKeepsReferences, PTL DEF Spec

\* In a source whose names are distinct every reference leads to the label it
\* is spelled with: in the bytes that resolveConstRelocs writes for a label
\* difference, in a DATA line, and in the code.
THEOREM ReferencesAreRight == Spec => [](Distinct(program) => ReferencesKept)
<1>1. RInv /\ Distinct(program) => ReferencesKept
  <2> SUFFICES ASSUME RInv, Distinct(program) PROVE ReferencesKept
    OBVIOUS
  <2>1. Source /\ Tables /\ tables \in Seq(SoundTable) /\ Referring
    BY DEF RInv, NInv, LInv, BInv, TInv, Tables
  <2>2. ASSUME phase \in {"code", "emit", "done"}, NEW k \in DOMAIN program, program[k].op = "symbol",
               {program[k].sym, program[k].sub} \cap {NoName, Dot} = {},
               NEW p \in PlacesOf(k), NEW q \in TableFor(program[k].sym), NEW r \in TableFor(program[k].sub),
               \A m \in PlacesOf(k) : p.offset <= m.offset
        PROVE  tables[p.table].data[p.offset + 1] = NumberByte(q.offset - r.offset, 0)
    <3>1. k \in SymbolLines /\ program[k].sub # NoName
      BY <2>2 DEF SymbolLines
    <3>2. PICK n \in DOMAIN tables : \E x \in DOMAIN tables[n].from :
             tables[n].from[x] = k /\ p = [table |-> n, sym |-> NoName, offset |-> x - 1]
      BY DEF PlacesOf
    <3>3. PICK x \in DOMAIN tables[n].from :
            tables[n].from[x] = k /\ p = [table |-> n, sym |-> NoName, offset |-> x - 1]
      BY <3>2
    <3> DEFINE o == x - 1
    <3>4. o \in Nat /\ x = o + 1
      <4>1. tables[n] \in SoundTable
        BY <2>1, TableIsSound
      <4>2. tables[n].from \in Seq(Nat)
        BY <4>1, TableFields
      <4> QED
        BY <4>2, LenProperties
    <3>5. p.table = n /\ p.offset = o
      BY <3>3
    <3> HIDE DEF o
    <3>6. BeginsAt(tables, k, n, o)
      <4>1. ASSUME o \in DOMAIN tables[n].from, tables[n].from[o] = k PROVE FALSE
        <5> DEFINE m == [table |-> n, sym |-> NoName, offset |-> o - 1]
        <5>1. m \in PlacesOf(k)
          BY <4>1 DEF PlacesOf
        <5>2. m.offset = o - 1
          OBVIOUS
        <5> HIDE DEF m
        <5> QED
          BY <2>2, <3>4, <3>5, <5>1, <5>2
      <4> QED
        BY <3>3, <3>4, <4>1 DEF BeginsAt
    <3>7. RefOf(k, o) \in tables[n].relocs \/ DifferenceAt(k, n, o)
      BY <2>1, <2>2, <3>1, <3>4, <3>6 DEF Referring, HeldOrWritten
    <3>8. RefOf(k, o) \notin tables[n].relocs
      <4>1. RefOf(k, o).sub # NoName
        BY <2>1, <3>1, SymbolFacts
      <4> QED
        BY <2>1, <2>2, <4>1 DEF Referring, DifferencesLeft
    <3> QED
      BY <2>2, <3>5, <3>7, <3>8 DEF DifferenceAt
  <2>3. ASSUME NEW i \in DOMAIN lines, lines[i].reloc # NoReloc
        PROVE  LET home == TableFor(lines[i].reloc.name)
               IN  IF home = {} THEN lines[i].target.table = 0
                   ELSE home = {Beyond(lines[i].target, - lines[i].reloc.add)}
    <3> DEFINE c == lines[i].reloc
               g == lines[i].target
    <3>1. PICK k \in SymbolLines : c = RefOf(k, c.offset)
      BY <2>1, <2>3 DEF Referring, LinesRight
    <3>2. g \in Targets(c)
      BY <2>1, <2>3 DEF Referring, LinesRight
    <3> DEFINE s == program[k].sym
    <3>3. /\ c.name = s /\ c.sym = Strip[s] /\ c.add = program[k].add
          /\ k \in DOMAIN program /\ s \in Uses(program[k])
      BY <2>1, <3>1, SymbolFacts
    <3>4. c.add \in Int
      <4>1. program \in Seq(SourceLine)
        BY <2>1, ProgramsAssumption DEF Source
      <4>2. program[k] \in SourceLine
        BY <3>3, <4>1, LenProperties, ElementOfSeq
      <4> QED
        BY <3>3, <4>2 DEF SourceLine
    <3>5. Named(tables, DOMAIN program)
      <4>1. lines # <<>>
        OBVIOUS
      <4>2. phase \in {"emit", "done"}
        BY <4>1 DEF RInv, NInv, LInv, BInv, TInv, Emission, Idle
      <4>3. cur = <<>>
        BY <4>2 DEF RInv, NInv, LInv, BInv
      <4>4. Filling = tables /\ Seen = DOMAIN program
        BY <2>1, <4>2, <4>3, ConcatEmptySeq DEF Filling, Seen
      <4> QED
        BY <4>2, <4>4 DEF RInv, NInv, LInv
    <3> HIDE DEF c, g, s
    <3>6. /\ Locations(Strip[s]) = {} => TableFor(s) = {}
          /\ \A l \in Locations(Strip[s]) : TableFor(s) = {Place(l.table, l.offset)}
      BY <2>1, <3>3, <3>5, PlainLocations
    <3>7. CASE Locations(Strip[s]) = {}
      <4>1. g.table = 0
        BY <3>2, <3>3, <3>7 DEF Targets
      <4> QED
        BY <3>3, <3>6, <3>7, <4>1 DEF c, g
    <3>8. CASE Locations(Strip[s]) # {}
      <4>1. PICK l \in Locations(Strip[s]) : g = [table |-> l.table, sym |-> NoName, offset |-> l.offset + c.add]
        BY <3>2, <3>3, <3>8 DEF Targets
      <4>2. l.offset \in Nat
        BY <2>1, LocationsFacts
      <4>3. Beyond(g, - c.add) = [table |-> l.table, sym |-> NoName, offset |-> (l.offset + c.add) + (- c.add)]
        BY <4>1 DEF Beyond
      <4>4. (l.offset + c.add) + (- c.add) = l.offset
        BY <3>4, <4>2
      <4>5. TableFor(s) = {Beyond(g, - c.add)}
        BY <3>6, <4>3, <4>4 DEF Place
      <4>6. TableFor(c.name) # {} /\ TableFor(c.name) = {Beyond(g, - c.add)}
        BY <3>3, <4>5
      <4> QED
        BY <4>6 DEF c, g
    <3> QED
      BY <3>7, <3>8
  <2>4. ASSUME NEW a \in addresses
        PROVE  LET home == TableFor(program[a.line].sym)
               IN  IF home = {} THEN a.address.table = 0
                   ELSE home = {Beyond(a.address, - program[a.line].add)}
    BY <2>1 DEF Referring, AddressRight
  <2> QED
    BY <2>2, <2>3, <2>4 DEF ReferencesKept
<1> QED
  BY <1>1, ReferencesInvariance, PTL

-----------------------------------------------------------------------------
(***************************************************************************)
(* Labels of code.  Lines are read as data from a data section or a common *)
(* on; where that is what the assembler takes them for, the label of a     *)
(* line of code never is in a table.                                       *)
(***************************************************************************)
CodeLabels == {k \in DOMAIN program : program[k].op = "label" /\ ~ IsData(k)}

CodeUnput == \A k \in CodeLabels : Unput(Filling, program[k].name)

CInv ==
    /\ RInv
    /\ phase = "scan" => (inData => ReadAsData(program, line))
    /\ Distinct(program) /\ PlainText(program) => CodeUnput

LEMMA CodeLabelFacts ==
    ASSUME NEW k \in CodeLabels
    PROVE  /\ k \in DOMAIN program /\ program[k].op = "label"
           /\ Distinct(program) =>
                \A j \in DOMAIN program : program[j].op \in {"label", "common", "set"}
                    /\ program[j].name = program[k].name => j = k
           /\ PlainText(program) => ~ ReadAsData(program, k)
<1>1. k \in DOMAIN program /\ program[k].op = "label" /\ ~ IsData(k)
  BY DEF CodeLabels
<1>2. ASSUME Distinct(program), NEW j \in DOMAIN program, program[j].op \in {"label", "common", "set"},
             program[j].name = program[k].name
      PROVE  j = k
  <2>1. Gives(program[j]) \cap Gives(program[k]) # {}
    BY <1>1, <1>2 DEF Gives
  <2> QED
    BY <1>1, <1>2, <2>1 DEF Distinct
<1>3. ASSUME PlainText(program), ReadAsData(program, k) PROVE FALSE
  BY <1>1, <1>3 DEF PlainText, IsData, SectionOf
<1> QED
  BY <1>1, <1>2, <1>3

LEMMA CodeLabelsStay == ASSUME program' = program PROVE CodeLabels' = CodeLabels
<1>1. \A k : IsData(k)' = IsData(k)
  BY DEF IsData, SectionOf
<1> QED
  BY <1>1 DEF CodeLabels

\* A line is read as data only since a data section or a common.
LEMMA ReadAsDataStays ==
    ASSUME TInv, Scanning, program' = program, line' = line + 1,
           inData => ReadAsData(program, line),
           \/ inData' = FALSE
           \/ inData' = inData /\ Current.op # "section"
           \/ Current.op = "common"
           \/ Current.op = "section" /\ isDataSection(Current)
    PROVE  inData' => ReadAsData(program', line')
<1>1. line \in Nat /\ line >= 1
  BY DEF TInv, Source
<1>2. CASE inData' = inData /\ Current.op # "section"
  <2> SUFFICES ASSUME inData PROVE ReadAsData(program, line + 1)
    BY <1>2
  <2>1. PICK j \in 1 .. line - 1 :
          /\ program[j].op = "common" \/ (program[j].op = "section" /\ isDataSection(program[j]))
          /\ \A i \in j + 1 .. line - 1 : program[i].op # "section"
    BY DEF ReadAsData
  <2>2. program[line].op # "section"
    BY <1>2 DEF Current
  <2>3. \A i \in j + 1 .. (line + 1) - 1 : program[i].op # "section"
    BY <1>1, <2>1, <2>2
  <2>4. j \in 1 .. (line + 1) - 1
    BY <1>1
  <2> QED
    BY <2>1, <2>3, <2>4 DEF ReadAsData
<1>3. CASE Current.op = "common" \/ (Current.op = "section" /\ isDataSection(Current))
  <2>1. program[line].op = "common" \/ (program[line].op = "section" /\ isDataSection(program[line]))
    BY <1>3 DEF Current
  <2>2. line \in 1 .. (line + 1) - 1 /\ \A i \in line + 1 .. (line + 1) - 1 : program[i].op # "section"
    BY <1>1
  <2>3. ReadAsData(program, line + 1)
    BY <2>1, <2>2 DEF ReadAsData
  <2> QED
    BY <2>3
<1>4. CASE inData' = FALSE
  BY <1>4
<1> QED
  BY <1>2, <1>3, <1>4

LEMMA ScanKeepsCode ==
    ASSUME CInv, RInv', BInv', TInv',
           DataSection \/ TextSection \/ Common \/ SetAlias \/ PutBytes \/ PutReloc \/ Label \/ Skip
    PROVE  CInv'
<1>1. LInv /\ BInv /\ TInv
  BY DEF CInv, RInv, NInv, LInv, BInv
<1>2. LabelsPut
  BY <1>1, ScanPuts
<1>3. /\ Scanning /\ phase = "scan" /\ phase' = "scan" /\ program' = program /\ line' = line + 1
      /\ line \in DOMAIN program
  BY <1>1, <1>2, ScanBytesFacts DEF LabelsPut, Scanning
<1>4. \/ inData' = FALSE
      \/ inData' = inData /\ Current.op # "section"
      \/ Current.op = "common"
      \/ Current.op = "section" /\ isDataSection(Current)
  BY DEF DataSection, TextSection, Common, SetAlias, PutBytes, PutReloc, Label, Skip, ReadInto, Read
<1>5. inData' => ReadAsData(program', line')
  BY <1>1, <1>3, <1>4, ReadAsDataStays DEF CInv
<1>6. ASSUME Distinct(program), PlainText(program), NEW k \in CodeLabels
      PROVE  Unput(Filling', program[k].name)
  <2>1. Unput(Filling, program[k].name)
    BY <1>3, <1>6 DEF CInv, CodeUnput
  <2>2. PICK fresh \in SUBSET {Current.name} :
          /\ fresh # {} => Current.op \in {"label", "common"}
          /\ Keeps(Filling, Filling', fresh)
    BY <1>2 DEF LabelsPut
  <2>3. CASE Skip
    <3>1. Filling' = Filling
      BY <2>3 DEF Skip, Read, Filling
    <3> QED
      BY <2>1, <3>1
  <2>4. CASE ~ Skip
    <3>1. program[k].name \notin fresh
      <4>1. ASSUME program[k].name \in fresh PROVE FALSE
        <5>1. program[line].op \in {"label", "common"} /\ program[line].name = program[k].name
          BY <2>2, <4>1 DEF Current
        <5>2. line = k /\ program[line].op = "label"
          BY <1>3, <1>6, <5>1, CodeLabelFacts
        <5>3. Label
          BY <2>4, <5>2 DEF DataSection, TextSection, Common, SetAlias, PutBytes, PutReloc, Current
        <5>4. ReadAsData(program, line)
          BY <1>3, <5>3 DEF Label, Collecting, CInv
        <5> QED
          BY <1>6, <5>2, <5>4, CodeLabelFacts
      <4> QED
        BY <4>1
    <3> QED
      BY <2>1, <2>2, <3>1 DEF Unput, Keeps
  <2> QED
    BY <2>3, <2>4
<1>7. Distinct(program) /\ PlainText(program) => CodeUnput'
  <2>1. CodeLabels' = CodeLabels
    BY <1>3, CodeLabelsStay
  <2>2. \A k : Unput(Filling, program[k].name)' <=> Unput(Filling', program[k].name)
    BY <1>3 DEF Unput
  <2> QED
    BY <1>6, <2>1, <2>2 DEF CodeUnput
<1>8. Distinct(program)' = Distinct(program) /\ PlainText(program)' = PlainText(program)
  BY <1>3 DEF Distinct, PlainText, ReadAsData
<1> QED
  BY <1>3, <1>5, <1>7, <1>8 DEF CInv

\* Once the lines are read only aliases are put.
LEMMA LaterKeepsCode ==
    ASSUME CInv, RInv', phase' # "scan", program' = program, NEW fresh, fresh \subseteq SetNames, Keeps(Filling, Filling', fresh)
    PROVE  CInv'
<1>1. ASSUME Distinct(program), PlainText(program), NEW k \in CodeLabels
      PROVE  Unput(Filling', program[k].name)
  <2>1. Unput(Filling, program[k].name)
    BY <1>1 DEF CInv, CodeUnput
  <2>2. program[k].name \notin SetNames
    <3>1. ASSUME program[k].name \in SetNames PROVE FALSE
      <4>1. PICK i \in DOMAIN program : program[i].op = "set" /\ program[i].name = program[k].name
        BY <3>1 DEF SetNames
      <4>2. i = k /\ program[k].op = "label"
        BY <1>1, <4>1, CodeLabelFacts
      <4> QED
        BY <4>1, <4>2
    <3> QED
      BY <3>1
  <2> QED
    BY <2>1, <2>2 DEF Unput, Keeps
<1>2. CodeLabels' = CodeLabels
  BY CodeLabelsStay
<1>3. \A k : Unput(Filling, program[k].name)' <=> Unput(Filling', program[k].name)
  BY DEF Unput
<1>4. Distinct(program)' = Distinct(program) /\ PlainText(program)' = PlainText(program)
  BY DEF Distinct, PlainText, ReadAsData
<1> QED
  BY <1>1, <1>2, <1>3, <1>4 DEF CInv, CodeUnput

LEMMA StepKeepsCode == CInv /\ [Next]_vars => CInv'
<1> SUFFICES ASSUME CInv, [Next]_vars PROVE CInv'
  OBVIOUS
<1>1. RInv' /\ LInv /\ BInv /\ TInv /\ BInv' /\ TInv' /\ Tables
  BY StepKeepsReferences DEF CInv, RInv, NInv, LInv, BInv, TInv
<1>2. CASE DataSection \/ TextSection \/ Common \/ SetAlias \/ PutBytes \/ PutReloc \/ Label \/ Skip
  BY <1>1, <1>2, ScanKeepsCode
<1>3. CASE RejectSection \/ RejectData \/ RejectAlias \/ RejectReloc \/ RejectReference
  <2>1. phase' = "failed" /\ program' = program /\ tables' = tables /\ cur' = cur
    BY <1>3 DEF RejectSection, RejectData, RejectAlias, RejectReloc, RejectReference, Fail
  <2>2. Keeps(Filling, Filling', {}) /\ {} \subseteq SetNames
    BY <2>1, KeepsSame DEF Filling
  <2> QED
    BY <1>1, <2>1, <2>2, LaterKeepsCode
<1>4. CASE EndScan
  <2>1. phase = "scan" /\ phase' = "aliases" /\ program' = program /\ tables' = Flushed /\ cur' = <<>>
    BY <1>4 DEF EndScan
  <2>2. Filling' = Flushed
    BY <1>1, <2>1, FlushedFacts, ConcatEmptySeq DEF Filling
  <2>3. Keeps(Filling, Filling', {}) /\ {} \subseteq SetNames
    BY <1>1, <2>2, FlushKeeps
  <2> QED
    BY <1>1, <2>1, <2>3, LaterKeepsCode
<1>5. CASE ResolveAlias
  <2>1. phase = "aliases" /\ phase' = "aliases" /\ program' = program /\ cur' = cur
    BY <1>5 DEF ResolveAlias, Resolving
  <2>2. Filling = tables /\ Filling' = tables'
    <3>1. cur = <<>> /\ tables \in Seq(SoundTable) /\ tables' \in Seq(SoundTable)
      BY <1>1, <2>1 DEF BInv, TInv, Tables
    <3> QED
      BY <2>1, <3>1, ConcatEmptySeq DEF Filling
  <2>3. \E a \in DOMAIN aliases : Keeps(tables, tables', {a})
    <3>1. PICK a \in DOMAIN aliases : \E l \in Locations(aliases[a].sym) :
             /\ DOMAIN tables' = DOMAIN tables
             /\ DOMAIN tables'[l.table].labels = DOMAIN tables[l.table].labels \cup {a}
             /\ \A x \in DOMAIN tables[l.table].labels \ {a} :
                  tables'[l.table].labels[x] = tables[l.table].labels[x]
             /\ \A k \in DOMAIN tables : k # l.table => tables'[k].labels = tables[k].labels
      BY <1>1, <1>5, ResolvedAlias
    <3> QED
      BY <3>1 DEF Keeps
  <2>4. DOMAIN aliases \subseteq SetNames
    BY <1>1 DEF LInv
  <2>5. PICK a \in DOMAIN aliases : Keeps(Filling, Filling', {a})
    BY <2>2, <2>3
  <2>6. {a} \subseteq SetNames
    BY <2>4
  <2> QED
    BY <1>1, <2>1, <2>5, <2>6, LaterKeepsCode
<1>6. CASE WriteDifference
  <2>1. /\ phase = "relocs" /\ phase' = phase /\ program' = program /\ cur' = cur
        /\ DOMAIN tables' = DOMAIN tables
        /\ \A k \in DOMAIN tables : tables'[k].labels = tables[k].labels
    BY <1>1, <1>6, DifferenceKeepsLabels
  <2>2. Filling = tables /\ Filling' = tables'
    <3>1. cur = <<>> /\ tables \in Seq(SoundTable) /\ tables' \in Seq(SoundTable)
      BY <1>1, <2>1 DEF BInv, TInv, Tables
    <3> QED
      BY <2>1, <3>1, ConcatEmptySeq DEF Filling
  <2>3. Keeps(Filling, Filling', {}) /\ {} \subseteq SetNames
    BY <2>1, <2>2 DEF Keeps
  <2> QED
    BY <1>1, <2>1, <2>3, LaterKeepsCode
<1>7. CASE \/ SkipAlias \/ NextRound \/ EndAliases \/ KeepReloc \/ EndRelocs \/ RewriteReference
           \/ SkipLine \/ EndCode \/ EmitTables \/ EndEmit
  <2>1. /\ phase \in {"aliases", "relocs", "code", "emit"} /\ phase' # "scan"
        /\ program' = program /\ tables' = tables /\ cur' = cur
    BY <1>7 DEF SkipAlias, NextRound, EndAliases, KeepReloc, EndRelocs, Resolving, Bound, resolution,
         RewriteReference, SkipLine, EndCode, EmitTables, EndEmit, AtReference,
         EmitNext, EmitReloc, EmitBytes, EmitGlobl, Emit
  <2>2. Filling' = Filling
    BY <2>1 DEF Filling
  <2>3. Keeps(Filling, Filling', {}) /\ {} \subseteq SetNames
    BY <2>2, KeepsSame
  <2> QED
    BY <1>1, <2>1, <2>3, LaterKeepsCode
<1>8. CASE UNCHANGED vars
  <2>1. /\ phase' = phase /\ program' = program /\ line' = line /\ cur' = cur /\ tables' = tables
        /\ inData' = inData
    BY <1>8 DEF vars
  <2>2. Filling' = Filling /\ CodeLabels' = CodeLabels
    BY <2>1, CodeLabelsStay DEF Filling
  <2>3. \A k : Unput(Filling, program[k].name)' = Unput(Filling, program[k].name)
    BY <2>1 DEF Unput, Filling
  <2>4. /\ Distinct(program)' = Distinct(program) /\ PlainText(program)' = PlainText(program)
        /\ ReadAsData(program, line)' = ReadAsData(program, line)
    BY <2>1 DEF Distinct, PlainText, ReadAsData
  <2>5. CodeUnput' = CodeUnput
    BY <2>2, <2>3 DEF CodeUnput
  <2> QED
    BY <1>1, <2>1, <2>4, <2>5 DEF CInv
<1> QED
  BY <1>2, <1>3, <1>4, <1>5, <1>6, <1>7, <1>8 DEF Next

LEMMA CodeInvariance == Spec => []CInv
<1>1. Init /\ RInv => CInv
  <2> SUFFICES ASSUME Init, RInv PROVE CInv
    OBVIOUS
  <2>1. phase = "scan" /\ cur = <<>> /\ tables = <<>> /\ inData = FALSE /\ Tables
    BY DEF Init, RInv, NInv, LInv, BInv, TInv
  <2>2. Filling = <<>>
    BY <2>1, FillingFacts
  <2>3. CodeUnput
    BY <2>2 DEF CodeUnput, Unput
  <2> QED
    BY <2>1, <2>3 DEF CInv
<1> QED
  BY <1>1, ReferencesInvariance, StepKeepsCode, PTL DEF Spec

\* In a source whose names are distinct, and whose sections and commons mark as
\* data only what is, code that refers to a label of code gets its address and
\* never a place in a table.
THEOREM CodeIsCode == Spec => [](Distinct(program) /\ PlainText(program) => CodeStaysCode)
<1>1. CInv /\ Distinct(program) /\ PlainText(program) => CodeStaysCode
  <2> SUFFICES ASSUME CInv, Distinct(program), PlainText(program), NEW a \in addresses,
                      NEW k \in DOMAIN program, program[k].op = "label", ~ IsData(k),
                      program[a.line].sym = program[k].name
               PROVE  a.address.table = 0
    BY DEF CodeStaysCode
  <2>1. Unput(Filling, program[k].name)
    BY DEF CInv, CodeUnput, CodeLabels
  <2>2. Unput(tables, program[k].name)
    <3>1. Tables
      BY DEF CInv, RInv, NInv, LInv, BInv, TInv
    <3>2. \A m \in DOMAIN tables : m \in DOMAIN Filling /\ Filling[m] = tables[m]
      <4>1. CASE cur = <<>>
        BY <3>1, <4>1, ConcatEmptySeq DEF Filling, Tables
      <4>2. CASE cur # <<>>
        <5>1. tables \in Seq(SoundTable) /\ cur[1] \in SoundTable /\ Filling = tables \o <<cur[1]>>
          BY <3>1, <4>2, CurFacts, FillingFacts DEF Tables
        <5> QED
          BY <5>1, LastTable
      <4> QED
        BY <4>1, <4>2
    <3> QED
      BY <2>1, <3>2 DEF Unput
  <2>3. TableFor(program[k].name) = {}
    BY <2>2, UnputNotFound
  <2>4. AddressRight(a)
    BY DEF CInv, RInv, Referring
  <2> QED
    BY <2>3, <2>4 DEF AddressRight
<1> QED
  BY <1>1, CodeInvariance, PTL
=============================================================================
