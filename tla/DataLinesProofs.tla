----------------------------- MODULE DataLinesProofs -----------------------------
(***************************************************************************)
(* The DATA lines of every table tile it, whatever its size and wherever   *)
(* its references stand.                                                   *)
(***************************************************************************)
EXTENDS DataLines, NumberLemmas, TLAPS

(***************************************************************************)
(* Facts about numbers and sequences.                                      *)
(***************************************************************************)
\* Padding to a multiple of eight makes nothing shorter.
LEMMA RoundUp ==
    ASSUME NEW n \in Nat
    PROVE  ((n + 7) \div 8) * 8 \in Nat /\ n <= ((n + 7) \div 8) * 8
<1> DEFINE q == (n + 7) \div 8
<1>1. q \in Int /\ 8 * q <= n + 7 /\ n + 7 < 8 * q + 8
  OBVIOUS
<1> HIDE DEF q
<1>2. q * 8 \in Nat /\ n <= q * 8
  BY <1>1
<1> QED
  BY <1>2 DEF q

\* A sequence with one more element.
LEMMA AppendFacts ==
    ASSUME NEW S, NEW s \in Seq(S), NEW e
    PROVE  /\ Append(s, e) \in Seq(S \cup {e})
           /\ Len(s) \in Nat /\ Len(Append(s, e)) = Len(s) + 1
           /\ DOMAIN s = 1 .. Len(s)
           /\ DOMAIN Append(s, e) = 1 .. Len(s) + 1
           /\ \A k \in 1 .. Len(s) : Append(s, e)[k] = s[k]
           /\ Append(s, e)[Len(s) + 1] = e
           /\ Append(s, e) # <<>>
<1>1. s \in Seq(S \cup {e})
  OBVIOUS
<1> QED
  BY <1>1

-----------------------------------------------------------------------------
(***************************************************************************)
(* The inductive invariant.  What Tiled says of the lines is not enough:   *)
(* it also takes that no reference is behind the position until it has its *)
(* line, and that one with a line lies wholly before the position.         *)
(***************************************************************************)
Given ==
    /\ tables \in Seq({tables[k] : k \in DOMAIN tables})
    /\ \A k \in DOMAIN tables : Emittable(tables[k])

Following ==
    /\ \A k \in DOMAIN lines :
         /\ LineHolds(Here, lines[k])
         /\ lines[k].pos = IF k = 1 THEN 0 ELSE lines[k - 1].pos + lines[k - 1].width
    /\ pos = IF lines = <<>> THEN 0 ELSE lines[Len(lines)].pos + lines[Len(lines)].width

Ahead ==
    /\ \A r \in Left : pos <= r.offset
    /\ \A r \in Here.relocs \ Left : r.offset + r.width <= pos

Body ==
    /\ \E S : lines \in Seq(S)
    /\ pos \in Nat
    /\ pos <= Size(Here)
    /\ Following
    /\ Ahead

IInv ==
    /\ Given
    /\ t \in 1 .. Len(tables) + 1
    /\ t <= Len(tables) => Body

\* The table at hand is one that EmitTables may be given.
LEMMA HereFacts ==
    ASSUME Given, t \in 1 .. Len(tables)
    PROVE  /\ Here.data \in Seq(Byte) /\ Len(Here.data) \in Nat
           /\ Size(Here) \in Nat /\ Len(Here.data) <= Size(Here)
           /\ \A r \in Here.relocs : /\ r \in Reloc /\ r.offset \in Nat /\ r.width = 8
                                     /\ r.offset + 8 <= Len(Here.data)
           /\ \A r, q \in Here.relocs : q = r \/ r.offset + 8 <= q.offset \/ q.offset + 8 <= r.offset
<1>1. t \in DOMAIN tables
  BY DEF Given
<1>2. Emittable(Here)
  BY <1>1 DEF Given, Here
<1>3. Here.data \in Seq(Byte) /\ Len(Here.data) \in Nat
  BY <1>2 DEF Emittable
<1>4. Size(Here) \in Nat /\ Len(Here.data) <= Size(Here)
  BY <1>3, RoundUp DEF Size
<1>5. \A r \in Here.relocs : r \in Reloc /\ r.width = 8 /\ r.offset + r.width <= Len(Here.data)
  BY <1>2 DEF Emittable
<1>6. \A r \in Here.relocs : r.offset \in Nat
  BY <1>5 DEF Reloc
<1>7. \A r, q \in Here.relocs : q = r \/ Apart(r, q)
  BY <1>2 DEF Emittable
<1> QED
  BY <1>3, <1>4, <1>5, <1>6, <1>7 DEF Apart

\* The width that is chosen is at most what is left, and there is one.
LEMMA WidthFacts ==
    ASSUME pos \in Nat, End \in Nat, pos < End
    PROVE  Width \in Widths /\ Width \in Nat /\ pos + Width <= End
<1> DEFINE Good(w) == /\ w = 1 \/ Fits(w)
                      /\ \A v \in Widths : v > w => ~ Fits(v)
<1>1. \E w \in Widths : Good(w)
  <2>1. CASE Fits(8)
    BY <2>1 DEF Widths
  <2>2. CASE ~ Fits(8) /\ Fits(4)
    BY <2>2 DEF Widths
  <2>3. CASE ~ Fits(8) /\ ~ Fits(4) /\ Fits(2)
    BY <2>3 DEF Widths
  <2>4. CASE ~ Fits(8) /\ ~ Fits(4) /\ ~ Fits(2)
    BY <2>4 DEF Widths
  <2> QED
    BY <2>1, <2>2, <2>3, <2>4
<1>2. Width = CHOOSE w \in Widths : Good(w)
  BY DEF Width
<1>3. Width \in Widths /\ Good(Width)
  BY <1>1, <1>2
<1>4. Width \in Nat
  BY <1>3 DEF Widths
<1>5. pos + Width <= End
  BY <1>3, <1>4 DEF Fits
<1> QED
  BY <1>3, <1>4, <1>5

\* Bytes may go up to the next reference.
LEMMA EndFacts ==
    ASSUME Given, t \in 1 .. Len(tables), Body, pos < Size(Here),
           \A r \in Left : IsNext(r) => r.offset # pos
    PROVE  /\ End \in Nat /\ pos < End /\ End <= Size(Here)
           /\ \A q \in Left : End <= q.offset
<1>1. pos \in Nat /\ \A r \in Left : pos <= r.offset
  BY DEF Body, Ahead
<1>2. Left \subseteq Here.relocs
  BY DEF Left
<1>3. Size(Here) \in Nat /\ \A r \in Left : r.offset \in Nat /\ r.offset <= Size(Here)
  BY <1>2, HereFacts
<1>4. CASE Left = {}
  <2>1. End = Size(Here)
    BY <1>4 DEF End
  <2> QED
    BY <1>1, <1>3, <1>4, <2>1
<1>5. CASE Left # {}
  <2> DEFINE Offsets == {r.offset : r \in Left}
  <2>1. Offsets \subseteq Nat /\ Offsets # {}
    BY <1>3, <1>5
  <2>2. PICK m \in Offsets : \A y \in Offsets : m <= y
    BY <2>1, LeastNatural
  <2>3. PICK r \in Left : r.offset = m
    BY <2>2
  <2>4. IsNext(r)
    BY <2>2, <2>3 DEF IsNext
  <2>5. r.offset > pos
    BY <1>1, <1>3, <2>4
  <2> DEFINE c == CHOOSE q \in Left : IsNext(q)
  <2>6. c \in Left /\ IsNext(c)
    BY <2>4
  <2>7. End = c.offset
    BY <2>4, <2>5 DEF End
  <2>8. \A q \in Left : c.offset <= q.offset
    BY <2>6 DEF IsNext
  <2>9. c.offset # pos
    BY <2>6
  <2> HIDE DEF c
  <2> QED
    BY <1>1, <1>3, <2>6, <2>7, <2>8, <2>9
<1> QED
  BY <1>4, <1>5

-----------------------------------------------------------------------------
(***************************************************************************)
(* The steps.                                                              *)
(***************************************************************************)
\* One more line, which holds, keeps the lines in a row.
LEMMA EmitFacts ==
    ASSUME Body, NEW w \in Nat, NEW b, NEW r, NEW target,
           Emit(w, b, r, target),
           LineHolds(Here, [pos |-> pos, width |-> w, bytes |-> b, reloc |-> r, target |-> target])
    PROVE  /\ Here' = Here
           /\ pos' = pos + w
           /\ \E S : lines' \in Seq(S)
           /\ Following'
           /\ Left' = Left \ {r}
<1> DEFINE e == [pos |-> pos, width |-> w, bytes |-> b, reloc |-> r, target |-> target]
<1>1. lines' = Append(lines, e) /\ pos' = pos + w /\ Here' = Here
  BY DEF Emit, Here
<1>2. e.pos = pos /\ e.width = w /\ e.reloc = r /\ LineHolds(Here, e)
  OBVIOUS
<1> HIDE DEF e
<1>3. PICK S : lines \in Seq(S)
  BY DEF Body
<1> DEFINE n == Len(lines)
<1>4. /\ lines' \in Seq(S \cup {e})
      /\ n \in Nat /\ Len(lines') = n + 1
      /\ DOMAIN lines = 1 .. n /\ DOMAIN lines' = 1 .. n + 1
      /\ \A k \in 1 .. n : lines'[k] = lines[k]
      /\ lines'[n + 1] = e
      /\ lines' # <<>>
  BY <1>1, <1>3, AppendFacts
<1>5. lines = <<>> <=> n = 0
  BY <1>3
<1> HIDE DEF n
<1>6. \A k \in DOMAIN lines' : LineHolds(Here, lines'[k])
  <2> SUFFICES ASSUME NEW k \in 1 .. n + 1 PROVE LineHolds(Here, lines'[k])
    BY <1>4
  <2>1. CASE k \in 1 .. n
    BY <1>4, <2>1 DEF Body, Following
  <2>2. CASE k = n + 1
    BY <1>2, <1>4, <2>2
  <2> QED
    BY <1>4, <2>1, <2>2
<1>7. \A k \in DOMAIN lines' :
        lines'[k].pos = IF k = 1 THEN 0 ELSE lines'[k - 1].pos + lines'[k - 1].width
  <2> SUFFICES ASSUME NEW k \in 1 .. n + 1
               PROVE  lines'[k].pos = IF k = 1 THEN 0 ELSE lines'[k - 1].pos + lines'[k - 1].width
    BY <1>4
  <2>1. CASE k \in 1 .. n
    <3>1. lines'[k] = lines[k] /\ (k # 1 => lines'[k - 1] = lines[k - 1])
      BY <1>4, <2>1
    <3>2. lines[k].pos = IF k = 1 THEN 0 ELSE lines[k - 1].pos + lines[k - 1].width
      BY <1>4, <2>1 DEF Body, Following
    <3> QED
      BY <3>1, <3>2
  <2>2. CASE k = n + 1
    <3>1. lines'[k].pos = pos
      BY <1>2, <1>4, <2>2
    <3>2. CASE n = 0
      BY <1>5, <2>2, <3>1, <3>2 DEF Body, Following
    <3>3. CASE n # 0
      <4>1. pos = lines[n].pos + lines[n].width
        BY <1>5, <3>3 DEF Body, Following, n
      <4>2. lines'[k - 1] = lines[n] /\ k # 1
        BY <1>4, <2>2, <3>3
      <4> QED
        BY <3>1, <4>1, <4>2
    <3> QED
      BY <3>2, <3>3
  <2> QED
    BY <1>4, <2>1, <2>2
<1>8. pos' = lines'[Len(lines')].pos + lines'[Len(lines')].width
  BY <1>1, <1>2, <1>4
<1>9. Following'
  BY <1>1, <1>4, <1>6, <1>7, <1>8 DEF Following
<1>10. Left' = Left \ {r}
  <2>1. Left' = {q \in Here.relocs : \A k \in 1 .. n + 1 : lines'[k].reloc # q}
    BY <1>1, <1>4 DEF Left
  <2>2. Left = {q \in Here.relocs : \A k \in 1 .. n : lines[k].reloc # q}
    BY <1>4 DEF Left
  <2>3. ASSUME NEW q
        PROVE  (\A k \in 1 .. n + 1 : lines'[k].reloc # q)
                 <=> (\A k \in 1 .. n : lines[k].reloc # q) /\ q # r
    <3>1. \A k \in 1 .. n + 1 : k \in 1 .. n \/ k = n + 1
      BY <1>4
    <3>2. 1 .. n \subseteq 1 .. n + 1 /\ n + 1 \in 1 .. n + 1
      BY <1>4
    <3> QED
      BY <1>2, <1>4, <3>1, <3>2
  <2> QED
    BY <2>1, <2>2, <2>3
<1> QED
  BY <1>1, <1>4, <1>9, <1>10

LEMMA EmitRelocKeeps ==
    ASSUME IInv, EmitReloc
    PROVE  IInv'
<1>1. t \in 1 .. Len(tables) /\ Given /\ Body /\ pos \in Nat
  <2>1. Len(tables) \in Nat
    BY DEF IInv, Given
  <2> QED
    BY <2>1 DEF IInv, EmitReloc, Emitting, Body
<1>2. PICK r \in Left : /\ IsNext(r) /\ r.offset = pos
                       /\ \E target \in Targets(r) : Emit(r.width, <<>>, r, target)
  BY DEF EmitReloc
<1>2a. PICK target \in Targets(r) : Emit(r.width, <<>>, r, target)
  BY <1>2
<1>3. r \in Here.relocs /\ r.width = 8 /\ r.offset + 8 <= Size(Here) /\ Size(Here) \in Nat
  <2>1. r \in Here.relocs
    BY DEF Left
  <2> QED
    BY <1>1, <2>1, HereFacts
<1> DEFINE e == [pos |-> pos, width |-> 8, bytes |-> <<>>, reloc |-> r, target |-> target]
<1>4. LineHolds(Here, e)
  BY <1>2, <1>3 DEF LineHolds
<1>5. Emit(8, <<>>, r, target)
  BY <1>2a, <1>3
<1>6. /\ Here' = Here /\ pos' = pos + 8 /\ Left' = Left \ {r}
      /\ (\E S : lines' \in Seq(S)) /\ Following'
  BY <1>1, <1>4, <1>5, EmitFacts
<1>7. Ahead'
  <2>1. ASSUME NEW q \in Left' PROVE pos' <= q.offset
    <3>1. q \in Left /\ q # r /\ q \in Here.relocs
      BY <1>6 DEF Left
    <3>2. q.offset \in Nat /\ (r.offset + 8 <= q.offset \/ q.offset + 8 <= r.offset)
      BY <1>1, <1>3, <3>1, HereFacts
    <3>3. r.offset <= q.offset
      BY <1>2, <3>1 DEF IsNext
    <3> QED
      BY <1>1, <1>2, <1>6, <3>2, <3>3
  <2>2. ASSUME NEW q \in Here.relocs \ Left' PROVE q.offset + q.width <= pos'
    <3>1. q.offset \in Nat /\ q.width = 8
      BY <1>1, HereFacts
    <3>2. CASE q = r
      BY <1>1, <1>2, <1>6, <3>1, <3>2
    <3>3. CASE q # r
      <4>1. q \in Here.relocs \ Left
        BY <1>6, <3>3
      <4>2. q.offset + q.width <= pos
        BY <1>1, <4>1 DEF Body, Ahead
      <4> QED
        BY <1>1, <1>6, <3>1, <4>2
    <3> QED
      BY <3>2, <3>3
  <2> QED
    BY <1>6, <2>1, <2>2 DEF Ahead
<1>8. Body'
  BY <1>1, <1>2, <1>3, <1>6, <1>7 DEF Body
<1>9. tables' = tables /\ t' = t
  BY <1>5 DEF Emit
<1> QED
  BY <1>1, <1>8, <1>9 DEF IInv, Given

LEMMA EmitBytesKeeps ==
    ASSUME IInv, EmitBytes
    PROVE  IInv'
<1>1. t \in 1 .. Len(tables) /\ Given /\ Body /\ pos \in Nat /\ pos < Size(Here)
  <2>1. Len(tables) \in Nat
    BY DEF IInv, Given
  <2> QED
    BY <2>1 DEF IInv, EmitBytes, Emitting, Body
<1>2. \A r \in Left : IsNext(r) => r.offset # pos
  BY DEF EmitBytes
<1>3. End \in Nat /\ pos < End /\ End <= Size(Here) /\ \A q \in Left : End <= q.offset
  BY <1>1, <1>2, EndFacts
<1> DEFINE w == Width
           b == [k \in 1 .. w |-> Padded(Here, pos + k - 1)]
           e == [pos |-> pos, width |-> w, bytes |-> b, reloc |-> NoReloc, target |-> {}]
<1>4. w \in Widths /\ w \in Nat /\ pos + w <= End
  BY <1>1, <1>3, WidthFacts
<1>5. Emit(w, b, NoReloc, {})
  BY DEF EmitBytes
<1>6. Size(Here) \in Nat
  BY <1>1, HereFacts
<1> HIDE DEF w
<1>7. NoReloc \notin Here.relocs
  <2>1. \A r \in Here.relocs : r.width = 8
    BY <1>1, HereFacts
  <2>2. NoReloc.width = 0
    BY DEF NoReloc
  <2> QED
    BY <2>1, <2>2
<1>8. \A k \in 1 .. w : Padded(Here, pos + k - 1) \in Byte
  <2> SUFFICES ASSUME NEW k \in 1 .. w PROVE Padded(Here, pos + k - 1) \in Byte
    OBVIOUS
  <2>1. Here.data \in Seq(Byte) /\ Len(Here.data) \in Nat
    BY <1>1, HereFacts
  <2>2. pos + k - 1 \in Nat
    BY <1>1, <1>4
  <2>3. CASE pos + k - 1 < Len(Here.data)
    <3>1. (pos + k - 1) + 1 \in 1 .. Len(Here.data)
      BY <2>1, <2>2, <2>3
    <3> QED
      BY <2>1, <2>3, <3>1 DEF Padded
  <2>4. CASE ~ (pos + k - 1 < Len(Here.data))
    BY <2>4 DEF Padded, Byte
  <2> QED
    BY <2>3, <2>4
<1>9. b \in Seq(Byte) /\ Len(b) = w /\ \A k \in 1 .. w : b[k] = Padded(Here, pos + k - 1)
  BY <1>4, <1>8
<1>10. \A r \in Here.relocs : r.offset + r.width <= pos \/ pos + w <= r.offset
  <2> SUFFICES ASSUME NEW r \in Here.relocs
               PROVE  r.offset + r.width <= pos \/ pos + w <= r.offset
    OBVIOUS
  <2>1. r.offset \in Nat
    BY <1>1, HereFacts
  <2>2. CASE r \in Left
    BY <1>1, <1>3, <1>4, <2>1, <2>2
  <2>3. CASE r \notin Left
    BY <1>1, <2>3 DEF Body, Ahead
  <2> QED
    BY <2>2, <2>3
<1> HIDE DEF b
<1>11. LineHolds(Here, e)
  <2>1. e.pos = pos /\ e.width = w /\ e.bytes = b /\ e.reloc = NoReloc
    OBVIOUS
  <2> HIDE DEF e
  <2> QED
    BY <1>4, <1>7, <1>9, <1>10, <2>1 DEF LineHolds
<1>12. /\ Here' = Here /\ pos' = pos + w /\ Left' = Left \ {NoReloc}
       /\ (\E S : lines' \in Seq(S)) /\ Following'
  BY <1>1, <1>4, <1>5, <1>11, EmitFacts
<1>13. Left' = Left
  BY <1>7, <1>12 DEF Left
<1>14. Ahead'
  <2>1. ASSUME NEW q \in Left PROVE pos' <= q.offset
    <3>1. q.offset \in Nat
      BY <1>1, HereFacts DEF Left
    <3> QED
      BY <1>1, <1>3, <1>4, <1>12, <3>1
  <2>2. ASSUME NEW q \in Here.relocs \ Left PROVE q.offset + q.width <= pos'
    <3>1. q.offset \in Nat /\ q.width = 8
      BY <1>1, HereFacts
    <3>2. q.offset + q.width <= pos
      BY <1>1 DEF Body, Ahead
    <3> QED
      BY <1>1, <1>4, <1>12, <3>1, <3>2
  <2> QED
    BY <1>12, <1>13, <2>1, <2>2 DEF Ahead
<1>15. pos' \in Nat /\ pos' <= Size(Here')
  BY <1>1, <1>3, <1>4, <1>6, <1>12
<1>16. Body'
  BY <1>12, <1>14, <1>15 DEF Body
<1>17. tables' = tables /\ t' = t
  BY <1>5 DEF Emit
<1> QED
  BY <1>1, <1>16, <1>17 DEF IInv, Given

\* A table begins with all its references ahead.
LEMMA StartFacts ==
    ASSUME Given, t \in 1 .. Len(tables) + 1, pos = 0, lines = <<>>
    PROVE  IInv
<1>1. Len(tables) \in Nat
  BY DEF Given
<1>2. ASSUME t <= Len(tables) PROVE Body
  <2>1. t \in 1 .. Len(tables)
    BY <1>1, <1>2
  <2>2. Size(Here) \in Nat /\ \A r \in Here.relocs : r.offset \in Nat
    BY <2>1, HereFacts
  <2>3. Left = Here.relocs
    BY DEF Left
  <2>4. lines \in Seq({})
    OBVIOUS
  <2>5. Following
    BY DEF Following
  <2>6. Ahead
    BY <2>2, <2>3 DEF Ahead
  <2> QED
    BY <2>2, <2>4, <2>5, <2>6 DEF Body
<1> QED
  BY <1>2 DEF IInv

LEMMA EmitGloblKeeps ==
    ASSUME IInv, EmitGlobl
    PROVE  IInv'
<1>1. Given' /\ Len(tables) \in Nat /\ tables' = tables
  BY DEF IInv, Given, EmitGlobl
<1>2. t' \in 1 .. Len(tables') + 1 /\ pos' = 0 /\ lines' = <<>>
  BY <1>1 DEF IInv, EmitGlobl
<1>3. (Given /\ t \in 1 .. Len(tables) + 1 /\ pos = 0 /\ lines = <<>> => IInv)'
  BY StartFacts, PTL
<1> QED
  BY <1>1, <1>2, <1>3

-----------------------------------------------------------------------------
\* The strengthened invariant of EmitTables holds throughout.
THEOREM Invariance == LinesSpec => []IInv
<1>1. LinesInit => IInv
  <2> SUFFICES ASSUME LinesInit PROVE IInv
    OBVIOUS
  <2>1. Given /\ Len(tables) \in Nat
    BY DEF LinesInit, Given
  <2>2. t \in 1 .. Len(tables) + 1 /\ pos = 0 /\ lines = <<>>
    BY <2>1 DEF LinesInit
  <2> QED
    BY <2>1, <2>2, StartFacts
<1>2. IInv /\ [EmitNext]_<<tables, emission>> => IInv'
  <2> SUFFICES ASSUME IInv, [EmitNext]_<<tables, emission>> PROVE IInv'
    OBVIOUS
  <2>1. CASE EmitReloc
    BY <2>1, EmitRelocKeeps
  <2>2. CASE EmitBytes
    BY <2>2, EmitBytesKeeps
  <2>3. CASE EmitGlobl
    BY <2>3, EmitGloblKeeps
  <2>4. CASE UNCHANGED <<tables, emission>>
    <3>1. tables' = tables /\ t' = t /\ pos' = pos /\ lines' = lines
      BY <2>4 DEF emission
    <3> QED
      BY <3>1 DEF IInv, Given, Body, Following, Ahead, Left, Here
  <2> QED
    BY <2>1, <2>2, <2>3, <2>4 DEF EmitNext
<1> QED
  BY <1>1, <1>2, PTL DEF LinesSpec

\* The invariant says of the lines what Tiled says.
LEMMA InvariantTiles == IInv => Tiled
<1> SUFFICES ASSUME IInv, t <= Len(tables)
             PROVE  Following /\ pos <= Size(Here) /\ (pos = Size(Here) => Left = {})
  BY DEF Tiled, Following
<1>1. t \in 1 .. Len(tables) /\ Given /\ Body
  <2>1. Len(tables) \in Nat
    BY DEF IInv, Given
  <2> QED
    BY <2>1 DEF IInv
<1>2. ASSUME pos = Size(Here), NEW r \in Left PROVE FALSE
  <2>1. /\ r.offset \in Nat /\ r.offset + 8 <= Len(Here.data) /\ Len(Here.data) \in Nat
        /\ Size(Here) \in Nat /\ Len(Here.data) <= Size(Here)
    BY <1>1, HereFacts DEF Left
  <2>2. pos <= r.offset
    BY <1>1 DEF Body, Ahead
  <2> QED
    BY <1>2, <2>1, <2>2
<1> QED
  BY <1>1, <1>2 DEF Body

\* The lines of every table tile it: they follow each other from 0 to its
\* padded size, each reference has a line of its own at its place, and every
\* other byte is written once with its value.  EmitTables loses no reference.
THEOREM TablesTiled == LinesSpec => []Tiled
  BY InvariantTiles, Invariance, PTL
=============================================================================
