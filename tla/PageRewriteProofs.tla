--------------------------- MODULE PageRewriteProofs ---------------------------
(***************************************************************************)
(* Proofs about PageRewrite for every function body, whatever its length,  *)
(* shape and symbols: types, the in-place compaction, control flow, the    *)
(* refusal of unknown symbols, and the addresses that accesses reach.      *)
(***************************************************************************)
EXTENDS PageRewrite, NumberLemmas, TLAPS

Compacting == {"pairs", "loads", "bases"}

\* What a rewriting of the lines not yet read may change.
SameControl(old, new) ==
    /\ new \in Seq(Node) /\ Len(new) = Len(old)
    /\ \A k \in DOMAIN old :
          /\ new[k].line = old[k].line
          /\ Control(old[k]) \/ Control(new[k]) => new[k] = old[k]

\* The control nodes of nodes are lines of the program.
Genuine(nodes) ==
    \A k \in DOMAIN nodes :
        Control(nodes[k]) => nodes[k].line \in DOMAIN program /\ nodes[k] = program[nodes[k].line]

(***************************************************************************)
(* The inductive invariant.  While a pass compacts, what it has kept and   *)
(* what it has still to read together hold the control nodes, in order.    *)
(***************************************************************************)
Order ==
    /\ InOrder(body)
    /\ phase \in Compacting =>
        /\ InOrder(out)
        /\ \A k \in DOMAIN out : \A l \in i .. Len(body) : out[k].line < body[l].line

NothingLost ==
    \A k \in DOMAIN program : Control(program[k]) =>
        /\ phase \in Compacting =>
              \/ \E l \in DOMAIN out : out[l] = program[k]
              \/ \E l \in i .. Len(body) : body[l] = program[k]
        /\ phase \notin Compacting \cup {"failed"} => \E l \in DOMAIN body : body[l] = program[k]

NothingMadeUp ==
    /\ Genuine(body)
    /\ phase \in Compacting => Genuine(out)

IInv == TypeOK /\ OutBehind /\ Order /\ NothingLost /\ NothingMadeUp

-----------------------------------------------------------------------------
(***************************************************************************)
(* Lemmas about the operators.                                             *)
(***************************************************************************)

\* The positions of a concatenation.
LEMMA Appended ==
    ASSUME NEW s \in Seq(Node), NEW t \in Seq(Node)
    PROVE  /\ s \o t \in Seq(Node)
           /\ Len(s \o t) = Len(s) + Len(t)
           /\ \A k \in 1 .. Len(s) : (s \o t)[k] = s[k]
           /\ \A k \in 1 .. Len(t) : (s \o t)[Len(s) + k] = t[k]
           /\ \A k \in DOMAIN (s \o t) :
                 k \in DOMAIN s \/ (k > Len(s) /\ k - Len(s) \in DOMAIN t /\ (s \o t)[k] = t[k - Len(s)])
OBVIOUS

\* A sequence rewritten position by position.
LEMMA SameLength ==
    ASSUME NEW s \in Seq(Node), NEW t, DOMAIN t = DOMAIN s, t = [j \in DOMAIN s |-> t[j]],
           \A j \in DOMAIN s : t[j] \in Node
    PROVE  t \in Seq(Node) /\ Len(t) = Len(s)
<1>1. Len(s) \in Nat /\ DOMAIN s = 1 .. Len(s)
    OBVIOUS
<1>2. t \in [1 .. Len(s) -> Node]
    BY <1>1
<1> QED BY <1>1, <1>2

\* nextInst answers 0 or a position at or after start that holds an instruction,
\* with nothing but the linker's labels before it.
LEMMA NextInstFound ==
    ASSUME NEW start \in Nat, NextInst(start) # 0
    PROVE  /\ NextInst(start) \in start .. Len(body)
           /\ IsInst(body[NextInst(start)])
           /\ \A k \in start .. NextInst(start) - 1 : body[k].op = "lloh"
<1> DEFINE next == {j \in start .. Len(body) :
                        IsInst(body[j]) /\ \A k \in start .. j - 1 : body[k].op = "lloh"}
<1>1. NextInst(start) = IF next = {} THEN 0 ELSE CHOOSE j \in next : TRUE
    BY DEF NextInst
<1>2. NextInst(start) \in next
    BY <1>1
<1> QED BY <1>2

LEMMA FieldTypes ==
    ASSUME NEW n \in Node
    PROVE  /\ n.dst \in Reg \cup {NoReg} /\ n.sym \in Sym \cup {NoSym}
           /\ n.off \in 0 .. MaxOff /\ n.line \in Nat \ {0}
BY DEF Node, Fields

\* An address load is a node, and no control node.
LEMMA AddressNode ==
    ASSUME NEW dst \in Reg \cup {NoReg}, NEW sym \in Sym \cup {NoSym}, NEW off \in 0 .. MaxOff,
           NEW line \in Nat \ {0}
    PROVE  /\ Address(dst, sym, off, line) \in Node
           /\ ~ Control(Address(dst, sym, off, line))
           /\ Address(dst, sym, off, line).line = line
BY DEF Address, Node, Fields, Op, Control

\* Removing the symbol of an operand leaves the rest.
LEMMA NumberedNode ==
    ASSUME NEW n \in Node
    PROVE  Numbered(n) \in Node /\ Numbered(n).line = n.line /\ Numbered(n).op = n.op
BY DEF Numbered, Node, Fields, Op

\* rewritePageBaseUses keeps control nodes and the order of lines.
LEMMA PageUsesControl ==
    ASSUME TypeOK, NEW k, NEW base, NEW sym
    PROVE  SameControl(body, RewritePageUses(k, base, sym))
<1> DEFINE new == RewritePageUses(k, base, sym)
<1>1. ASSUME NEW j \in DOMAIN body
      PROVE  /\ new[j] \in Node /\ new[j].line = body[j].line
             /\ Control(body[j]) \/ Control(new[j]) => new[j] = body[j]
    <2>1. body[j] \in Node
        BY DEF TypeOK
    <2>2. CASE j \in PageUses(k, base, sym)
        <3>1. new[j] = Numbered(body[j])
            BY <2>2 DEF RewritePageUses
        <3>2. body[j].op \in {"load", "gotload", "add"}
            BY <2>2 DEF PageUses
        <3> QED BY <2>1, <3>1, <3>2, NumberedNode DEF Control
    <2>3. CASE j \notin PageUses(k, base, sym)
        BY <2>1, <2>3 DEF RewritePageUses
    <2> QED BY <2>2, <2>3
<1>2. DOMAIN new = DOMAIN body /\ body \in Seq(Node)
    BY DEF RewritePageUses, TypeOK
<1>3. new = [j \in DOMAIN body |-> new[j]]
    BY DEF RewritePageUses
<1> HIDE DEF new
<1>4. new \in Seq(Node) /\ Len(new) = Len(body)
    BY <1>1, <1>2, <1>3, SameLength
<1> QED BY <1>1, <1>4 DEF SameControl, new

\* So does rewriteRemainingGOTPageUses.
LEMMA GOTUsesControl ==
    ASSUME TypeOK, NEW k, NEW base, NEW sym \in Sym, NEW off \in 0 .. MaxOff
    PROVE  SameControl(body, RewriteGOTUses(k, base, sym, off))
<1> DEFINE new == RewriteGOTUses(k, base, sym, off)
<1>1. ASSUME NEW j \in DOMAIN body
      PROVE  /\ new[j] \in Node /\ new[j].line = body[j].line
             /\ Control(body[j]) \/ Control(new[j]) => new[j] = body[j]
    <2>1. /\ body[j] \in Node
          /\ body[j].dst \in Reg \cup {NoReg} /\ body[j].line \in Nat \ {0}
        BY DEF TypeOK, Node, Fields
    <2>2. CASE j \in GOTUses(k, base, sym)
        <3>1. new[j] = Address(body[j].dst, sym, off, body[j].line)
            BY <2>2 DEF RewriteGOTUses
        <3>2. body[j].op \in {"load", "gotload"}
            BY <2>2 DEF GOTUses
        <3> QED BY <2>1, <3>1, <3>2, AddressNode DEF Control
    <2>3. CASE j \notin GOTUses(k, base, sym)
        BY <2>1, <2>3 DEF RewriteGOTUses
    <2> QED BY <2>2, <2>3
<1>2. DOMAIN new = DOMAIN body /\ body \in Seq(Node)
    BY DEF RewriteGOTUses, TypeOK
<1>3. new = [j \in DOMAIN body |-> new[j]]
    BY DEF RewriteGOTUses
<1> HIDE DEF new
<1>4. new \in Seq(Node) /\ Len(new) = Len(body)
    BY <1>1, <1>2, <1>3, SameLength
<1> QED BY <1>1, <1>4 DEF SameControl, new

-----------------------------------------------------------------------------
(***************************************************************************)
(* A step of a compacting pass reads the positions i .. next - 1, keeps    *)
(* nodes in their place, and may rewrite what it has not read.             *)
(***************************************************************************)
LEMMA Compacted ==
    ASSUME IInv, phase \in Compacting, i \in 1 .. Len(body),
           NEW nodes \in Seq(Node), NEW next \in i + 1 .. Len(body) + 1,
           Keep(nodes, next), SameControl(body, body'),
           Len(nodes) <= next - i,
           InOrder(nodes), Genuine(nodes),
           \A k \in DOMAIN nodes : \E l \in i .. next - 1 : nodes[k].line = body[l].line,
           \A l \in i .. next - 1 : Control(body[l]) => \E k \in DOMAIN nodes : nodes[k] = body[l]
    PROVE  IInv'
<1>1. /\ body \in Seq(Node) /\ out \in Seq(Node) /\ program \in Seq(Node)
      /\ Len(body) \in Nat /\ Len(out) \in Nat /\ Len(nodes) \in Nat
      /\ DOMAIN body = 1 .. Len(body)
    BY DEF IInv, TypeOK
<1>2. /\ out' = out \o nodes /\ i' = next
      /\ UNCHANGED <<program, phase, pc, before, after>>
    BY DEF Keep, execution
<1>3. /\ body' \in Seq(Node) /\ Len(body') = Len(body) /\ DOMAIN body' = DOMAIN body
      /\ \A k \in DOMAIN body : /\ body'[k].line = body[k].line
                                /\ Control(body[k]) \/ Control(body'[k]) => body'[k] = body[k]
    BY <1>1 DEF SameControl
<1>4. /\ out' \in Seq(Node) /\ Len(out') = Len(out) + Len(nodes)
      /\ \A k \in DOMAIN out : k \in DOMAIN out' /\ out'[k] = out[k]
      /\ \A k \in DOMAIN nodes : Len(out) + k \in DOMAIN out' /\ out'[Len(out) + k] = nodes[k]
      /\ \A k \in DOMAIN out' :
            \/ k \in DOMAIN out /\ out'[k] = out[k]
            \/ k > Len(out) /\ k - Len(out) \in DOMAIN nodes /\ out'[k] = nodes[k - Len(out)]
    BY <1>1, <1>2, Appended, SMTT(40)
<1>5. \A k \in DOMAIN body : body[k].line \in Nat
    BY <1>1, SMTT(40) DEF Node, Fields
<1>6. TypeOK'
    BY <1>1, <1>2, <1>3, <1>4 DEF IInv, TypeOK
<1>7. OutBehind'
    BY <1>1, <1>2, <1>4 DEF IInv, OutBehind, Compacting
<1>8. Order'
    <2>1. InOrder(body')
        BY <1>3 DEF IInv, Order, InOrder
    <2>2. \A k \in DOMAIN nodes : \A l \in next .. Len(body) : nodes[k].line < body[l].line
        <3> SUFFICES ASSUME NEW k \in DOMAIN nodes, NEW l \in next .. Len(body)
                     PROVE  nodes[k].line < body[l].line
            OBVIOUS
        <3>1. PICK m \in i .. next - 1 : nodes[k].line = body[m].line
            OBVIOUS
        <3>2. m \in DOMAIN body /\ l \in DOMAIN body /\ m < l
            BY <1>1
        <3> QED BY <3>1, <3>2 DEF IInv, Order, InOrder
    <2>3. \A k \in DOMAIN out : \A l \in i .. Len(body) : out[k].line < body[l].line
        BY DEF IInv, Order
    <2>4. \A k \in DOMAIN out : \A l \in DOMAIN nodes : out[k].line < nodes[l].line
        BY <1>1, <2>3
    <2>5. InOrder(out')
        <3> SUFFICES ASSUME NEW k \in DOMAIN out', NEW l \in DOMAIN out', k < l
                     PROVE  out'[k].line < out'[l].line
            BY DEF InOrder
        <3>1. CASE l \in DOMAIN out /\ out'[l] = out[l]
            <4>1. k \in DOMAIN out
                BY <1>1, <1>4, <3>1
            <4> QED BY <1>4, <3>1, <4>1 DEF IInv, Order, InOrder
        <3>2. CASE l > Len(out) /\ l - Len(out) \in DOMAIN nodes /\ out'[l] = nodes[l - Len(out)]
            <4>1. CASE k \in DOMAIN out /\ out'[k] = out[k]
                BY <2>4, <3>2, <4>1
            <4>2. CASE k > Len(out) /\ k - Len(out) \in DOMAIN nodes /\ out'[k] = nodes[k - Len(out)]
                <5>1. k - Len(out) < l - Len(out)
                    BY <1>1, <1>4
                <5> QED BY <3>2, <4>2, <5>1 DEF InOrder
            <4> QED BY <1>4, <4>1, <4>2
        <3> QED BY <1>4, <3>1, <3>2
    <2>6. \A k \in DOMAIN out' : \A l \in next .. Len(body) : out'[k].line < body[l].line
        <3> SUFFICES ASSUME NEW k \in DOMAIN out', NEW l \in next .. Len(body)
                     PROVE  out'[k].line < body[l].line
            OBVIOUS
        <3>1. l \in i .. Len(body)
            BY <1>1
        <3>2. CASE k \in DOMAIN out /\ out'[k] = out[k]
            BY <2>3, <3>1, <3>2
        <3>3. CASE k > Len(out) /\ k - Len(out) \in DOMAIN nodes /\ out'[k] = nodes[k - Len(out)]
            BY <2>2, <3>3
        <3> QED BY <1>4, <3>2, <3>3
    <2>7. \A k \in DOMAIN out' : \A l \in next .. Len(body') : out'[k].line < body'[l].line
        <3>1. \A l \in next .. Len(body) : l \in DOMAIN body
            BY <1>1
        <3> QED BY <1>3, <2>6, <3>1
    <2> QED BY <1>2, <2>1, <2>5, <2>7 DEF Order
<1>9. NothingLost'
    <2> SUFFICES ASSUME NEW k \in DOMAIN program, Control(program[k])
                 PROVE  \/ \E l \in DOMAIN out' : out'[l] = program[k]
                        \/ \E l \in next .. Len(body') : body'[l] = program[k]
        BY <1>2 DEF NothingLost, Control
    <2>1. CASE \E l \in DOMAIN out : out[l] = program[k]
        BY <1>4, <2>1
    <2>2. CASE \E l \in i .. Len(body) : body[l] = program[k]
        <3>1. PICK l \in i .. Len(body) : body[l] = program[k]
            BY <2>2
        <3>2. CASE l < next
            <4>1. PICK m \in DOMAIN nodes : nodes[m] = body[l]
                BY <1>1, <3>1, <3>2
            <4> QED BY <1>4, <3>1, <4>1
        <3>3. CASE l >= next
            <4>1. l \in DOMAIN body /\ l \in next .. Len(body')
                BY <1>1, <1>3, <3>3
            <4>2. body'[l] = body[l]
                BY <1>3, <3>1, <4>1
            <4> QED BY <3>1, <4>1, <4>2
        <3> QED BY <1>1, <3>2, <3>3
    <2> QED BY <2>1, <2>2 DEF IInv, NothingLost
<1>10. NothingMadeUp'
    <2>1. Genuine(body)'
        BY <1>2, <1>3 DEF IInv, NothingMadeUp, Genuine, Control
    <2>2. Genuine(out)'
        <3> SUFFICES ASSUME NEW k \in DOMAIN out', Control(out'[k])
                     PROVE  out'[k].line \in DOMAIN program /\ out'[k] = program[out'[k].line]
            BY <1>2 DEF Genuine, Control
        <3>1. Genuine(out)
            BY DEF IInv, NothingMadeUp
        <3> QED BY <1>4, <3>1 DEF Genuine
    <2> QED BY <2>1, <2>2 DEF NothingMadeUp
<1> QED BY <1>6, <1>7, <1>8, <1>9, <1>10 DEF IInv

\* A node kept as it is.
LEMMA Kept ==
    ASSUME IInv, phase \in Compacting, i \in 1 .. Len(body),
           Keep(<<Here>>, i + 1), UNCHANGED body
    PROVE  IInv'
<1>1. /\ body \in Seq(Node) /\ Len(body) \in Nat /\ DOMAIN body = 1 .. Len(body)
      /\ Here \in Node
    BY DEF IInv, TypeOK, Here
<1>2. /\ <<Here>> \in Seq(Node) /\ Len(<<Here>>) = 1 /\ DOMAIN <<Here>> = {1} /\ <<Here>>[1] = Here
    BY <1>1
<1>3. SameControl(body, body')
    BY <1>1 DEF SameControl
<1>4. InOrder(<<Here>>)
    BY <1>2 DEF InOrder
<1>5. Genuine(<<Here>>)
    BY <1>1, <1>2 DEF IInv, NothingMadeUp, Genuine, Here
<1>6. i + 1 \in i + 1 .. Len(body) + 1 /\ Len(<<Here>>) <= (i + 1) - i
    BY <1>1, <1>2
<1>7. \A k \in DOMAIN <<Here>> : \E l \in i .. (i + 1) - 1 : <<Here>>[k].line = body[l].line
    BY <1>1, <1>2 DEF Here
<1>8. \A l \in i .. (i + 1) - 1 : Control(body[l]) => \E k \in DOMAIN <<Here>> : <<Here>>[k] = body[l]
    BY <1>1, <1>2 DEF Here
<1> QED BY <1>2, <1>3, <1>4, <1>5, <1>6, <1>7, <1>8, Compacted

\* Between an ADRP and the partner that nextInst finds there is no control node.
LEMMA Pair ==
    ASSUME TypeOK, i \in 1 .. Len(body), IsAdrp(Here), NEW j, j = NextInst(i + 1), j # 0,
           body[j].op \in {"add", "load", "gotload"}
    PROVE  /\ j \in i + 1 .. Len(body)
           /\ Resume(j) \in i + 1 .. Len(body) + 1 /\ Resume(j) - 1 = j
           /\ \A l \in i .. j : ~ Control(body[l])
           /\ Here \in Node /\ body[j] \in Node
           /\ Here.line = body[i].line
<1>1. i + 1 \in Nat /\ Len(body) \in Nat /\ DOMAIN body = 1 .. Len(body) /\ body \in Seq(Node)
    BY DEF TypeOK
<1>2. j \in i + 1 .. Len(body) /\ \A k \in i + 1 .. j - 1 : body[k].op = "lloh"
    BY <1>1, NextInstFound
<1>3. Here \in Node /\ body[j] \in Node /\ Here = body[i]
    BY <1>1, <1>2 DEF Here
<1>4. ASSUME NEW l \in i .. j PROVE ~ Control(body[l])
    <2>1. l = i \/ l \in i + 1 .. j - 1 \/ l = j
        BY <1>1, <1>2
    <2> QED BY <1>2, <1>3, <2>1 DEF Control, IsAdrp
<1> QED BY <1>1, <1>2, <1>3, <1>4 DEF Resume

\* One address load in the place of all that was read.
LEMMA OneAddress ==
    ASSUME IInv, phase \in Compacting, i \in 1 .. Len(body),
           NEW n \in Node, ~ Control(n), n.line = body[i].line,
           NEW next \in i + 1 .. Len(body) + 1,
           \A l \in i .. next - 1 : ~ Control(body[l]),
           Keep(<<n>>, next), SameControl(body, body')
    PROVE  IInv'
<1>1. Len(body) \in Nat
    BY DEF IInv, TypeOK
<1>2. <<n>> \in Seq(Node) /\ Len(<<n>>) = 1 /\ DOMAIN <<n>> = {1} /\ <<n>>[1] = n
    OBVIOUS
<1>3. InOrder(<<n>>) /\ Genuine(<<n>>)
    BY <1>2 DEF InOrder, Genuine
<1>4. \A k \in DOMAIN <<n>> : \E l \in i .. next - 1 : <<n>>[k].line = body[l].line
    BY <1>1, <1>2
<1>5. Len(<<n>>) <= next - i
    BY <1>1, <1>2
<1> QED BY <1>2, <1>3, <1>4, <1>5, Compacted

\* The conversion fails.
LEMMA Failed ==
    ASSUME IInv, Fail PROVE IInv'
BY DEF IInv, TypeOK, OutBehind, Order, NothingLost, NothingMadeUp, Genuine, InOrder, Control,
       Compacting, Fail, execution

-----------------------------------------------------------------------------
(***************************************************************************)
(* Every step keeps the invariant.                                         *)
(***************************************************************************)

\* rewriteSymbolAddresses
LEMMA PairsStep ==
    ASSUME IInv, RewritePair \/ KeepInPairs PROVE IInv'
<1>1. phase \in Compacting /\ i \in 1 .. Len(body) /\ TypeOK
    BY DEF RewritePair, KeepInPairs, At, Compacting, IInv, TypeOK
<1>2. CASE KeepInPairs
    BY <1>1, <1>2, Kept DEF KeepInPairs
<1>3. CASE RewritePair
    <2> DEFINE j == NextInst(i + 1)
               n == Address(body[j].dst, Here.sym, body[j].off, Here.line)
    <2>1. Pairs(j) /\ \/ Known(Here.sym) /\ Keep(<<n>>, Resume(j)) /\ UNCHANGED body
                      \/ Fail
        BY <1>3 DEF RewritePair
    <2>2. IsAdrp(Here) /\ j # 0 /\ body[j].op = "add"
        BY <2>1 DEF Pairs
    <2> HIDE DEF j
    <2>3. /\ j \in i + 1 .. Len(body)
          /\ Resume(j) \in i + 1 .. Len(body) + 1
          /\ \A l \in i .. Resume(j) - 1 : ~ Control(body[l])
          /\ Here \in Node /\ body[j] \in Node /\ Here.line = body[i].line
        BY <1>1, <2>2, Pair DEF j
    <2>4. n \in Node /\ ~ Control(n) /\ n.line = body[i].line
        <3>1. /\ body[j].dst \in Reg \cup {NoReg} /\ body[j].off \in 0 .. MaxOff
              /\ Here.sym \in Sym \cup {NoSym} /\ Here.line \in Nat \ {0}
            BY <2>3, FieldTypes
        <3> QED BY <2>3, <3>1, AddressNode
    <2> HIDE DEF n
    <2>5. CASE Keep(<<n>>, Resume(j)) /\ UNCHANGED body
        <3>1. SameControl(body, body')
            BY <1>1, <2>5 DEF SameControl, TypeOK
        <3> QED BY <1>1, <2>3, <2>4, <2>5, <3>1, OneAddress
    <2> QED BY <2>1, <2>5, Failed
<1> QED BY <1>2, <1>3

\* rewriteGotLoads: a GOT load
LEMMA GOTLoadStep ==
    ASSUME IInv, RewriteGOTLoad PROVE IInv'
<1>1. phase \in Compacting /\ i \in 1 .. Len(body) /\ TypeOK
    BY DEF RewriteGOTLoad, At, Compacting, IInv, TypeOK
<1> DEFINE j == NextInst(i + 1)
           n == Address(body[j].dst, body[j].sym, body[j].off, Here.line)
<1>2. /\ LoadsThrough(j) /\ body[j].op = "gotload"
      /\ \/ /\ Known(body[j].sym) /\ Keep(<<n>>, Resume(j))
            /\ body' = RewriteGOTUses(j, Here.dst, body[j].sym, body[j].off)
         \/ Fail
    BY DEF RewriteGOTLoad
<1>3. IsAdrp(Here) /\ j # 0
    BY <1>2 DEF LoadsThrough
<1> HIDE DEF j
<1>4. /\ Resume(j) \in i + 1 .. Len(body) + 1
      /\ \A l \in i .. Resume(j) - 1 : ~ Control(body[l])
      /\ Here \in Node /\ body[j] \in Node /\ Here.line = body[i].line
    BY <1>1, <1>2, <1>3, Pair DEF j
<1>5. n \in Node /\ ~ Control(n) /\ n.line = body[i].line
    <2>1. /\ body[j].dst \in Reg \cup {NoReg} /\ body[j].off \in 0 .. MaxOff
          /\ body[j].sym \in Sym \cup {NoSym} /\ Here.line \in Nat \ {0}
        BY <1>4, FieldTypes
    <2> QED BY <1>4, <2>1, AddressNode
<1> HIDE DEF n
<1>6. CASE /\ Known(body[j].sym) /\ Keep(<<n>>, Resume(j))
           /\ body' = RewriteGOTUses(j, Here.dst, body[j].sym, body[j].off)
    <2>1. body[j].sym \in Sym /\ body[j].off \in 0 .. MaxOff
        BY <1>4, <1>6 DEF Known, Sym, Node, Fields
    <2>2. SameControl(body, body')
        BY <1>1, <1>6, <2>1, GOTUsesControl
    <2> QED BY <1>1, <1>4, <1>5, <1>6, <2>2, OneAddress
<1> QED BY <1>2, <1>6, Failed

\* rewriteGotLoads: a load from a table, which is kept behind its base
LEMMA PageLoadStep ==
    ASSUME IInv, RewritePageLoad PROVE IInv'
<1>1. phase \in Compacting /\ i \in 1 .. Len(body) /\ TypeOK /\ Len(body) \in Nat
    BY DEF RewritePageLoad, At, Compacting, IInv, TypeOK
<1> DEFINE j == NextInst(i + 1)
           n == Address(Here.dst, body[j].sym, 0, Here.line)
           m == Numbered(body[j])
           nodes == <<n, m>>
<1>2. /\ LoadsThrough(j) /\ body[j].op = "load"
      /\ Keep(nodes, Resume(j))
      /\ body' = RewritePageUses(j, Here.dst, body[j].sym)
    BY DEF RewritePageLoad
<1>3. IsAdrp(Here) /\ j # 0
    BY <1>2 DEF LoadsThrough
<1> HIDE DEF j
<1>4. /\ Resume(j) \in i + 1 .. Len(body) + 1 /\ Resume(j) - 1 = j
      /\ j \in i + 1 .. Len(body)
      /\ \A l \in i .. j : ~ Control(body[l])
      /\ Here \in Node /\ body[j] \in Node /\ Here.line = body[i].line
    BY <1>1, <1>2, <1>3, Pair DEF j
<1>5. n \in Node /\ ~ Control(n) /\ n.line = body[i].line
    <2>1. 0 \in 0 .. MaxOff
        BY MaxOffAssumption
    <2>2. /\ Here.dst \in Reg \cup {NoReg} /\ Here.line \in Nat \ {0}
          /\ body[j].sym \in Sym \cup {NoSym}
        BY <1>4, FieldTypes
    <2> QED BY <1>4, <2>1, <2>2, AddressNode
<1>6. m \in Node /\ ~ Control(m) /\ m.line = body[j].line
    BY <1>2, <1>4, NumberedNode DEF Control
<1> HIDE DEF n, m
<1>7. nodes \in Seq(Node) /\ Len(nodes) = 2 /\ DOMAIN nodes = {1, 2} /\ nodes[1] = n /\ nodes[2] = m
    BY <1>5, <1>6
<1>8. SameControl(body, body')
    BY <1>1, <1>2, PageUsesControl
<1>9. n.line < m.line
    BY <1>1, <1>4, <1>5, <1>6 DEF IInv, Order, InOrder
<1>10. InOrder(nodes)
    BY <1>7, <1>9 DEF InOrder
<1>11. Genuine(nodes)
    BY <1>5, <1>6, <1>7 DEF Genuine
<1>12. \A k \in DOMAIN nodes : \E l \in i .. Resume(j) - 1 : nodes[k].line = body[l].line
    BY <1>1, <1>4, <1>5, <1>6, <1>7
<1>13. Len(nodes) <= Resume(j) - i
    BY <1>1, <1>4, <1>7
<1> HIDE DEF nodes
<1> QED BY <1>1, <1>2, <1>4, <1>7, <1>8, <1>10, <1>11, <1>12, <1>13, Compacted

\* rewriteRemainingPageBases
LEMMA BasesStep ==
    ASSUME IInv, RejectBase \/ RewriteGOTBase \/ RewritePageBase \/ KeepInBases PROVE IInv'
<1>1. phase \in Compacting /\ i \in 1 .. Len(body) /\ TypeOK /\ Len(body) \in Nat
    BY DEF RejectBase, RewriteGOTBase, RewritePageBase, KeepInBases, At, Compacting, IInv, TypeOK
<1>2. Here \in Node /\ Here = body[i] /\ i + 1 \in i + 1 .. Len(body) + 1
    BY <1>1 DEF Here, TypeOK
<1>3. CASE RejectBase
    BY <1>3, Failed DEF RejectBase
<1>4. CASE KeepInBases
    BY <1>1, <1>4, Kept DEF KeepInBases
<1>5. CASE RewriteGOTBase
    <2>1. Keep(<<>>, i + 1) /\ Here.op = "gotadrp" /\ Here.sym \in Sym
        BY <1>5 DEF RewriteGOTBase, Known, Sym
    <2>2. SameControl(body, body')
        <3>1. 0 \in 0 .. MaxOff
            BY MaxOffAssumption
        <3> QED BY <1>1, <1>5, <2>1, <3>1, GOTUsesControl DEF RewriteGOTBase
    <2>3. <<>> \in Seq(Node) /\ Len(<<>>) = 0 /\ DOMAIN <<>> = {}
        OBVIOUS
    <2>4. InOrder(<<>>) /\ Genuine(<<>>) /\ Len(<<>>) <= (i + 1) - i
        BY <1>1, <2>3 DEF InOrder, Genuine
    <2>5. \A l \in i .. (i + 1) - 1 : ~ Control(body[l])
        BY <1>1, <1>2, <2>1 DEF Control
    <2> QED BY <1>1, <1>2, <2>1, <2>2, <2>3, <2>4, <2>5, Compacted
<1>6. CASE RewritePageBase
    <2> DEFINE n == Address(Here.dst, Here.sym, Addend, Here.line)
    <2>1. Keep(<<n>>, i + 1) /\ Here.op = "adrp"
        BY <1>6 DEF RewritePageBase
    <2>2. SameControl(body, body')
        BY <1>1, <1>6, PageUsesControl DEF RewritePageBase
    <2>3. Addend \in 0 .. MaxOff
        BY <1>2, MaxOffAssumption DEF Addend, Node, Fields
    <2>4. n \in Node /\ ~ Control(n) /\ n.line = body[i].line
        <3>1. /\ Here.dst \in Reg \cup {NoReg} /\ Here.line \in Nat \ {0}
              /\ Here.sym \in Sym \cup {NoSym}
            BY <1>2, FieldTypes
        <3> QED BY <1>2, <2>3, <3>1, AddressNode
    <2>5. \A l \in i .. (i + 1) - 1 : ~ Control(body[l])
        BY <1>1, <1>2, <2>1 DEF Control
    <2> HIDE DEF n
    <2> QED BY <1>1, <1>2, <2>1, <2>2, <2>4, <2>5, OneAddress
<1> QED BY <1>3, <1>4, <1>5, <1>6

\* rewriteRemainingPageOffsets rewrites in place.
LEMMA InPlace ==
    ASSUME IInv, phase \notin Compacting, phase # "failed", SameControl(body, body'),
           i' \in 1 .. Len(body') + 1, UNCHANGED <<program, phase, out, execution>>
    PROVE  IInv'
<1>1. /\ body \in Seq(Node) /\ Len(body) \in Nat /\ DOMAIN body = 1 .. Len(body)
      /\ UNCHANGED <<program, phase, out, pc, before, after>>
    BY DEF IInv, TypeOK, execution
<1>2. /\ body' \in Seq(Node) /\ DOMAIN body' = DOMAIN body
      /\ \A k \in DOMAIN body : /\ body'[k].line = body[k].line
                                /\ Control(body[k]) \/ Control(body'[k]) => body'[k] = body[k]
    BY <1>1 DEF SameControl
<1>3. TypeOK' /\ OutBehind'
    BY <1>1, <1>2 DEF IInv, TypeOK, OutBehind, Compacting
<1>4. Order'
    BY <1>1, <1>2 DEF IInv, Order, InOrder
<1>5. NothingLost'
    <2> SUFFICES ASSUME NEW k \in DOMAIN program, Control(program[k])
                 PROVE  \E l \in DOMAIN body' : body'[l] = program[k]
        BY <1>1 DEF NothingLost, Control
    <2>1. PICK l \in DOMAIN body : body[l] = program[k]
        BY DEF IInv, NothingLost
    <2> QED BY <1>2, <2>1
<1>6. NothingMadeUp'
    BY <1>1, <1>2 DEF IInv, NothingMadeUp, Genuine, Control
<1> QED BY <1>3, <1>4, <1>5, <1>6 DEF IInv

\* A body of which one node is replaced.
LEMMA OneReplaced ==
    ASSUME TypeOK, i \in 1 .. Len(body), NEW n \in Node,
           n.line = Here.line, ~ Control(n), ~ Control(Here)
    PROVE  SameControl(body, [body EXCEPT ![i] = n])
BY DEF SameControl, TypeOK, Here

LEMMA OffsetsStep ==
    ASSUME IInv, RewriteOffset \/ RewriteGOTOffset \/ KeepInOffsets PROVE IInv'
<1>1. /\ phase \notin Compacting /\ phase # "failed" /\ i \in 1 .. Len(body) /\ Len(body) \in Nat
      /\ TypeOK /\ body \in Seq(Node) /\ DOMAIN body = 1 .. Len(body)
    BY DEF RewriteOffset, RewriteGOTOffset, KeepInOffsets, At, Compacting, IInv, TypeOK
<1>2. Here \in Node
    BY <1>1 DEF Here
<1>3. CASE KeepInOffsets
    <2>1. SameControl(body, body')
        BY <1>1, <1>3 DEF KeepInOffsets, SameControl
    <2> QED BY <1>1, <1>3, <2>1, InPlace DEF KeepInOffsets
<1>4. CASE RewriteOffset
    <2>1. Numbered(Here) \in Node /\ Numbered(Here).line = Here.line
          /\ ~ Control(Numbered(Here)) /\ ~ Control(Here)
        BY <1>2, <1>4, NumberedNode DEF RewriteOffset, Control
    <2>2. SameControl(body, body')
        BY <1>1, <1>4, <2>1, OneReplaced DEF RewriteOffset
    <2>3. i' \in 1 .. Len(body') + 1
        BY <1>1, <1>4, <2>2 DEF RewriteOffset, SameControl
    <2> QED BY <1>1, <1>4, <2>2, <2>3, InPlace DEF RewriteOffset
<1>5. CASE RewriteGOTOffset
    <2> DEFINE n == Address(Here.dst, Here.sym, Here.off, Here.line)
    <2>1. CASE Fail
        BY <2>1, Failed
    <2>2. CASE /\ body' = [body EXCEPT ![i] = n] /\ i' = i + 1
               /\ UNCHANGED <<program, phase, out, execution>>
        <3>1. /\ Here.dst \in Reg \cup {NoReg} /\ Here.line \in Nat \ {0}
              /\ Here.sym \in Sym \cup {NoSym} /\ Here.off \in 0 .. MaxOff
            BY <1>2, FieldTypes
        <3>2. n \in Node /\ n.line = Here.line /\ ~ Control(n)
            BY <3>1, AddressNode
        <3>3. ~ Control(Here)
            BY <1>5 DEF RewriteGOTOffset, Control
        <3> HIDE DEF n
        <3>4. SameControl(body, body')
            BY <1>1, <2>2, <3>2, <3>3, OneReplaced
        <3>5. i' \in 1 .. Len(body') + 1
            BY <1>1, <2>2, <3>4 DEF SameControl
        <3> QED BY <1>1, <2>2, <3>4, <3>5, InPlace
    <2> QED BY <1>5, <2>1, <2>2 DEF RewriteGOTOffset
<1> QED BY <1>3, <1>4, <1>5

\* The end of a pass: what was kept is the body of the next.
LEMMA EndPassStep ==
    ASSUME IInv, EndPass PROVE IInv'
<1>1. /\ phase \in Compacting /\ i > Len(body) /\ body' = out /\ out' = <<>> /\ i' = 1
      /\ UNCHANGED <<program, pc, before, after>>
      /\ phase' \in {"loads", "bases", "offsets"}
      /\ out \in Seq(Node) /\ Len(out) \in Nat /\ i \in Nat /\ Len(body) \in Nat
    BY DEF EndPass, Compacting, execution, IInv, TypeOK
<1>2. TypeOK' /\ OutBehind'
    BY <1>1 DEF IInv, TypeOK, OutBehind
<1>3. Order'
    BY <1>1 DEF IInv, Order, InOrder
<1>4. NothingLost'
    <2> SUFFICES ASSUME NEW k \in DOMAIN program, Control(program[k])
                 PROVE  \E l \in DOMAIN out : out[l] = program[k]
        BY <1>1 DEF NothingLost, Control
    <2> QED BY <1>1 DEF IInv, NothingLost
<1>5. NothingMadeUp'
    BY <1>1 DEF IInv, NothingMadeUp, Genuine, Control
<1> QED BY <1>2, <1>3, <1>4, <1>5 DEF IInv

LEMMA CheckStep ==
    ASSUME IInv, Check \/ End PROVE IInv'
<1>1. /\ UNCHANGED <<program, body, i, out, pc, before, after>>
      /\ phase \notin Compacting /\ phase # "failed" /\ phase' \in {"failed", "run", "end"}
    BY DEF Check, End, execution, Compacting
<1> QED BY <1>1 DEF IInv, TypeOK, OutBehind, Order, NothingLost, NothingMadeUp, Genuine, InOrder,
                    Control, Compacting

-----------------------------------------------------------------------------
(***************************************************************************)
(* The machine.                                                            *)
(***************************************************************************)

LEMMA SumType ==
    ASSUME NEW n \in Node, n.op \in {"add", "load", "gotload"}, NEW reg \in [Reg -> Value]
    PROVE  Sum(n, reg) \in Value
<1>1. n.base \in Reg /\ n.sym \in Sym \cup {NoSym} /\ n.off \in 0 .. MaxOff
    BY DEF Node, Fields
<1>2. reg[n.base] \in Value
    BY <1>1
<1>3. Junk \in Value
    BY MaxOffAssumption DEF Junk, Value
<1>4. ASSUME NEW v \in Value, NEW off \in 0 .. MaxOff PROVE Plus(v, off) \in Value
    <2>1. v.off \in 0 .. MaxOff /\ v.sym \in Sym \cup {NoSym}
        BY DEF Value
    <2>2. CASE v.off + off <= MaxOff
        <3>1. v.off + off \in 0 .. MaxOff
            BY <2>1, <2>2, MaxOffAssumption
        <3>2. Plus(v, off) = [v EXCEPT !.kind = "addr", !.off = v.off + off]
            BY <2>2 DEF Plus
        <3> QED BY <2>1, <3>1, <3>2 DEF Value
    <2>3. CASE ~ (v.off + off <= MaxOff)
        BY <1>3, <2>3 DEF Plus
    <2> QED BY <2>2, <2>3
<1>5. [kind |-> "addr", sym |-> n.sym, off |-> n.off] \in Value
    BY <1>1 DEF Value
<1>6. Plus(reg[n.base], n.off) \in Value
    BY <1>1, <1>2, <1>4
<1> QED BY <1>3, <1>5, <1>6 DEF Sum

LEMMA ResultType ==
    ASSUME NEW n \in Node, NEW reg \in [Reg -> Value]
    PROVE  Result(n, reg) \in Value
<1>1. n.sym \in Sym \cup {NoSym} /\ n.off \in 0 .. MaxOff /\ 0 \in 0 .. MaxOff
    BY FieldTypes, MaxOffAssumption
<1>2. /\ Junk \in Value
      /\ [kind |-> "page", sym |-> n.sym, off |-> n.off] \in Value
      /\ [kind |-> "gotpage", sym |-> n.sym, off |-> 0] \in Value
      /\ [kind |-> "addr", sym |-> n.sym, off |-> n.off] \in Value
      /\ [kind |-> "addr", sym |-> n.sym, off |-> 0] \in Value
    BY <1>1 DEF Junk, Value
<1>3. n.op = "add" => Sum(n, reg) \in Value
    BY SumType
<1> QED BY <1>2, <1>3 DEF Result

LEMMA ExecutedType ==
    ASSUME NEW nodes \in SUBSET Node, NEW reg \in [Reg -> Value]
    PROVE  Executed(nodes, reg) \in [Reg -> Value]
<1>1. ASSUME NEW r \in Reg
      PROVE  (IF \E n \in nodes : n.dst = r
              THEN Result(CHOOSE n \in nodes : n.dst = r, reg) ELSE reg[r]) \in Value
    <2>1. CASE \E n \in nodes : n.dst = r
        <3>1. (CHOOSE n \in nodes : n.dst = r) \in Node
            BY <2>1
        <3> QED BY <2>1, <3>1, ResultType
    <2>2. CASE ~ \E n \in nodes : n.dst = r
        BY <2>2
    <2> QED BY <2>1, <2>2
<1> QED BY <1>1 DEF Executed

LEMMA ExecuteStep ==
    ASSUME IInv, Execute PROVE IInv'
<1>1. UNCHANGED <<program, phase, body, i, out>>
    BY DEF Execute
<1>2. TypeOK'
    <2>1. InProgram \in SUBSET Node /\ InBody \in SUBSET Node
        BY DEF IInv, TypeOK, InProgram, InBody
    <2>2. before' \in [Reg -> Value] /\ after' \in [Reg -> Value]
        BY <2>1, ExecutedType DEF Execute, IInv, TypeOK
    <2>3. pc' \in Nat
        <3>1. program \in Seq(Node) /\ pc \in DOMAIN program
            BY DEF Execute, IInv, TypeOK
        <3>2. program[pc] \in Node /\ pc \in Nat
            BY <3>1
        <3>3. program[pc].to \in Nat
            BY <3>2 DEF Node, Fields
        <3> QED BY <3>2, <3>3 DEF Execute
    <2> QED BY <1>1, <2>2, <2>3 DEF IInv, TypeOK
<1> QED BY <1>1, <1>2 DEF IInv, OutBehind, Order, NothingLost, NothingMadeUp, Genuine, InOrder, Control

-----------------------------------------------------------------------------
LEMMA InitInv == Init => IInv
<1> SUFFICES ASSUME Init PROVE IInv
    OBVIOUS
<1>1. /\ program \in Seq(Node) /\ \A k \in DOMAIN program : program[k].line = k
      /\ body = program /\ i = 1 /\ out = <<>> /\ phase = "pairs" /\ pc = 1
      /\ Len(program) \in Nat /\ DOMAIN program = 1 .. Len(program)
    BY ProgramsAssumption DEF Init
<1>2. TypeOK
    <2>1. Junk \in Value
        BY MaxOffAssumption DEF Junk, Value
    <2>2. before \in [Reg -> Value] /\ after \in [Reg -> Value]
        BY <2>1 DEF Init
    <2> QED BY <1>1, <2>2 DEF TypeOK
<1>3. OutBehind
    BY <1>1 DEF OutBehind
<1>4. Order
    BY <1>1 DEF Order, InOrder
<1>5. NothingLost
    BY <1>1 DEF NothingLost, Compacting
<1>6. NothingMadeUp
    BY <1>1 DEF NothingMadeUp, Genuine
<1> QED BY <1>2, <1>3, <1>4, <1>5, <1>6 DEF IInv

\* The invariant is inductive, whatever the function.
THEOREM Invariance == Spec => []IInv
<1>1. IInv /\ [Next]_vars => IInv'
    <2> SUFFICES ASSUME IInv, [Next]_vars PROVE IInv'
        OBVIOUS
    <2>1. CASE KeepInLoads
        <3>1. phase \in Compacting /\ i \in 1 .. Len(body)
            BY <2>1 DEF KeepInLoads, At, Compacting, IInv, TypeOK
        <3> QED BY <2>1, <3>1, Kept DEF KeepInLoads
    <2>2. CASE UNCHANGED vars \/ Finished
        <3>1. UNCHANGED <<program, phase, body, i, out, pc, before, after>>
            BY <2>2 DEF Finished, vars
        <3>2. TypeOK' /\ OutBehind'
            BY <3>1 DEF IInv, TypeOK, OutBehind
        <3>3. Order' /\ NothingLost' /\ NothingMadeUp'
            BY <3>1 DEF IInv, Order, NothingLost, NothingMadeUp, Genuine, InOrder, Control
        <3> QED BY <3>2, <3>3 DEF IInv
    <2> QED BY <2>1, <2>2, PairsStep, GOTLoadStep, PageLoadStep, BasesStep, OffsetsStep, EndPassStep,
               CheckStep, ExecuteStep DEF Next
<1> QED BY <1>1, InitInv, PTL DEF Spec

\* Types hold for every function body.
THEOREM TypeCorrect == Spec => []TypeOK
<1>1. IInv => TypeOK
    BY DEF IInv
<1> QED BY <1>1, Invariance, PTL

\* The compaction of fn.Body in its own array never overwrites a node that is
\* still to be read.
THEOREM CompactionSafe == Spec => []OutBehind
<1>1. IInv => OutBehind
    BY DEF IInv
<1> QED BY <1>1, Invariance, PTL

\* The four passes keep every label and branch of every function, make up none,
\* and keep the lines in order.
THEOREM ControlFlowKept == Spec => []ControlKept
<1>1. IInv => ControlKept
    BY DEF IInv, Order, NothingLost, NothingMadeUp, Genuine, ControlKept, Compacting
<1> QED BY <1>1, Invariance, PTL

-----------------------------------------------------------------------------
(***************************************************************************)
(* Unknown symbols.  Where an ADRP is consumed with the access after it,   *)
(* only the symbol of the access is looked up (LoadsThrough); a function   *)
(* in which the two halves of an address belong together is converted only *)
(* if the symbols of all its ADRPs are known.                              *)
(***************************************************************************)
Missing == {k \in DOMAIN program : IsAdrp(program[k]) /\ program[k].sym \in Unknown}

\* The pass still has the ADRP of line k.
Waits(k) ==
    \/ \E l \in DOMAIN out : out[l] = program[k]
    \/ \E l \in i .. Len(body) : body[l] = program[k]

\* Nodes after which no line is dropped before the loads are looked at.
Joined(n) == IsAdrp(n) \/ n.op = "lloh"

\* n is the line it was, an access up to its symbol.
Written(n) ==
    /\ Joined(n) => n.line \in DOMAIN program /\ n = program[n.line]
    /\ n.op \in {"load", "gotload"} =>
         n.line \in DOMAIN program /\ n \in {program[n.line], Numbered(program[n.line])}

Faithful(nodes) ==
    /\ \A l \in DOMAIN nodes : Written(nodes[l])
    /\ \A l \in DOMAIN nodes : Joined(nodes[l]) /\ l + 1 \in DOMAIN nodes => nodes[l + 1].line = nodes[l].line + 1

\* The invariant: the lines in the state they are read in, pass by pass, and the
\* ADRPs of unknown symbols among them.
Pending ==
    /\ \A k \in DOMAIN program : program[k].line = k
    /\ phase = "pairs" =>
         /\ body = program /\ Faithful(out)
         /\ \A l \in DOMAIN out : l = Len(out) /\ Joined(out[l]) => out[l].line = i - 1
    /\ phase = "loads" => Faithful(body)
    /\ phase = "bases" => \A l \in DOMAIN out : ~ IsAdrp(out[l])
    /\ HalvesMatch(program) =>
         /\ phase \in Compacting => \A k \in Missing : Waits(k)
         /\ phase \in {"offsets", "run", "end"} => Missing = {}

LEMMA MissingFacts ==
    ASSUME NEW k \in Missing
    PROVE  k \in DOMAIN program /\ IsAdrp(program[k]) /\ ~ Known(program[k].sym)
BY NamesAssumption DEF Missing, Known

\* The steps of a compacting pass keep the ADRPs they read, or those they drop
\* have a known symbol; ADRPs not read yet stay.
LEMMA WaitsStill ==
    ASSUME TypeOK, i \in 1 .. Len(body), NEW nodes \in Seq(Node), NEW next \in i + 1 .. Len(body) + 1,
           Keep(nodes, next), Len(body') = Len(body),
           \A l \in DOMAIN body : IsAdrp(body[l]) => body'[l] = body[l],
           \A l \in i .. next - 1 : IsAdrp(body[l]) /\ ~ Known(body[l].sym) =>
               \E m \in DOMAIN nodes : nodes[m] = body[l],
           \A k \in Missing : Waits(k)
    PROVE  (\A k \in Missing : Waits(k))'
<1>1. /\ out' = out \o nodes /\ i' = next /\ program' = program
      /\ out \in Seq(Node) /\ body \in Seq(Node) /\ Len(body) \in Nat /\ DOMAIN body = 1 .. Len(body)
      /\ Len(out) \in Nat /\ DOMAIN out = 1 .. Len(out) /\ DOMAIN nodes = 1 .. Len(nodes)
    BY DEF Keep, TypeOK
<1>2. /\ \A l \in DOMAIN out : l \in DOMAIN out' /\ out'[l] = out[l]
      /\ \A m \in DOMAIN nodes : Len(out) + m \in DOMAIN out' /\ out'[Len(out) + m] = nodes[m]
    BY <1>1, Appended
<1>3. ASSUME NEW k \in Missing
      PROVE  \/ \E l \in DOMAIN out' : out'[l] = program[k]
             \/ \E l \in next .. Len(body') : body'[l] = program[k]
    <2>1. CASE \E l \in DOMAIN out : out[l] = program[k]
        BY <1>2, <2>1
    <2>2. CASE \E l \in i .. Len(body) : body[l] = program[k]
        <3>1. PICK l \in i .. Len(body) : body[l] = program[k]
            BY <2>2
        <3>2. IsAdrp(body[l]) /\ ~ Known(body[l].sym)
            BY <3>1, MissingFacts
        <3>3. CASE l < next
            <4>1. PICK m \in DOMAIN nodes : nodes[m] = body[l]
                BY <1>1, <3>2, <3>3
            <4> QED BY <1>2, <3>1, <4>1
        <3>4. CASE l >= next
            <4>1. l \in DOMAIN body /\ l \in next .. Len(body')
                BY <1>1, <3>4
            <4> QED BY <3>1, <3>2, <4>1
        <3> QED BY <1>1, <3>3, <3>4
    <2> QED BY <2>1, <2>2 DEF Waits
<1>4. Missing' = Missing
    BY <1>1 DEF Missing
<1> QED BY <1>1, <1>3, <1>4 DEF Waits

\* Only accesses and additions are rewritten ahead of the position.
LEMMA PageUsesAhead ==
    ASSUME NEW k, NEW base, NEW sym, body' = RewritePageUses(k, base, sym)
    PROVE  /\ DOMAIN body' = DOMAIN body
           /\ \A l \in DOMAIN body :
                \/ body'[l] = body[l]
                \/ body[l].op \in {"add", "load", "gotload"} /\ body'[l] = Numbered(body[l])
BY DEF RewritePageUses, PageUses

LEMMA GOTUsesAhead ==
    ASSUME NEW k, NEW base, NEW sym, NEW off, body' = RewriteGOTUses(k, base, sym, off)
    PROVE  /\ DOMAIN body' = DOMAIN body
           /\ \A l \in DOMAIN body :
                \/ body'[l] = body[l]
                \/ /\ body[l].op \in {"add", "load", "gotload"}
                   /\ body'[l] = Address(body[l].dst, sym, off, body[l].line)
<1>1. /\ DOMAIN body' = DOMAIN body
      /\ \A l \in DOMAIN body :
           body'[l] = IF l \in GOTUses(k, base, sym)
                      THEN Address(body[l].dst, sym, off, body[l].line) ELSE body[l]
    BY DEF RewriteGOTUses
<1>2. \A l \in GOTUses(k, base, sym) : body[l].op \in {"add", "load", "gotload"}
    BY DEF GOTUses
<1> QED BY <1>1, <1>2

LEMMA FaithfulAhead ==
    ASSUME TypeOK, NEW k, NEW base, NEW sym, NEW off, program' = program,
           body' = RewritePageUses(k, base, sym) \/ body' = RewriteGOTUses(k, base, sym, off)
    PROVE  /\ \A l \in DOMAIN body : IsAdrp(body[l]) => body'[l] = body[l]
           /\ Faithful(body) => Faithful(body)'
<1>1. /\ DOMAIN body' = DOMAIN body
      /\ \A l \in DOMAIN body :
            \/ body'[l] = body[l]
            \/ body[l].op \in {"add", "load", "gotload"}
                 /\ (body'[l] = Numbered(body[l]) \/ body'[l] = Address(body[l].dst, sym, off, body[l].line))
    <2>1. CASE body' = RewritePageUses(k, base, sym)
        BY <2>1, PageUsesAhead
    <2>2. CASE body' = RewriteGOTUses(k, base, sym, off)
        BY <2>2, GOTUsesAhead
    <2> QED BY <2>1, <2>2
<1>2. body \in Seq(Node)
    BY DEF TypeOK
<1>3. ASSUME NEW l \in DOMAIN body
      PROVE  /\ body'[l].line = body[l].line
             /\ IsAdrp(body[l]) => body'[l] = body[l]
             /\ Joined(body'[l]) => body'[l] = body[l]
             /\ Written(body[l]) => Written(body'[l])
    <2>1. body[l] \in Node
        BY <1>2
    <2>2. CASE body'[l] = body[l]
        BY <2>2
    <2>3. CASE body[l].op \in {"add", "load", "gotload"} /\ body'[l] = Address(body[l].dst, sym, off, body[l].line)
        BY <2>3 DEF Address, IsAdrp, Joined, Written
    <2>4. CASE body[l].op \in {"add", "load", "gotload"} /\ body'[l] = Numbered(body[l])
        <3>1. Numbered(body[l]).op = body[l].op /\ Numbered(body[l]).line = body[l].line
            BY <2>1, NumberedNode
        <3>2. ASSUME Written(body[l]), body[l].op \in {"load", "gotload"}
              PROVE  Numbered(body[l]) = Numbered(program[body[l].line])
            <4>1. \A n : Numbered(Numbered(n)) = Numbered(n)
                BY DEF Numbered
            <4> QED BY <3>2, <4>1 DEF Written
        <3> QED BY <2>4, <3>1, <3>2 DEF IsAdrp, Joined, Written
    <2> QED BY <1>1, <2>2, <2>3, <2>4
<1>4. ASSUME Faithful(body) PROVE Faithful(body)'
    <2>1. \A l \in DOMAIN body' : Written(body'[l])
        BY <1>1, <1>3, <1>4 DEF Faithful
    <2>2. \A l \in DOMAIN body' : Joined(body'[l]) /\ l + 1 \in DOMAIN body' => body'[l + 1].line = body'[l].line + 1
        BY <1>1, <1>3, <1>4 DEF Faithful
    <2>3. \A n : (Written(n) => Written(n)')
        BY DEF Written, Joined
    <2> QED BY <2>1, <2>2 DEF Faithful, Written, Joined
<1> QED BY <1>3, <1>4

\* Where LoadsThrough(j) holds, what is at j follows the ADRP in the program too.
LEMMA LoadsBehind ==
    ASSUME TypeOK, i \in 1 .. Len(body), Faithful(body),
           NEW j, j = NextInst(i + 1), LoadsThrough(j)
    PROVE  /\ Here.line \in DOMAIN program /\ Here = program[Here.line]
           /\ body[j].line \in DOMAIN program /\ body[j] = program[body[j].line]
           /\ Behind(program, Here.line, body[j].line)
           /\ j \in i + 1 .. Len(body) /\ \A l \in i + 1 .. j - 1 : body[l].op = "lloh"
<1>1. /\ body \in Seq(Node) /\ program \in Seq(Node) /\ Len(body) \in Nat /\ DOMAIN body = 1 .. Len(body)
      /\ i + 1 \in Nat /\ DOMAIN program = 1 .. Len(program) /\ Len(program) \in Nat
    BY DEF TypeOK
<1>2. /\ IsAdrp(Here) /\ j # 0 /\ body[j].op \in {"load", "gotload"}
      /\ body[j].base = Here.dst /\ body[j].sym # NoSym
    BY DEF LoadsThrough
<1>3. j \in i + 1 .. Len(body) /\ \A k \in i + 1 .. j - 1 : body[k].op = "lloh"
    BY <1>1, <1>2, NextInstFound
<1> DEFINE k == Here.line
<1>4. Here = body[i] /\ k \in DOMAIN program /\ Here = program[k] /\ k \in Nat
    BY <1>1, <1>2 DEF Here, Faithful, Written, Joined
<1> HIDE DEF k
<1>5. \A m \in Nat : i + m <= j => body[i + m].line = k + m
    <2> DEFINE T == {m \in Nat : i + m <= j => body[i + m].line = k + m}
    <2>1. 0 \in T
        BY <1>1, <1>4 DEF k
    <2>2. ASSUME NEW m \in Nat, m \in T PROVE m + 1 \in T
        <3> SUFFICES ASSUME i + (m + 1) <= j PROVE body[i + (m + 1)].line = k + (m + 1)
            OBVIOUS
        <3>1. i + m \in DOMAIN body /\ (i + m) + 1 \in DOMAIN body /\ i + m < j /\ (i + m) + 1 = i + (m + 1)
            BY <1>1, <1>3
        <3>2. Joined(body[i + m])
            <4>1. CASE m = 0
                <5>1. i + m = i
                    BY <1>1, <4>1
                <5> QED BY <1>2, <1>4, <5>1 DEF Joined
            <4>2. CASE m # 0
                <5>1. i + m \in i + 1 .. j - 1
                    BY <1>1, <1>3, <3>1, <4>2
                <5> QED BY <1>3, <5>1 DEF Joined
            <4> QED BY <4>1, <4>2
        <3>3. body[(i + m) + 1].line = body[i + m].line + 1
            BY <3>1, <3>2 DEF Faithful
        <3>4. body[i + m].line = k + m
            BY <2>2, <3>1, <1>1, <1>3
        <3> QED BY <1>4, <3>1, <3>3, <3>4
    <2> HIDE DEF T
    <2>3. Nat \subseteq T
        BY <2>1, <2>2, Induction
    <2> QED BY <2>3 DEF T
<1> DEFINE p == body[j].line
<1>6. j - i \in Nat /\ i + (j - i) = j
    BY <1>1, <1>3
<1>7. p = k + (j - i)
    BY <1>5, <1>6, <1>1, <1>3
<1>8. p \in DOMAIN program /\ program[p] = body[j]
    <2>1. body[j] \in Node /\ Written(body[j])
        BY <1>1, <1>3 DEF Faithful
    <2>2. p \in DOMAIN program /\ body[j] \in {program[p], Numbered(program[p])}
        BY <1>2, <2>1 DEF Written
    <2>3. program[p] \in Node
        BY <1>1, <2>2
    <2>4. Numbered(program[p]).sym = NoSym
        BY <2>3 DEF Numbered, Node, Fields
    <2> QED BY <1>2, <2>2, <2>4
<1> HIDE DEF p
<1>9. ASSUME NEW l \in k + 1 .. p - 1 PROVE program[l].op = "lloh"
    <2>1. l - k \in Nat /\ i + (l - k) \in i + 1 .. j - 1 /\ k + (l - k) = l /\ i + (l - k) <= j
        <3>1. i \in Nat /\ j \in Nat /\ l \in Int /\ k < l /\ l < k + (j - i)
            BY <1>1, <1>3, <1>4, <1>7
        <3> DEFINE d == l - k
        <3>2. d \in Nat /\ d > 0 /\ d < j - i /\ k + d = l
            BY ONLY <1>4, <3>1
        <3> HIDE DEF d
        <3>3. i + d \in i + 1 .. j - 1 /\ i + d <= j
            BY ONLY <3>1, <3>2
        <3> QED BY ONLY <3>2, <3>3 DEF d
    <2>2. body[i + (l - k)].line = l /\ body[i + (l - k)].op = "lloh"
        BY <1>3, <1>5, <2>1
    <2>3. i + (l - k) \in DOMAIN body
        BY <1>1, <1>3, <2>1
    <2> QED BY <2>2, <2>3 DEF Faithful, Written, Joined
<1>10. k < p
    BY <1>1, <1>3, <1>4, <1>7
<1>11. Behind(program, k, p)
    BY <1>4, <1>8, <1>9, <1>10 DEF Behind
<1> QED BY <1>3, <1>4, <1>8, <1>11 DEF k, p

LEMMA LoadsTogether ==
    ASSUME TypeOK, i \in 1 .. Len(body), Faithful(body), HalvesMatch(program),
           NEW j, j = NextInst(i + 1), LoadsThrough(j)
    PROVE  body[j].sym = Here.sym
BY LoadsBehind DEF LoadsThrough, Behind, HalvesMatch

-----------------------------------------------------------------------------
\* A step that only fails, or only moves on once no symbol is missing.
LEMMA NothingPending ==
    ASSUME Pending, program' = program,
           \/ phase' = "failed"
           \/ phase \in {"offsets", "run", "end"} /\ phase' \in {"offsets", "run", "end"}
    PROVE  Pending'
<1>1. phase' \notin Compacting
    BY DEF Compacting
<1>2. HalvesMatch(program)' <=> HalvesMatch(program)
    OBVIOUS
<1>3. Missing' = Missing
    BY DEF Missing
<1>4. \A k \in DOMAIN program : program[k].line = k
    BY DEF Pending
<1>5. phase' \in {"offsets", "run", "end"} => phase \in {"offsets", "run", "end"}
    OBVIOUS
<1>6. HalvesMatch(program) /\ phase' \in {"offsets", "run", "end"} => Missing = {}
    BY <1>5 DEF Pending
<1> QED BY ONLY <1>1, <1>2, <1>3, <1>4, <1>6, program' = program DEF Pending, Compacting

\* The first pass: a node of the line it read last is appended.
LEMMA FaithfulLonger ==
    ASSUME TypeOK, Faithful(out),
           \A l \in DOMAIN out : l = Len(out) /\ Joined(out[l]) => out[l].line = i - 1,
           NEW n \in Node, Written(n), n.line = i, Joined(n) => i' = i + 1,
           out' = out \o <<n>>, program' = program
    PROVE  /\ Faithful(out)'
           /\ (\A l \in DOMAIN out : l = Len(out) /\ Joined(out[l]) => out[l].line = i - 1)'
<1>1. /\ out \in Seq(Node) /\ <<n>> \in Seq(Node) /\ Len(<<n>>) = 1 /\ <<n>>[1] = n /\ i \in Nat
      /\ Len(out) \in Nat /\ DOMAIN out = 1 .. Len(out)
    BY DEF TypeOK
<1>2. /\ Len(out') = Len(out) + 1 /\ DOMAIN out' = 1 .. Len(out) + 1
      /\ \A l \in DOMAIN out : out'[l] = out[l]
      /\ out'[Len(out) + 1] = n
    BY <1>1, Appended
<1>3. \A l \in DOMAIN out' : Written(out'[l])
    <2>1. \A l \in DOMAIN out' : l \in DOMAIN out \/ l = Len(out) + 1
        BY <1>1, <1>2
    <2> QED BY <1>2, <2>1 DEF Faithful
<1>4. ASSUME NEW l \in DOMAIN out', Joined(out'[l]), l + 1 \in DOMAIN out'
      PROVE  out'[l + 1].line = out'[l].line + 1
    <2>1. l \in DOMAIN out /\ out'[l] = out[l]
        BY <1>1, <1>2, <1>4
    <2>2. CASE l + 1 \in DOMAIN out
        <3>1. out'[l + 1] = out[l + 1]
            BY <1>2, <2>2
        <3> QED BY <1>4, <2>1, <2>2, <3>1 DEF Faithful
    <2>3. CASE l + 1 \notin DOMAIN out
        <3>1. l = Len(out) /\ l + 1 = Len(out) + 1
            BY <1>1, <2>1, <2>3
        <3>2. out[l].line = i - 1
            BY <1>4, <2>1, <3>1
        <3> QED BY <1>1, <1>2, <2>1, <3>1, <3>2
    <2> QED BY <2>2, <2>3
<1>5. \A m : Written(m) => Written(m)'
    BY DEF Written, Joined
<1>6. Faithful(out)'
    BY <1>3, <1>4, <1>5 DEF Faithful, Written, Joined
<1>7. ASSUME NEW l \in DOMAIN out', l = Len(out'), Joined(out'[l]) PROVE out'[l].line = i' - 1
    <2>1. out'[l] = n
        BY <1>2, <1>7
    <2> QED BY <1>1, <1>7, <2>1
<1> QED BY <1>6, <1>7 DEF Joined

\* Of the lines from an ADRP to its partner only the first is an ADRP.
LEMMA OneAdrp ==
    ASSUME TypeOK, i \in 1 .. Len(body), NEW j, j = NextInst(i + 1), j # 0,
           body[j].op \in {"add", "load", "gotload"}
    PROVE  /\ j \in i + 1 .. Len(body) /\ Resume(j) \in i + 1 .. Len(body) + 1
           /\ \A l \in i .. Resume(j) - 1 : l = i \/ ~ IsAdrp(body[l])
<1>1. i + 1 \in Nat /\ Len(body) \in Nat /\ i \in Nat
    BY DEF TypeOK
<1>2. j \in i + 1 .. Len(body) /\ \A k \in i + 1 .. j - 1 : body[k].op = "lloh"
    BY <1>1, NextInstFound
<1>3. Resume(j) = j + 1
    BY DEF Resume
<1>4. ASSUME NEW l \in i .. Resume(j) - 1, l # i PROVE ~ IsAdrp(body[l])
    <2>1. l \in i + 1 .. j - 1 \/ l = j
        BY <1>1, <1>2, <1>3, <1>4
    <2> QED BY <1>2, <2>1 DEF IsAdrp
<1> QED BY <1>1, <1>2, <1>3, <1>4

\* An address load is nothing that waits.
LEMMA AddressWritten ==
    ASSUME NEW dst, NEW sym, NEW off, NEW line
    PROVE  LET n == Address(dst, sym, off, line)
           IN  Written(n) /\ ~ Joined(n) /\ ~ IsAdrp(n)
BY DEF Address, Written, Joined, IsAdrp

\* rewriteSymbolAddresses
LEMMA PairsPending ==
    ASSUME IInv, Pending, RewritePair \/ KeepInPairs PROVE Pending'
<1>1. /\ phase = "pairs" /\ i \in 1 .. Len(body) /\ TypeOK /\ Len(body) \in Nat /\ i \in Nat
      /\ body \in Seq(Node) /\ DOMAIN body = 1 .. Len(body)
    BY DEF RewritePair, KeepInPairs, At, IInv, TypeOK
<1>2. /\ body = program /\ Faithful(out)
      /\ \A l \in DOMAIN out : l = Len(out) /\ Joined(out[l]) => out[l].line = i - 1
      /\ \A k \in DOMAIN program : program[k].line = k
    BY <1>1 DEF Pending
<1>3. Here = body[i] /\ Here \in Node /\ Here = program[i] /\ Here.line = i /\ i \in DOMAIN program
    BY <1>1, <1>2 DEF Here
<1>4. CASE RewritePair /\ Fail
    BY <1>4, NothingPending DEF Fail
<1>5. ASSUME NEW n \in Node, NEW next \in i + 1 .. Len(body) + 1, Keep(<<n>>, next), body' = body,
             Written(n), n.line = i, Joined(n) => next = i + 1,
             \A l \in i .. next - 1 : IsAdrp(body[l]) /\ ~ Known(body[l].sym) => n = body[l]
      PROVE  Pending'
    <2>1. out' = out \o <<n>> /\ i' = next /\ program' = program /\ phase' = "pairs"
        BY <1>1, <1>5 DEF Keep
    <2>2. /\ Faithful(out)'
          /\ (\A l \in DOMAIN out : l = Len(out) /\ Joined(out[l]) => out[l].line = i - 1)'
        BY <1>1, <1>2, <1>5, <2>1, FaithfulLonger
    <2>3. HalvesMatch(program) => (\A k \in Missing : Waits(k))'
        <3> SUFFICES ASSUME HalvesMatch(program) PROVE (\A k \in Missing : Waits(k))'
            OBVIOUS
        <3>1. \A k \in Missing : Waits(k)
            BY <1>1 DEF Pending, Compacting
        <3>2. <<n>> \in Seq(Node) /\ DOMAIN <<n>> = {1} /\ <<n>>[1] = n
            BY <1>5
        <3>3. \A l \in i .. next - 1 : IsAdrp(body[l]) /\ ~ Known(body[l].sym) =>
                  \E m \in DOMAIN <<n>> : <<n>>[m] = body[l]
            BY <1>5, <3>2
        <3>4. Len(body') = Len(body) /\ \A l \in DOMAIN body : IsAdrp(body[l]) => body'[l] = body[l]
            BY <1>5
        <3> QED BY <1>1, <1>5, <3>1, <3>2, <3>3, <3>4, WaitsStill
    <2>4. (HalvesMatch(program))' <=> HalvesMatch(program)
        BY <2>1
    <2>5. body' = program' /\ \A k \in DOMAIN program' : program'[k].line = k
        BY <1>2, <1>5, <2>1
    <2> QED BY ONLY <2>1, <2>2, <2>3, <2>4, <2>5 DEF Pending, Compacting
<1>6. CASE KeepInPairs
    <2>1. Keep(<<Here>>, i + 1) /\ body' = body
        BY <1>6 DEF KeepInPairs
    <2>2. Written(Here)
        BY <1>3 DEF Written
    <2>3. i + 1 \in i + 1 .. Len(body) + 1
        BY <1>1
    <2>4. \A l \in i .. (i + 1) - 1 : l = i
        BY <1>1
    <2> QED BY <1>3, <1>5, <2>1, <2>2, <2>3, <2>4
<1>7. CASE RewritePair /\ ~ Fail
    <2> DEFINE j == NextInst(i + 1)
               n == Address(body[j].dst, Here.sym, body[j].off, Here.line)
    <2>1. /\ j # 0 /\ body[j].op = "add" /\ Known(Here.sym)
          /\ Keep(<<n>>, Resume(j)) /\ body' = body
        BY <1>7 DEF RewritePair, Pairs
    <2>2. /\ j \in i + 1 .. Len(body) /\ Resume(j) \in i + 1 .. Len(body) + 1
          /\ \A l \in i .. Resume(j) - 1 : l = i \/ ~ IsAdrp(body[l])
        BY <1>1, <2>1, OneAdrp
    <2>3. n \in Node /\ n.line = i
        <3>1. body[j] \in Node
            BY <1>1, <2>2
        <3>2. /\ body[j].dst \in Reg \cup {NoReg} /\ body[j].off \in 0 .. MaxOff
              /\ Here.sym \in Sym \cup {NoSym} /\ Here.line \in Nat \ {0}
            BY <1>3, <3>1, FieldTypes
        <3> QED BY <1>3, <3>2, AddressNode
    <2>4. Written(n) /\ ~ Joined(n)
        BY AddressWritten
    <2>5. \A l \in i .. Resume(j) - 1 : ~ (IsAdrp(body[l]) /\ ~ Known(body[l].sym))
        BY <1>3, <2>1, <2>2
    <2> HIDE DEF n, j
    <2> QED BY <1>5, <2>1, <2>2, <2>3, <2>4, <2>5
<1> QED BY <1>4, <1>6, <1>7

\* A step of a later pass: what it rewrites ahead keeps every line an ADRP may
\* belong to.
LEMMA LaterPending ==
    ASSUME IInv, Pending, phase \in {"loads", "bases"}, i \in 1 .. Len(body),
           NEW nodes \in Seq(Node), NEW next \in i + 1 .. Len(body) + 1, Keep(nodes, next),
           Len(body') = Len(body),
           \A l \in DOMAIN body : IsAdrp(body[l]) => body'[l] = body[l],
           Faithful(body) => Faithful(body)',
           HalvesMatch(program) =>
               \A l \in i .. next - 1 : IsAdrp(body[l]) /\ ~ Known(body[l].sym) =>
                   \E m \in DOMAIN nodes : nodes[m] = body[l],
           phase = "bases" => \A m \in DOMAIN nodes : ~ IsAdrp(nodes[m])
    PROVE  Pending'
<1>1. TypeOK
    BY DEF IInv
<1>2. out' = out \o nodes /\ i' = next /\ program' = program /\ phase' = phase
    BY DEF Keep
<1>3. \A k \in DOMAIN program' : program'[k].line = k
    BY <1>2 DEF Pending
<1>4. phase' = "loads" => Faithful(body)'
    BY <1>2 DEF Pending
<1>5. phase' = "bases" => \A l \in DOMAIN out' : ~ IsAdrp(out'[l])
    <2> SUFFICES ASSUME phase' = "bases", NEW l \in DOMAIN out' PROVE ~ IsAdrp(out'[l])
        OBVIOUS
    <2>1. out \in Seq(Node)
        BY <1>1 DEF TypeOK
    <2>2. \/ l \in DOMAIN out /\ out'[l] = out[l]
          \/ l - Len(out) \in DOMAIN nodes /\ out'[l] = nodes[l - Len(out)]
        <3>1. l \in DOMAIN (out \o nodes)
            BY <1>2
        <3>2. \A k \in DOMAIN out : k \in 1 .. Len(out)
            BY <2>1
        <3> QED BY <1>2, <2>1, <3>1, <3>2, Appended
    <2>3. \A k \in DOMAIN out : ~ IsAdrp(out[k])
        BY <1>2 DEF Pending
    <2> QED BY <1>2, <2>2, <2>3
<1>6. HalvesMatch(program) => (\A k \in Missing : Waits(k))'
    <2> SUFFICES ASSUME HalvesMatch(program) PROVE (\A k \in Missing : Waits(k))'
        OBVIOUS
    <2>1. \A k \in Missing : Waits(k)
        BY DEF Pending, Compacting
    <2> QED BY <1>1, <2>1, WaitsStill
<1>7. (HalvesMatch(program))' <=> HalvesMatch(program)
    BY <1>2
<1>8. phase' \in {"loads", "bases"}
    BY <1>2
<1> QED BY ONLY <1>3, <1>4, <1>5, <1>6, <1>7, <1>8 DEF Pending, Compacting

\* rewriteGotLoads
LEMMA LoadsPending ==
    ASSUME IInv, Pending, RewriteGOTLoad \/ RewritePageLoad \/ KeepInLoads PROVE Pending'
<1>1. /\ phase = "loads" /\ i \in 1 .. Len(body) /\ TypeOK /\ Len(body) \in Nat /\ i \in Nat
      /\ body \in Seq(Node) /\ DOMAIN body = 1 .. Len(body)
    BY DEF RewriteGOTLoad, RewritePageLoad, KeepInLoads, At, IInv, TypeOK
<1>2. /\ Faithful(body) /\ \A k \in DOMAIN program : program[k].line = k
    BY <1>1 DEF Pending
<1>3. Here = body[i] /\ Here \in Node
    BY <1>1 DEF Here
<1> DEFINE j == NextInst(i + 1)
<1>4. CASE KeepInLoads
    <2>1. Keep(<<Here>>, i + 1) /\ body' = body
        BY <1>4 DEF KeepInLoads
    <2>2. <<Here>> \in Seq(Node) /\ DOMAIN <<Here>> = {1} /\ <<Here>>[1] = Here
        BY <1>3
    <2>3. i + 1 \in i + 1 .. Len(body) + 1 /\ \A l \in i .. (i + 1) - 1 : l = i
        BY <1>1
    <2>4. \A l \in i .. (i + 1) - 1 : \E m \in DOMAIN <<Here>> : <<Here>>[m] = body[l]
        BY <1>3, <2>2, <2>3
    <2>5. Faithful(body) => Faithful(body)'
        BY <2>1 DEF Keep, Faithful, Written, Joined
    <2> QED BY <1>1, <2>1, <2>2, <2>3, <2>4, <2>5, LaterPending
<1>5. ASSUME LoadsThrough(j), Known(body[j].sym), NEW nodes \in Seq(Node), Keep(nodes, Resume(j)),
             NEW sym, NEW off,
             \/ body' = RewritePageUses(j, Here.dst, sym) /\ Len(body') = Len(body)
             \/ body' = RewriteGOTUses(j, Here.dst, sym, off) /\ Len(body') = Len(body)
      PROVE  Pending'
    <2>1. /\ j # 0 /\ body[j].op \in {"load", "gotload"}
        BY <1>5 DEF LoadsThrough
    <2>2. /\ Resume(j) \in i + 1 .. Len(body) + 1
          /\ \A l \in i .. Resume(j) - 1 : l = i \/ ~ IsAdrp(body[l])
        BY <1>1, <2>1, OneAdrp
    <2>3. HalvesMatch(program) => \A l \in i .. Resume(j) - 1 : ~ (IsAdrp(body[l]) /\ ~ Known(body[l].sym))
        <3> SUFFICES ASSUME HalvesMatch(program), NEW l \in i .. Resume(j) - 1, IsAdrp(body[l])
                     PROVE  Known(body[l].sym)
            OBVIOUS
        <3>1. body[j].sym = Here.sym
            BY <1>1, <1>2, <1>5, LoadsTogether
        <3>2. l = i
            BY <2>2
        <3> QED BY <1>3, <1>5, <3>1, <3>2
    <2>4. program' = program
        BY <1>5 DEF Keep
    <2>5. /\ \A l \in DOMAIN body : IsAdrp(body[l]) => body'[l] = body[l]
          /\ Faithful(body) => Faithful(body)'
        BY <1>1, <1>5, <2>4, FaithfulAhead
    <2>6. Len(body') = Len(body)
        BY <1>5
    <2> HIDE DEF j
    <2> QED BY <1>1, <1>5, <2>2, <2>3, <2>5, <2>6, LaterPending
<1>6. CASE RewritePageLoad
    <2> DEFINE n == Address(Here.dst, body[j].sym, 0, Here.line)
               m == Numbered(body[j])
    <2>1. /\ LoadsThrough(j) /\ body[j].sym \in Tables /\ body[j].op = "load"
          /\ Keep(<<n, m>>, Resume(j)) /\ body' = RewritePageUses(j, Here.dst, body[j].sym)
        BY <1>6 DEF RewritePageLoad
    <2>2. j \in i + 1 .. Len(body)
        BY <1>1, <2>1, OneAdrp DEF LoadsThrough
    <2>3. body[j] \in Node
        BY <1>1, <2>2
    <2>4. n \in Node
        <3>1. /\ Here.dst \in Reg \cup {NoReg} /\ Here.line \in Nat \ {0}
              /\ body[j].sym \in Sym \cup {NoSym} /\ 0 \in 0 .. MaxOff
            BY <1>3, <2>3, FieldTypes, MaxOffAssumption
        <3> QED BY <3>1, AddressNode
    <2>5. m \in Node
        BY <2>3, NumberedNode
    <2>6. Len(body') = Len(body)
        BY <1>1, <2>1, PageUsesControl DEF SameControl
    <2>7. Known(body[j].sym)
        BY <2>1 DEF Known
    <2> HIDE DEF n, m
    <2>8. <<n, m>> \in Seq(Node)
        BY <2>4, <2>5
    <2> QED BY <1>5, <2>1, <2>6, <2>7, <2>8
<1>7. CASE RewriteGOTLoad /\ Fail
    BY <1>7, NothingPending DEF Fail
<1>8. CASE RewriteGOTLoad /\ ~ Fail
    <2> DEFINE n == Address(body[j].dst, body[j].sym, body[j].off, Here.line)
    <2>1. /\ LoadsThrough(j) /\ Known(body[j].sym) /\ body[j].op = "gotload"
          /\ Keep(<<n>>, Resume(j)) /\ body' = RewriteGOTUses(j, Here.dst, body[j].sym, body[j].off)
        BY <1>8 DEF RewriteGOTLoad
    <2>2. j \in i + 1 .. Len(body)
        BY <1>1, <2>1, OneAdrp DEF LoadsThrough
    <2>3. body[j] \in Node
        BY <1>1, <2>2
    <2>4. n \in Node
        <3>1. /\ body[j].dst \in Reg \cup {NoReg} /\ Here.line \in Nat \ {0}
              /\ body[j].sym \in Sym \cup {NoSym} /\ body[j].off \in 0 .. MaxOff
            BY <1>3, <2>3, FieldTypes
        <3> QED BY <3>1, AddressNode
    <2>5. Len(body') = Len(body)
        <3>1. body[j].sym \in Sym
            BY ONLY <2>1 DEF Known, Sym
        <3>2. body[j].off \in 0 .. MaxOff
            BY ONLY <2>3, FieldTypes
        <3>3. SameControl(body, RewriteGOTUses(j, Here.dst, body[j].sym, body[j].off))
            BY ONLY <1>1, <3>1, <3>2, GOTUsesControl
        <3> QED BY ONLY <2>1, <3>3 DEF SameControl
    <2> HIDE DEF n
    <2>6. <<n>> \in Seq(Node)
        BY <2>4
    <2> QED BY <1>5, <2>1, <2>5, <2>6
<1> QED BY <1>4, <1>6, <1>7, <1>8

\* rewriteRemainingPageBases
LEMMA BasesPending ==
    ASSUME IInv, Pending, RejectBase \/ RewriteGOTBase \/ RewritePageBase \/ KeepInBases PROVE Pending'
<1>1. /\ phase = "bases" /\ i \in 1 .. Len(body) /\ TypeOK /\ Len(body) \in Nat /\ i \in Nat
      /\ body \in Seq(Node) /\ DOMAIN body = 1 .. Len(body)
    BY DEF RejectBase, RewriteGOTBase, RewritePageBase, KeepInBases, At, IInv, TypeOK
<1>2. /\ Here = body[i] /\ Here \in Node
      /\ i + 1 \in i + 1 .. Len(body) + 1 /\ \A l \in i .. (i + 1) - 1 : l = i
    BY <1>1 DEF Here
<1>3. CASE RejectBase
    BY <1>3, NothingPending DEF RejectBase, Fail
<1>4. CASE KeepInBases
    <2>1. Keep(<<Here>>, i + 1) /\ body' = body /\ ~ IsAdrp(Here)
        BY <1>4 DEF KeepInBases
    <2>2. <<Here>> \in Seq(Node) /\ DOMAIN <<Here>> = {1} /\ <<Here>>[1] = Here
        BY <1>2
    <2>3. \A l \in i .. (i + 1) - 1 : \E m \in DOMAIN <<Here>> : <<Here>>[m] = body[l]
        BY <1>2, <2>2
    <2>4. Faithful(body) => Faithful(body)'
        BY <2>1 DEF Keep, Faithful, Written, Joined
    <2>5. \A m \in DOMAIN <<Here>> : ~ IsAdrp(<<Here>>[m])
        BY <2>1, <2>2
    <2> QED BY <1>1, <1>2, <2>1, <2>2, <2>3, <2>4, <2>5, LaterPending
<1>5. ASSUME Known(Here.sym), NEW nodes \in Seq(Node), Keep(nodes, i + 1),
             \A m \in DOMAIN nodes : ~ IsAdrp(nodes[m]), Len(body') = Len(body), NEW sym, NEW off,
             body' = RewritePageUses(i, Here.dst, sym) \/ body' = RewriteGOTUses(i, Here.dst, sym, off)
      PROVE  Pending'
    <2>1. program' = program
        BY <1>5 DEF Keep
    <2>2. /\ \A l \in DOMAIN body : IsAdrp(body[l]) => body'[l] = body[l]
          /\ Faithful(body) => Faithful(body)'
        BY <1>1, <1>5, <2>1, FaithfulAhead
    <2>3. \A l \in i .. (i + 1) - 1 : Known(body[l].sym)
        BY <1>2, <1>5
    <2> QED BY <1>1, <1>2, <1>5, <2>2, <2>3, LaterPending
<1>6. CASE RewriteGOTBase
    <2>1. /\ Keep(<<>>, i + 1) /\ Known(Here.sym)
          /\ body' = RewriteGOTUses(i, Here.dst, Here.sym, 0)
        BY <1>6 DEF RewriteGOTBase
    <2>2. Len(body') = Len(body)
        <3>1. Here.sym \in Sym /\ 0 \in 0 .. MaxOff
            BY <2>1, MaxOffAssumption DEF Known, Sym
        <3> QED BY <1>1, <2>1, <3>1, GOTUsesControl DEF SameControl
    <2>3. <<>> \in Seq(Node) /\ DOMAIN <<>> = {}
        OBVIOUS
    <2> QED BY <1>5, <2>1, <2>2, <2>3
<1>7. CASE RewritePageBase
    <2> DEFINE n == Address(Here.dst, Here.sym, Addend, Here.line)
    <2>1. /\ Keep(<<n>>, i + 1) /\ Known(Here.sym)
          /\ body' = RewritePageUses(i, Here.dst, Here.sym)
        BY <1>7 DEF RewritePageBase
    <2>2. Len(body') = Len(body)
        BY <1>1, <2>1, PageUsesControl DEF SameControl
    <2>3. n \in Node
        <3>1. Addend \in 0 .. MaxOff
            BY <1>2, MaxOffAssumption DEF Addend, Node, Fields
        <3>2. /\ Here.dst \in Reg \cup {NoReg} /\ Here.line \in Nat \ {0}
              /\ Here.sym \in Sym \cup {NoSym}
            BY <1>2, FieldTypes
        <3> QED BY <3>1, <3>2, AddressNode
    <2>4. ~ IsAdrp(n)
        BY AddressWritten
    <2> HIDE DEF n
    <2>5. <<n>> \in Seq(Node) /\ \A m \in DOMAIN <<n>> : ~ IsAdrp(<<n>>[m])
        BY <2>3, <2>4
    <2> QED BY <1>5, <2>1, <2>2, <2>5
<1> QED BY <1>3, <1>4, <1>6, <1>7

\* The end of a pass: after the bases no ADRP is left that could have waited.
LEMMA EndPassPending ==
    ASSUME IInv, Pending, EndPass PROVE Pending'
<1>1. /\ phase \in Compacting /\ i > Len(body) /\ body' = out /\ out' = <<>> /\ i' = 1
      /\ program' = program
      /\ phase' = CASE phase = "pairs" -> "loads" [] phase = "loads" -> "bases" [] phase = "bases" -> "offsets"
      /\ out \in Seq(Node) /\ Len(out) \in Nat /\ DOMAIN out = 1 .. Len(out)
      /\ i \in Nat /\ Len(body) \in Nat
    BY DEF EndPass, Compacting, IInv, TypeOK
<1>2. /\ phase' # "pairs" /\ phase' = "loads" => phase = "pairs"
      /\ phase' \in Compacting => phase' \in {"loads", "bases"}
      /\ phase' \in {"offsets", "run", "end"} => phase = "bases"
    BY <1>1 DEF Compacting
<1>3. ASSUME HalvesMatch(program), NEW k \in Missing
      PROVE  \E l \in DOMAIN out : out[l] = program[k]
    <2>1. Waits(k)
        BY <1>1, <1>3 DEF Pending
    <2>2. i .. Len(body) = {}
        BY <1>1
    <2> QED BY <2>1, <2>2 DEF Waits
<1>4. phase' = "loads" => Faithful(body)'
    <2>1. phase = "pairs" => Faithful(out)
        BY DEF Pending
    <2> QED BY <1>1, <1>2, <2>1 DEF Faithful, Written, Joined
<1>5. \A l \in DOMAIN out' : ~ IsAdrp(out'[l])
    BY <1>1
<1>6. HalvesMatch(program) => (\A k \in Missing : Waits(k))'
    <2>1. Missing' = Missing
        BY <1>1 DEF Missing
    <2>2. \A l \in DOMAIN out : l \in i' .. Len(body') /\ body'[l] = out[l]
        BY <1>1
    <2>3. HalvesMatch(program) => \A k \in Missing : \E l \in i' .. Len(body') : body'[l] = program'[k]
        BY <1>1, <1>3, <2>2
    <2> QED BY <2>1, <2>3 DEF Waits
<1>7. HalvesMatch(program) /\ phase = "bases" => Missing' = {}
    <2>1. phase = "bases" => \A l \in DOMAIN out : ~ IsAdrp(out[l])
        BY DEF Pending
    <2>2. \A k \in Missing : IsAdrp(program[k])
        BY MissingFacts
    <2>3. Missing' = Missing
        BY <1>1 DEF Missing
    <2> QED BY <1>3, <2>1, <2>2, <2>3
<1>8. (HalvesMatch(program))' <=> HalvesMatch(program)
    BY <1>1
<1>9. \A k \in DOMAIN program' : program'[k].line = k
    BY <1>1 DEF Pending
<1> QED BY ONLY <1>2, <1>4, <1>5, <1>6, <1>7, <1>8, <1>9 DEF Pending, Compacting

LEMMA InitPending == Init => Pending
<1> SUFFICES ASSUME Init PROVE Pending
    OBVIOUS
<1>1. /\ program \in Seq(Node) /\ \A k \in DOMAIN program : program[k].line = k
      /\ body = program /\ i = 1 /\ out = <<>> /\ phase = "pairs"
      /\ DOMAIN program = 1 .. Len(program)
    BY ProgramsAssumption DEF Init
<1>2. Faithful(out)
    BY <1>1 DEF Faithful
<1>3. \A k \in Missing : Waits(k)
    BY <1>1 DEF Missing, Waits
<1> QED BY <1>1, <1>2, <1>3 DEF Pending

LEMMA NextPending ==
    ASSUME IInv, Pending, [Next]_vars PROVE Pending'
<1>1. CASE UNCHANGED vars \/ Finished
    <2>1. UNCHANGED <<program, phase, body, i, out>>
        BY <1>1 DEF Finished, vars
    <2> QED BY <2>1 DEF Pending, Missing, Waits, Faithful, Written, Joined
<1>2. CASE RewriteOffset \/ RewriteGOTOffset \/ KeepInOffsets \/ Check \/ Execute \/ End
    <2>1. /\ program' = program
          /\ \/ phase' = "failed"
             \/ phase \in {"offsets", "run", "end"} /\ phase' \in {"offsets", "run", "end"}
        BY <1>2 DEF RewriteOffset, RewriteGOTOffset, KeepInOffsets, Check, Execute, End, At, Fail
    <2> QED BY <2>1, NothingPending
<1> QED BY <1>1, <1>2, PairsPending, LoadsPending, BasesPending, EndPassPending DEF Next

\* Where the halves of every address belong together, a function with an ADRP of
\* an unknown symbol is never converted.
THEOREM UnknownFails == Spec => [](HalvesMatch(program) => UnresolvedFails)
<1>1. IInv /\ Pending /\ [Next]_vars => Pending'
    BY NextPending
<1>2. Pending => (HalvesMatch(program) => UnresolvedFails)
    BY DEF Pending, UnresolvedFails, Missing
<1> QED BY <1>1, <1>2, InitPending, Invariance, PTL DEF Spec

-----------------------------------------------------------------------------
(***************************************************************************)
(* Addresses.  First what becomes of each line: Left is what the pass has, *)
(* kept or still to read, and Fate what a node of it may be.               *)
(***************************************************************************)
Left == IF phase \in Compacting
        THEN {out[l] : l \in DOMAIN out} \cup {body[l] : l \in i .. Len(body)}
        ELSE {body[l] : l \in DOMAIN body}

Present(k) == \E n \in Left : n.line = k

\* What an ADRP on its own becomes has its addend or not, as its uses need it.
Right(k, o) ==
    program[k].op = "adrp" =>
        /\ \A j : ~ Completes(program, k, j)
        /\ o \in {0, program[k].off}
        /\ \A u \in DOMAIN program : Finds(program, u, k) =>
             /\ program[u].sym = NoSym => o = program[k].off
             /\ program[u].sym = program[k].sym => o = 0

Own(n) ==
    /\ n.line \in DOMAIN program
    /\ LET p == program[n.line]
       IN  \/ n = p
           \/ p.op \in {"add", "load", "gotload"} /\ n = Numbered(p)
           \/ p.op = "gotload" /\ n = Address(p.dst, p.sym, 0, p.line)
           \/ IsAdrp(p) /\ \E o : Right(n.line, o) /\ n = Address(p.dst, p.sym, o, p.line)

\* What the ADRP of line k becomes together with line j.
Joint(k, j) == Address(program[j].dst, program[j].sym, program[j].off, k)

Fate(n) ==
    \/ Own(n)
    \/ \E j : Completes(program, n.line, j) /\ n = Joint(n.line, j) /\ ~ Present(j)

\* Lines that are not dropped unless with the ADRP they complete.
Lasting(k) == program[k].op \in {"adrp", "add", "load", "gotload"}

Accounted(k) == Present(k) \/ \E m : Completes(program, m, k) /\ Joint(m, k) \in Left

\* Line k is not completed by an addition.
Alone(k) == \A j : Completes(program, k, j) => program[j].op # "add"

AInv ==
    Addressed(program) /\ phase # "failed" =>
        /\ \A n \in Left : Fate(n)
        /\ \A k \in DOMAIN program : Lasting(k) => Accounted(k)
        /\ phase = "pairs" => \A l \in DOMAIN out : IsAdrp(out[l]) => Alone(out[l].line)
        /\ phase \in {"loads", "bases"} => \A n \in Left : IsAdrp(n) => Alone(n.line)
        /\ phase \in Compacting =>
             \A k, u \in DOMAIN program :
                program[k].op = "adrp" /\ Sees(program, k, u) /\ program[k] \in Left => program[u] \in Left
        /\ phase = "offsets" => \A l \in 1 .. i - 1 : Access(body[l]) => body[l].sym = NoSym
        /\ phase \in {"run", "end"} =>
             \A l \in DOMAIN body : /\ Access(body[l]) => body[l].sym = NoSym
                                    /\ ~ IsAdrp(body[l]) /\ body[l].op # "gotload"

\* One node of the pass has a line.
LEMMA OneLine ==
    ASSUME IInv, NEW n \in Left, NEW m \in Left, n.line = m.line, phase # "failed"
    PROVE  n = m
<1>1. /\ out \in Seq(Node) /\ body \in Seq(Node) /\ Len(out) \in Nat /\ Len(body) \in Nat /\ i \in Nat /\ i > 0
      /\ DOMAIN out = 1 .. Len(out) /\ DOMAIN body = 1 .. Len(body)
    BY DEF IInv, TypeOK
<1>2. InOrder(body) /\ \A k \in DOMAIN body : body[k].line \in Nat
    BY <1>1 DEF IInv, Order, Node, Fields
<1>3. \A k, l \in DOMAIN body : body[k].line = body[l].line => k = l
    <2> SUFFICES ASSUME NEW k \in DOMAIN body, NEW l \in DOMAIN body, body[k].line = body[l].line, k # l PROVE FALSE
        OBVIOUS
    <2>1. k < l \/ l < k
        BY <1>1
    <2> QED BY <1>2, <2>1 DEF InOrder
<1>4. CASE phase \notin Compacting
    BY <1>3, <1>4 DEF Left
<1>5. CASE phase \in Compacting
    <2>1. /\ InOrder(out) /\ \A k \in DOMAIN out : \A l \in i .. Len(body) : out[k].line < body[l].line
          /\ \A k \in DOMAIN out : out[k].line \in Nat
        BY <1>1, <1>5 DEF IInv, Order, Node, Fields
    <2>2. \A k, l \in DOMAIN out : out[k].line = out[l].line => k = l
        <3> SUFFICES ASSUME NEW k \in DOMAIN out, NEW l \in DOMAIN out, out[k].line = out[l].line, k # l PROVE FALSE
            OBVIOUS
        <3>1. k < l \/ l < k
            BY <1>1
        <3> QED BY <2>1, <3>1 DEF InOrder
    <2>3. \A k \in DOMAIN out : \A l \in i .. Len(body) : out[k].line # body[l].line
        <3> SUFFICES ASSUME NEW k \in DOMAIN out, NEW l \in i .. Len(body) PROVE out[k].line # body[l].line
            OBVIOUS
        <3>1. l \in DOMAIN body
            BY <1>1
        <3> QED BY <1>2, <2>1, <3>1
    <2>4. \A l \in i .. Len(body) : l \in DOMAIN body
        BY <1>1
    <2> QED BY <1>3, <1>5, <2>2, <2>3, <2>4 DEF Left
<1> QED BY <1>4, <1>5

\* What the pass has after a step.
LEMMA LeftAfter ==
    ASSUME TypeOK, phase \in Compacting, i \in 1 .. Len(body), NEW nodes \in Seq(Node),
           NEW next \in i + 1 .. Len(body) + 1, Keep(nodes, next), Len(body') = Len(body)
    PROVE  /\ Left' = {out[l] : l \in DOMAIN out} \cup {nodes[m] : m \in DOMAIN nodes}
                          \cup {body'[l] : l \in next .. Len(body)}
           /\ Left = {out[l] : l \in DOMAIN out} \cup {body[l] : l \in i .. next - 1}
                          \cup {body[l] : l \in next .. Len(body)}
<1>1. /\ out' = out \o nodes /\ i' = next /\ phase' = phase
      /\ out \in Seq(Node) /\ Len(body) \in Nat /\ Len(out) \in Nat /\ DOMAIN out = 1 .. Len(out)
      /\ DOMAIN nodes = 1 .. Len(nodes) /\ i \in Nat
    BY DEF Keep, TypeOK
<1>2. /\ \A l \in DOMAIN out : l \in DOMAIN out' /\ out'[l] = out[l]
      /\ \A m \in DOMAIN nodes : Len(out) + m \in DOMAIN out' /\ out'[Len(out) + m] = nodes[m]
      /\ \A l \in DOMAIN out' : (l \in DOMAIN out /\ out'[l] = out[l])
                                  \/ \E m \in DOMAIN nodes : out'[l] = nodes[m]
    <2> DEFINE both == out \o nodes
    <2>1. /\ Len(both) = Len(out) + Len(nodes) /\ both \in Seq(Node)
          /\ \A k \in 1 .. Len(out) : both[k] = out[k]
          /\ \A k \in 1 .. Len(nodes) : both[Len(out) + k] = nodes[k]
          /\ \A k \in DOMAIN both :
                k \in DOMAIN out \/ (k > Len(out) /\ k - Len(out) \in DOMAIN nodes /\ both[k] = nodes[k - Len(out)])
        BY <1>1, Appended
    <2>2. both = out'
        BY <1>1
    <2> HIDE DEF both
    <2>3. DOMAIN both = 1 .. Len(both) /\ Len(nodes) \in Nat
        BY <2>1
    <2> QED BY <1>1, <2>1, <2>2, <2>3
<1>3. {out'[l] : l \in DOMAIN out'} = {out[l] : l \in DOMAIN out} \cup {nodes[m] : m \in DOMAIN nodes}
    BY <1>2
<1>4. Left' = {out'[l] : l \in DOMAIN out'} \cup {body'[l] : l \in next .. Len(body)}
    BY <1>1 DEF Left, Compacting
<1>5. i .. Len(body) = (i .. next - 1) \cup (next .. Len(body))
    BY <1>1
<1> QED BY <1>3, <1>4, <1>5 DEF Left

\* Behind an ADRP comes one instruction, and before it one ADRP.
LEMMA OnePartner ==
    ASSUME program \in Seq(Node), NEW k, NEW m, NEW j, Completes(program, k, j)
    PROVE  /\ Completes(program, k, m) => m = j
           /\ Completes(program, m, j) => m = k
           /\ k \in DOMAIN program /\ j \in DOMAIN program /\ k < j /\ k \in Nat /\ j \in Nat /\ k > 0
           /\ \A l \in k + 1 .. j - 1 : program[l].op = "lloh"
<1>1. DOMAIN program = 1 .. Len(program) /\ Len(program) \in Nat
    OBVIOUS
<1>2. \A a, b : Completes(program, a, b) =>
          /\ a \in DOMAIN program /\ b \in DOMAIN program /\ a < b
          /\ \A l \in a + 1 .. b - 1 : program[l].op = "lloh"
          /\ IsAdrp(program[a]) /\ program[b].op \in {"add", "gotload"}
    BY DEF Completes, Behind
<1>3. ASSUME Completes(program, k, m) PROVE m = j
    <2>1. ~ (m < j) /\ ~ (j < m)
        BY <1>1, <1>2, <1>3
    <2> QED BY <1>1, <1>2, <1>3, <2>1
<1>4. ASSUME Completes(program, m, j) PROVE m = k
    <2>1. ~ (m < k) /\ ~ (k < m)
        <3>1. program[m].op # "lloh" /\ program[k].op # "lloh"
            BY <1>2, <1>4 DEF IsAdrp
        <3> QED BY <1>1, <1>2, <1>4, <3>1
    <2> QED BY <1>1, <1>2, <1>4, <2>1
<1> QED BY <1>1, <1>2, <1>3, <1>4

\* Fate and what it is made of depend on the program and on what is left.
LEMMA SameProgram ==
    ASSUME program' = program
    PROVE  /\ \A n : Own(n)' <=> Own(n)
           /\ \A k, j : Joint(k, j)' = Joint(k, j) /\ (Completes(program, k, j)' <=> Completes(program, k, j))
           /\ \A k : (Alone(k)' <=> Alone(k)) /\ (Lasting(k)' <=> Lasting(k))
           /\ \A k, o : Right(k, o)' <=> Right(k, o)
           /\ \A k, u : Sees(program, k, u)' <=> Sees(program, k, u)
<1>1. /\ \A k, j : Completes(program, k, j)' <=> Completes(program, k, j)
      /\ \A k, u : Finds(program, u, k)' <=> Finds(program, u, k)
      /\ \A k, u : Sees(program, k, u)' <=> Sees(program, k, u)
    OBVIOUS
<1>2. /\ \A k, j : Joint(k, j)' = Joint(k, j)
      /\ \A k : (Alone(k)' <=> Alone(k)) /\ (Lasting(k)' <=> Lasting(k))
    BY <1>1 DEF Joint, Alone, Lasting
<1>3. \A k, o : Right(k, o)' <=> Right(k, o)
    BY <1>1 DEF Right
<1>4. \A n : Own(n)' <=> Own(n)
    BY <1>3 DEF Own
<1> QED BY <1>1, <1>2, <1>3, <1>4

LEMMA Compacts ==
    ASSUME IInv, phase \in Compacting, i \in 1 .. Len(body),
           NEW nodes \in Seq(Node), NEW next \in i + 1 .. Len(body) + 1, Keep(nodes, next), Len(body') = Len(body),
           \A n \in Left : Fate(n),
           \A k \in DOMAIN program : Lasting(k) => Accounted(k),
           \A l \in next .. Len(body) :
                /\ body'[l].line = body[l].line
                /\ Own(body[l]) => Own(body'[l])
                /\ body[l].op = "address" => body'[l] = body[l],
           \A m \in DOMAIN nodes :
                /\ \E l \in i .. next - 1 : nodes[m].line = body[l].line
                /\ \/ Own(nodes[m]) \/ nodes[m] \in Left
                   \/ \E j : /\ Completes(program, nodes[m].line, j) /\ nodes[m] = Joint(nodes[m].line, j)
                             /\ \E l \in i .. next - 1 : body[l].line = j
                             /\ \A x \in DOMAIN nodes : nodes[x].line # j,
           \A l \in i .. next - 1 :
                \/ \E m \in DOMAIN nodes : nodes[m].line = body[l].line /\ (body[l].op = "address" => nodes[m] = body[l])
                \/ body[l].op # "address" /\ ~ Lasting(body[l].line)
                \/ /\ body[l].op # "address"
                   /\ \E k : Completes(program, k, body[l].line) /\ \E m \in DOMAIN nodes : nodes[m] = Joint(k, body[l].line)
    PROVE  /\ (\A n \in Left : Fate(n))'
           /\ (\A k \in DOMAIN program : Lasting(k) => Accounted(k))'
           /\ \A n \in Left' : \E m \in Left : m.line = n.line
<1>1. /\ Left' = {out[l] : l \in DOMAIN out} \cup {nodes[m] : m \in DOMAIN nodes}
                          \cup {body'[l] : l \in next .. Len(body)}
      /\ Left = {out[l] : l \in DOMAIN out} \cup {body[l] : l \in i .. next - 1}
                          \cup {body[l] : l \in next .. Len(body)}
    BY LeftAfter DEF IInv
<1>2. program' = program /\ phase # "failed"
    BY DEF Keep, Compacting
<1>0. /\ \A l \in DOMAIN body : body[l].line \in Nat
      /\ \A l \in DOMAIN out : out[l].line \in Nat
      /\ InOrder(body)
      /\ DOMAIN body = 1 .. Len(body) /\ Len(body) \in Nat /\ i \in Nat
    <2>1. body \in Seq(Node) /\ out \in Seq(Node) /\ i \in Nat
        BY DEF IInv, TypeOK
    <2>2. \A n \in Node : n.line \in Nat
        BY DEF Node, Fields
    <2> QED BY <2>1, <2>2 DEF IInv, Order
<1>3. \A n \in Left' : \E m \in Left : m.line = n.line
    BY <1>1
<1>4. \A k : Present(k)' => Present(k)
    BY <1>3 DEF Present
<1>5. \A l \in i .. next - 1 : \A m \in Left : m.line = body[l].line => m = body[l]
    BY <1>1, <1>2, OneLine
\* A joint that is there stays.
<1>6. ASSUME NEW n \in Left, n.op = "address" PROVE n \in Left'
    <2>1. CASE \E l \in i .. next - 1 : n = body[l]
        <3>1. PICK l \in i .. next - 1 : n = body[l]
            BY <2>1
        <3>2. \E m \in DOMAIN nodes : nodes[m] = body[l]
            BY <1>6, <3>1
        <3> QED BY <1>1, <3>1, <3>2
    <2>2. CASE \E l \in DOMAIN out : n = out[l]
        BY <1>1, <2>2
    <2>3. CASE \E l \in next .. Len(body) : n = body[l]
        <3>1. PICK l \in next .. Len(body) : n = body[l]
            BY <2>3
        <3>2. body'[l] = n
            BY <1>6, <3>1
        <3> QED BY <1>1, <3>2
    <2> QED BY <1>1, <2>1, <2>2, <2>3
<1>7. ASSUME NEW n \in Left', ~ Own(n)
      PROVE  \E j : Completes(program, n.line, j) /\ n = Joint(n.line, j) /\ ~ Present(j)'
    <2>1. CASE n \in Left
        BY <1>4, <1>7, <2>1 DEF Fate
    <2>2. CASE \E m \in DOMAIN nodes : n = nodes[m] /\ n \notin Left
        <3>1. PICK m \in DOMAIN nodes : n = nodes[m] /\ n \notin Left
            BY <2>2
        <3>2. PICK j : /\ Completes(program, n.line, j) /\ n = Joint(n.line, j)
                       /\ \E l \in i .. next - 1 : body[l].line = j
                       /\ \A x \in DOMAIN nodes : nodes[x].line # j
            BY <1>7, <3>1
        <3>3. PICK l \in i .. next - 1 : body[l].line = j
            BY <3>2
        <3>4. body[l] \in Left
            BY <1>1
        <3>5. ASSUME NEW m2 \in Left', m2.line = j PROVE FALSE
            <4>1. CASE \E x \in DOMAIN out : m2 = out[x]
                <5>1. m2 \in Left /\ m2 = body[l]
                    BY <1>1, <1>5, <3>3, <3>5, <4>1
                <5>2. PICK x \in DOMAIN out : m2 = out[x]
                    BY <4>1
                <5>3. /\ l \in i .. Len(body) /\ \A a \in DOMAIN out : \A b \in i .. Len(body) : out[a].line < body[b].line
                    BY DEF IInv, TypeOK, Order
                <5>4. l \in DOMAIN body /\ body[l].line \in Nat
                    BY ONLY <1>0, i \in 1 .. Len(body), l \in i .. next - 1, next \in i + 1 .. Len(body) + 1
                <5>5. out[x].line < body[l].line
                    BY ONLY <5>2, <5>3
                <5>6. out[x] = body[l]
                    BY ONLY <5>1, <5>2
                <5> QED BY ONLY <5>4, <5>5, <5>6
            <4>2. CASE \E x \in next .. Len(body) : m2 = body'[x]
                <5>1. PICK x \in next .. Len(body) : m2 = body'[x]
                    BY <4>2
                <5>2. body[x].line = body[l].line /\ x \in DOMAIN body /\ l \in DOMAIN body /\ l < x
                    BY <3>3, <3>5, <5>1 DEF IInv, TypeOK
                <5> QED BY <1>0, <5>2 DEF InOrder
            <4> QED BY <1>1, <3>2, <3>5, <4>1, <4>2
        <3> QED BY <3>2, <3>5 DEF Present
    <2>3. CASE \E l \in next .. Len(body) : n = body'[l]
        <3>1. PICK l \in next .. Len(body) : n = body'[l]
            BY <2>3
        <3>2. body[l] \in Left /\ ~ Own(body[l]) /\ n.line = body[l].line
            BY <1>1, <1>7, <3>1
        <3>3. PICK j : Completes(program, body[l].line, j) /\ body[l] = Joint(body[l].line, j) /\ ~ Present(j)
            BY <3>2 DEF Fate
        <3>4. body[l].op = "address"
            BY <3>3 DEF Joint, Address
        <3> QED BY <1>4, <3>1, <3>3, <3>4
    <2> QED BY <1>1, <2>1, <2>2, <2>3
<1>8. ASSUME NEW k \in DOMAIN program, Lasting(k)
      PROVE  (\E n \in Left' : n.line = k) \/ \E m : Completes(program, m, k) /\ Joint(m, k) \in Left'
    <2>1. CASE \E m : Completes(program, m, k) /\ Joint(m, k) \in Left
        <3>1. \A m : Joint(m, k).op = "address"
            BY DEF Joint, Address
        <3> QED BY <1>6, <2>1, <3>1
    <2>2. CASE \E l \in DOMAIN out : out[l].line = k
        BY <1>1, <2>2
    <2>3. CASE \E l \in next .. Len(body) : body[l].line = k
        BY <1>1, <2>3
    <2>4. CASE \E l \in i .. next - 1 : body[l].line = k
        <3>1. PICK l \in i .. next - 1 : body[l].line = k
            BY <2>4
        <3> QED BY <1>1, <1>8, <3>1
    <2> QED BY <1>1, <1>8, <2>1, <2>2, <2>3, <2>4 DEF Accounted, Present
<1>9. (\A n \in Left : Fate(n))'
    BY <1>2, <1>7, SameProgram DEF Fate
<1>10. (\A k \in DOMAIN program : Lasting(k) => Accounted(k))'
    BY <1>2, <1>8, SameProgram DEF Accounted, Present
<1> QED BY <1>3, <1>9, <1>10

\* A node that is no address is the line it was, up to its symbol.
LEMMA FateFacts ==
    ASSUME IInv, Pending, WellFormed(program), NEW n \in Left, Fate(n), phase # "failed"
    PROVE  /\ n \in Node /\ n.line \in DOMAIN program /\ program[n.line] \in Node /\ program[n.line].line = n.line
           /\ n.op # "address" =>
                /\ Own(n) /\ n.op = program[n.line].op
                /\ n = program[n.line] \/ (n.op \in {"add", "load", "gotload"} /\ n = Numbered(program[n.line]))
                /\ n.sym # NoSym => n = program[n.line]
                /\ n.op \notin {"add", "load", "gotload"} => n = program[n.line]
           /\ n.op = "address" => program[n.line].op = "gotload" \/ IsAdrp(program[n.line])
<1>1. n \in Node /\ program \in Seq(Node) /\ \A k \in DOMAIN program : program[k].line = k
    <2>1. out \in Seq(Node) /\ body \in Seq(Node) /\ i \in Nat /\ i > 0 /\ program \in Seq(Node)
        BY DEF IInv, TypeOK
    <2>2. \A l \in i .. Len(body) : l \in DOMAIN body
        BY <2>1
    <2> QED BY <2>1, <2>2 DEF Left, Pending
<1>2. n.line \in DOMAIN program
    BY DEF Fate, Own, Completes, Behind
<1> DEFINE p == program[n.line]
<1>3. p \in Node /\ p.line = n.line /\ p.op # "address"
    BY <1>1, <1>2 DEF WellFormed
<1>4. \A dst, sym, off, line : Address(dst, sym, off, line).op = "address"
    BY DEF Address
<1>5. Numbered(p).op = p.op /\ Numbered(p).sym = NoSym
    BY <1>3 DEF Numbered, Node, Fields
<1>6. ASSUME n.op # "address"
      PROVE  Own(n) /\ (n = p \/ (p.op \in {"add", "load", "gotload"} /\ n = Numbered(p)))
    <2>1. Own(n)
        BY <1>4, <1>6 DEF Fate, Joint
    <2> QED BY <1>4, <1>6, <2>1 DEF Own
<1>7. ASSUME n.op = "address" PROVE p.op = "gotload" \/ IsAdrp(p)
    <2>1. n # p /\ n # Numbered(p)
        BY <1>3, <1>5, <1>7
    <2>2. CASE Own(n)
        BY <2>1, <2>2 DEF Own
    <2>3. CASE \E j : Completes(program, n.line, j)
        BY <2>3 DEF Completes
    <2> QED BY <2>2, <2>3 DEF Fate
<1> QED BY <1>1, <1>2, <1>3, <1>5, <1>6, <1>7

\* The nodes ahead are left.
LEMMA AheadLeft ==
    ASSUME IInv, phase \in Compacting, i \in 1 .. Len(body)
    PROVE  /\ \A l \in i .. Len(body) : l \in DOMAIN body /\ body[l] \in Left
           /\ \A l \in DOMAIN body : l \in Nat /\ body[l].line \in Nat
           /\ \A n \in Left : (\E l \in i .. Len(body) : n = body[l])
                                 \/ (n \in {out[l] : l \in DOMAIN out} /\ \A l \in i .. Len(body) : n.line < body[l].line)
           /\ \A l, m \in DOMAIN body : l < m <=> body[l].line < body[m].line
           /\ i \in Nat /\ Len(body) \in Nat /\ DOMAIN body = 1 .. Len(body)
<1>1. body \in Seq(Node) /\ out \in Seq(Node) /\ i \in Nat /\ Len(body) \in Nat /\ DOMAIN body = 1 .. Len(body)
    BY DEF IInv, TypeOK
<1>2. \A l \in i .. Len(body) : l \in DOMAIN body /\ body[l] \in Left
    BY <1>1 DEF Left
<1>3. \A l \in DOMAIN body : l \in Nat /\ body[l].line \in Nat
    BY <1>1 DEF Node, Fields
<1>4. \A n \in Left : (\E l \in i .. Len(body) : n = body[l])
                         \/ (n \in {out[l] : l \in DOMAIN out} /\ \A l \in i .. Len(body) : n.line < body[l].line)
    BY DEF Left, IInv, Order
<1>5. \A l, m \in DOMAIN body : l < m => body[l].line < body[m].line
    BY DEF IInv, Order, InOrder
<1>6. \A l, m \in DOMAIN body : body[l].line < body[m].line => l < m
    <2> SUFFICES ASSUME NEW l \in DOMAIN body, NEW m \in DOMAIN body, body[l].line < body[m].line, ~ (l < m)
                 PROVE  FALSE
        OBVIOUS
    <2>1. l = m \/ m < l
        BY <1>3
    <2> QED BY <1>3, <1>5, <2>1
<1> QED BY <1>1, <1>2, <1>3, <1>4, <1>5, <1>6

\* What a compacting step has to show.
LEMMA CompactStep ==
    ASSUME IInv, Pending, AInv, Addressed(program), phase \in Compacting, i \in 1 .. Len(body),
           NEW nodes \in Seq(Node), NEW next \in i + 1 .. Len(body) + 1, Keep(nodes, next), Len(body') = Len(body),
           \A l \in next .. Len(body) :
                /\ body'[l].line = body[l].line
                /\ Own(body[l]) => Own(body'[l])
                /\ body[l].op = "address" => body'[l] = body[l]
                /\ IsAdrp(body'[l]) => body'[l] = body[l],
           \A m \in DOMAIN nodes :
                /\ \E l \in i .. next - 1 : nodes[m].line = body[l].line
                /\ \/ Own(nodes[m]) \/ nodes[m] \in Left
                   \/ \E j : /\ Completes(program, nodes[m].line, j) /\ nodes[m] = Joint(nodes[m].line, j)
                             /\ \E l \in i .. next - 1 : body[l].line = j
                             /\ \A x \in DOMAIN nodes : nodes[x].line # j
                /\ IsAdrp(nodes[m]) => nodes[m] \in Left /\ (phase = "pairs" => Alone(nodes[m].line)),
           \A l \in i .. next - 1 :
                \/ \E m \in DOMAIN nodes : nodes[m].line = body[l].line /\ (body[l].op = "address" => nodes[m] = body[l])
                \/ body[l].op # "address" /\ ~ Lasting(body[l].line)
                \/ /\ body[l].op # "address"
                   /\ \E k : Completes(program, k, body[l].line) /\ \E m \in DOMAIN nodes : nodes[m] = Joint(k, body[l].line),
           \A k, u \in DOMAIN program :
                program[k].op = "adrp" /\ Sees(program, k, u) /\ program[k] \in Left /\ program[u] \in Left =>
                    program[k] \notin Left' \/ program[u] \in Left'
    PROVE  AInv'
<1>1. phase' = phase /\ program' = program /\ phase # "failed" /\ phase \notin {"offsets", "run", "end"}
    BY DEF Keep, Compacting
<1>2. /\ \A n \in Left : Fate(n)
      /\ \A k \in DOMAIN program : Lasting(k) => Accounted(k)
      /\ phase = "pairs" => \A l \in DOMAIN out : IsAdrp(out[l]) => Alone(out[l].line)
      /\ phase \in {"loads", "bases"} => \A n \in Left : IsAdrp(n) => Alone(n.line)
      /\ \A k, u \in DOMAIN program :
            program[k].op = "adrp" /\ Sees(program, k, u) /\ program[k] \in Left => program[u] \in Left
    BY <1>1 DEF AInv
<1>3. /\ (\A n \in Left : Fate(n))'
      /\ (\A k \in DOMAIN program : Lasting(k) => Accounted(k))'
    BY ONLY <1>2, IInv, phase \in Compacting, i \in 1 .. Len(body), nodes \in Seq(Node),
         next \in i + 1 .. Len(body) + 1, Keep(nodes, next), Len(body') = Len(body), Compacts,
         \A l \in next .. Len(body) :
                /\ body'[l].line = body[l].line
                /\ Own(body[l]) => Own(body'[l])
                /\ body[l].op = "address" => body'[l] = body[l]
                /\ IsAdrp(body'[l]) => body'[l] = body[l],
         \A m \in DOMAIN nodes :
                /\ \E l \in i .. next - 1 : nodes[m].line = body[l].line
                /\ \/ Own(nodes[m]) \/ nodes[m] \in Left
                   \/ \E j : /\ Completes(program, nodes[m].line, j) /\ nodes[m] = Joint(nodes[m].line, j)
                             /\ \E l \in i .. next - 1 : body[l].line = j
                             /\ \A x \in DOMAIN nodes : nodes[x].line # j
                /\ IsAdrp(nodes[m]) => nodes[m] \in Left /\ (phase = "pairs" => Alone(nodes[m].line)),
         \A l \in i .. next - 1 :
                \/ \E m \in DOMAIN nodes : nodes[m].line = body[l].line /\ (body[l].op = "address" => nodes[m] = body[l])
                \/ body[l].op # "address" /\ ~ Lasting(body[l].line)
                \/ /\ body[l].op # "address"
                   /\ \E k : Completes(program, k, body[l].line) /\ \E m \in DOMAIN nodes : nodes[m] = Joint(k, body[l].line)
<1>4. /\ Left' = {out[l] : l \in DOMAIN out} \cup {nodes[m] : m \in DOMAIN nodes}
                          \cup {body'[l] : l \in next .. Len(body)}
      /\ Left = {out[l] : l \in DOMAIN out} \cup {body[l] : l \in i .. next - 1}
                          \cup {body[l] : l \in next .. Len(body)}
    BY LeftAfter DEF IInv
<1>5. ASSUME NEW n \in Left', IsAdrp(n) PROVE n \in Left
    <2>1. CASE \E l \in next .. Len(body) : n = body'[l]
        <3>1. PICK l \in next .. Len(body) : n = body'[l]
            BY <2>1
        <3>2. body'[l] = body[l]
            BY <1>5, <3>1
        <3> QED BY <1>4, <3>1, <3>2
    <2>2. CASE \E m \in DOMAIN nodes : n = nodes[m]
        BY <1>5, <2>2
    <2>3. CASE \E l \in DOMAIN out : n = out[l]
        BY <1>4, <2>3
    <2> QED BY <1>4, <2>1, <2>2, <2>3
<1>6. phase \in {"loads", "bases"} => \A n \in Left' : IsAdrp(n) => Alone(n.line)
    BY <1>2, <1>5
<1>7. phase = "pairs" => \A l \in DOMAIN out' : IsAdrp(out'[l]) => Alone(out'[l].line)
    <2> SUFFICES ASSUME phase = "pairs", NEW l \in DOMAIN out', IsAdrp(out'[l]) PROVE Alone(out'[l].line)
        OBVIOUS
    <2>1. out \in Seq(Node) /\ out' = out \o nodes /\ Len(out) \in Nat /\ DOMAIN out = 1 .. Len(out)
        BY DEF IInv, TypeOK, Keep
    <2>2. \/ l \in DOMAIN out /\ out'[l] = out[l]
          \/ l - Len(out) \in DOMAIN nodes /\ out'[l] = nodes[l - Len(out)]
        BY <2>1, Appended
    <2> QED BY <1>2, <2>2
<1>8. \A k, u \in DOMAIN program :
          program[k].op = "adrp" /\ Sees(program, k, u) /\ program[k] \in Left' => program[u] \in Left'
    BY <1>2, <1>5 DEF IsAdrp
<1>9. Addressed(program)' /\ phase' = phase /\ program' = program
    BY <1>1
<1> QED BY <1>1, <1>3, <1>6, <1>7, <1>8, <1>9, SameProgram DEF AInv

LEMMA AddressedFacts ==
    ASSUME Addressed(program)
    PROVE  WellFormed(program) /\ GOTApart(program) /\ HalvesMatch(program)
           /\ PagesUnshared(program) /\ AddendsCounted(program)
BY DEF Addressed

LEMMA NoSymKnown ==
    ASSUME NEW sym, Known(sym) PROVE sym \in Sym /\ sym # NoSym
BY NamesAssumption DEF Known, Sym

\* The instruction behind, when there is one.
LEMMA NextInstIs ==
    ASSUME NEW start \in Nat, NEW j \in start .. Len(body), Len(body) \in Nat, IsInst(body[j]),
           \A k \in start .. j - 1 : body[k].op = "lloh"
    PROVE  NextInst(start) = j
<1> DEFINE next == {x \in start .. Len(body) : IsInst(body[x]) /\ \A k \in start .. x - 1 : body[k].op = "lloh"}
<1>1. NextInst(start) = IF next = {} THEN 0 ELSE CHOOSE x \in next : TRUE
    BY DEF NextInst
<1>2. j \in next
    OBVIOUS
<1>3. ASSUME NEW x \in next PROVE x = j
    <2>1. ~ (x < j)
        BY DEF IsInst
    <2>2. ~ (j < x)
        BY DEF IsInst
    <2> QED BY <2>1, <2>2
<1> HIDE DEF next
<1>4. (CHOOSE x \in next : TRUE) \in next
    BY <1>2
<1> QED BY <1>1, <1>2, <1>3, <1>4

\* The passes over body compact it: what is read is kept as it is.
LEMMA KeptAddresses ==
    ASSUME IInv, Pending, AInv, Addressed(program), phase \in Compacting, i \in 1 .. Len(body),
           Keep(<<Here>>, i + 1), body' = body, phase = "pairs" /\ IsAdrp(Here) => Alone(Here.line)
    PROVE  AInv'
<1>1. i \in Nat /\ body[i] \in Left /\ Here = body[i] /\ Here \in Node /\ Len(body) \in Nat
    BY AheadLeft DEF Here, IInv, TypeOK
<1>2. <<Here>> \in Seq(Node) /\ DOMAIN <<Here>> = {1} /\ <<Here>>[1] = Here /\ i + 1 \in i + 1 .. Len(body) + 1
    BY <1>1
<1>3. \A l \in i .. (i + 1) - 1 : l = i
    BY <1>1
<1>4. i \in i .. (i + 1) - 1
    BY <1>1
<1>5. /\ Left' = {out[l] : l \in DOMAIN out} \cup {<<Here>>[m] : m \in DOMAIN <<Here>>}
                          \cup {body'[l] : l \in i + 1 .. Len(body)}
      /\ Left = {out[l] : l \in DOMAIN out} \cup {body[l] : l \in i .. (i + 1) - 1}
                          \cup {body[l] : l \in i + 1 .. Len(body)}
    BY <1>2, LeftAfter DEF IInv
<1>6. Left' = Left
    BY <1>1, <1>2, <1>3, <1>4, <1>5
<1>7. \A m \in DOMAIN <<Here>> :
        /\ \E l \in i .. (i + 1) - 1 : <<Here>>[m].line = body[l].line
        /\ <<Here>>[m] \in Left
        /\ IsAdrp(<<Here>>[m]) => (phase = "pairs" => Alone(<<Here>>[m].line))
    BY <1>1, <1>2, <1>4
<1>8. \A l \in i .. (i + 1) - 1 :
         \E m \in DOMAIN <<Here>> : <<Here>>[m].line = body[l].line /\ (body[l].op = "address" => <<Here>>[m] = body[l])
    BY <1>1, <1>2, <1>3
<1>9. \A l \in i + 1 .. Len(body) :
        /\ body'[l].line = body[l].line /\ (Own(body[l]) => Own(body'[l]))
        /\ (body[l].op = "address" => body'[l] = body[l]) /\ (IsAdrp(body'[l]) => body'[l] = body[l])
    OBVIOUS
<1>10. \A k, u \in DOMAIN program : program[u] \in Left => program[u] \in Left'
    BY <1>6
<1> QED BY <1>2, <1>7, <1>8, <1>9, <1>10, CompactStep

\* What is rewritten ahead is a line of its own still.
LEMMA PageUsesOwn ==
    ASSUME IInv, Pending, AInv, Addressed(program), phase \in Compacting, i \in 1 .. Len(body),
           NEW k, NEW base, NEW sym, body' = RewritePageUses(k, base, sym), NEW l \in i .. Len(body)
    PROVE  /\ body'[l].line = body[l].line
           /\ Own(body[l]) => Own(body'[l])
           /\ body[l].op = "address" => body'[l] = body[l]
           /\ IsAdrp(body'[l]) => body'[l] = body[l]
<1>1. l \in DOMAIN body /\ body[l] \in Left /\ body[l] \in Node
    BY AheadLeft DEF IInv, TypeOK
<1>2. Fate(body[l]) /\ WellFormed(program) /\ phase # "failed"
    BY <1>1, AddressedFacts DEF AInv, Compacting
<1>3. CASE body'[l] = body[l]
    BY <1>3
<1>4. CASE body[l].op \in {"add", "load", "gotload"} /\ body'[l] = Numbered(body[l])
    <2>1. Numbered(body[l]).line = body[l].line /\ Numbered(body[l]).op = body[l].op
        BY <1>1, NumberedNode
    <2>2. Numbered(Numbered(program[body[l].line])) = Numbered(program[body[l].line])
        BY DEF Numbered
    <2>3. /\ body[l].line \in DOMAIN program /\ body[l].op = program[body[l].line].op
          /\ body[l] = program[body[l].line] \/ body[l] = Numbered(program[body[l].line])
        BY <1>1, <1>2, <1>4, FateFacts
    <2>4. Own(body'[l])
        BY <1>4, <2>1, <2>2, <2>3 DEF Own
    <2> QED BY <1>4, <2>1, <2>4 DEF IsAdrp
<1> QED BY <1>1, <1>3, <1>4, PageUsesAhead

LEMMA GOTUsesOwn ==
    ASSUME IInv, Pending, AInv, Addressed(program), phase \in Compacting, i \in 1 .. Len(body),
           NEW k, NEW base, NEW sym, sym # NoSym, body' = RewriteGOTUses(k, base, sym, 0), NEW l \in i .. Len(body),
           \E m \in DOMAIN program : program[m].op \in {"gotadrp", "gotload"} /\ program[m].sym = sym
    PROVE  /\ body'[l].line = body[l].line
           /\ Own(body[l]) => Own(body'[l])
           /\ body[l].op = "address" => body'[l] = body[l]
           /\ IsAdrp(body'[l]) => body'[l] = body[l]
           /\ body[l].op \in {"add", "load"} => body'[l] = body[l]
<1>1. l \in DOMAIN body /\ body[l] \in Left /\ body[l] \in Node
    BY AheadLeft DEF IInv, TypeOK
<1>2. Fate(body[l]) /\ WellFormed(program) /\ GOTApart(program) /\ phase # "failed"
    BY <1>1, AddressedFacts DEF AInv, Compacting
<1>3. body'[l] = IF l \in GOTUses(k, base, sym) THEN Address(body[l].dst, sym, 0, body[l].line) ELSE body[l]
    BY <1>1 DEF RewriteGOTUses
<1>4. CASE l \notin GOTUses(k, base, sym)
    BY <1>3, <1>4
<1>5. CASE l \in GOTUses(k, base, sym)
    <2>1. body[l].op \in {"load", "gotload"} /\ body[l].sym = sym
        BY <1>5 DEF GOTUses
    <2>2. body[l].line \in DOMAIN program /\ body[l] = program[body[l].line]
        BY <1>1, <1>2, <2>1, FateFacts
    <2>3. body[l].op = "gotload"
        BY <1>2, <2>1, <2>2 DEF GOTApart
    <2>4. body'[l] = Address(body[l].dst, sym, 0, body[l].line)
        BY <1>3, <1>5
    <2>5. body'[l].line = body[l].line /\ ~ IsAdrp(body'[l])
        BY <2>4 DEF Address, IsAdrp
    <2>6. Own(body'[l])
        BY <2>1, <2>2, <2>3, <2>4, <2>5 DEF Own
    <2> QED BY <2>3, <2>5, <2>6
<1> QED BY <1>4, <1>5

\* An ADRP that is replaced is not left.
LEMMA HereGone ==
    ASSUME IInv, phase \in Compacting, i \in 1 .. Len(body), NEW nodes \in Seq(Node),
           NEW next \in i + 1 .. Len(body) + 1, Keep(nodes, next), Len(body') = Len(body),
           \A l \in next .. Len(body) : body'[l].line = body[l].line,
           \A m \in DOMAIN nodes : ~ IsAdrp(nodes[m]),
           NEW q \in Left', q.line = Here.line
    PROVE  ~ IsAdrp(q)
<1>1. Left' = {out[l] : l \in DOMAIN out} \cup {nodes[m] : m \in DOMAIN nodes}
                  \cup {body'[l] : l \in next .. Len(body)}
    BY LeftAfter DEF IInv
<1>2. /\ \A l \in DOMAIN out : out[l].line < body[i].line /\ out[l].line \in Nat
      /\ body[i].line \in Nat /\ \A l \in next .. Len(body) : body[i].line < body[l].line /\ body[l].line \in Nat
      /\ Here = body[i]
    <2>1. \A l \in next .. Len(body) : l \in DOMAIN body /\ i < l
        BY AheadLeft
    <2>2. i \in i .. Len(body) /\ i \in DOMAIN body
        BY AheadLeft
    <2>3. \A l \in DOMAIN out : out[l] \in Node
        BY DEF IInv, TypeOK
    <2> QED BY <2>1, <2>2, <2>3, AheadLeft DEF IInv, Order, Node, Fields, Here
<1>3. CASE \E l \in DOMAIN out : q = out[l]
    BY <1>2, <1>3
<1>4. CASE \E l \in next .. Len(body) : q = body'[l]
    BY <1>2, <1>4
<1> QED BY <1>1, <1>3, <1>4

\* What is not left any more has been read or rewritten.
LEMMA Dropped ==
    ASSUME IInv, phase \in Compacting, i \in 1 .. Len(body), NEW nodes \in Seq(Node),
           NEW next \in i + 1 .. Len(body) + 1, Keep(nodes, next), Len(body') = Len(body),
           NEW q \in Left, q \notin Left'
    PROVE  \E l \in i .. Len(body) : q = body[l] /\ (l < next \/ body'[l] # body[l])
<1>1. /\ Left' = {out[l] : l \in DOMAIN out} \cup {nodes[m] : m \in DOMAIN nodes}
                          \cup {body'[l] : l \in next .. Len(body)}
      /\ Left = {out[l] : l \in DOMAIN out} \cup {body[l] : l \in i .. next - 1}
                          \cup {body[l] : l \in next .. Len(body)}
    BY LeftAfter DEF IInv
<1>2. i \in Nat /\ Len(body) \in Nat
    BY AheadLeft
<1>3. CASE \E l \in i .. next - 1 : q = body[l]
    <2>1. PICK l \in i .. next - 1 : q = body[l]
        BY <1>3
    <2>2. l \in i .. Len(body) /\ l < next
        BY <1>2
    <2> QED BY <2>1, <2>2
<1>4. CASE \E l \in next .. Len(body) : q = body[l]
    <2>1. PICK l \in next .. Len(body) : q = body[l]
        BY <1>4
    <2>2. l \in i .. Len(body) /\ body'[l] # body[l]
        BY <1>1, <1>2, <2>1
    <2> QED BY <2>1, <2>2
<1> QED BY <1>1, <1>3, <1>4

\* No ADRP into the register is between a use and the ADRP that sees it.
LEMMA SeenFrom ==
    ASSUME program \in Seq(Node), NEW k, NEW u, NEW h, Sees(program, k, u),
           k \in DOMAIN program, u \in DOMAIN program, h \in DOMAIN program,
           IsAdrp(program[h]), program[u].base = program[h].dst, h < u
    PROVE  h <= k
<1>1. DOMAIN program = 1 .. Len(program) /\ Len(program) \in Nat
    OBVIOUS
<1>2. /\ k < u /\ program[u].base = program[k].dst
      /\ \A l \in k + 1 .. u : ~ (IsAdrp(program[l]) /\ program[l].dst = program[k].dst)
    BY DEF Sees
<1>3. ASSUME ~ (h <= k) PROVE FALSE
    <2>1. h \in k + 1 .. u
        BY <1>1, <1>3
    <2> QED BY <1>2, <2>1
<1> QED BY <1>3

\* Right behind an ADRP into the register no other ADRP sees the use.
LEMMA SeenBehind ==
    ASSUME program \in Seq(Node), NEW k, NEW u, NEW h, Sees(program, k, u), IsAdrp(program[k]),
           k \in DOMAIN program, u \in DOMAIN program, h \in DOMAIN program,
           IsAdrp(program[h]), program[u].base = program[h].dst, Behind(program, h, u)
    PROVE  k = h
<1>1. DOMAIN program = 1 .. Len(program) /\ Len(program) \in Nat
    OBVIOUS
<1>2. h < u /\ k < u /\ \A l \in h + 1 .. u - 1 : program[l].op = "lloh"
    BY DEF Behind, Sees
<1>3. ~ (h < k)
    BY <1>1, <1>2 DEF IsAdrp
<1>4. h <= k
    BY <1>2, SeenFrom
<1> QED BY <1>1, <1>3, <1>4

\* rewriteSymbolAddresses
LEMMA PairsAddresses ==
    ASSUME IInv, Pending, AInv, Addressed(program), RewritePair \/ KeepInPairs, phase' # "failed"
    PROVE  AInv'
<1>1. /\ phase = "pairs" /\ i \in 1 .. Len(body) /\ TypeOK /\ Len(body) \in Nat /\ i \in Nat
      /\ body \in Seq(Node) /\ DOMAIN body = 1 .. Len(body) /\ phase \in Compacting
    BY DEF RewritePair, KeepInPairs, At, IInv, TypeOK, Compacting
<1>2. body = program /\ \A k \in DOMAIN program : program[k].line = k
    BY <1>1 DEF Pending
<1>3. Here = body[i] /\ Here \in Node /\ Here = program[i] /\ Here.line = i /\ i \in DOMAIN program
    BY <1>1, <1>2 DEF Here
<1>4. CASE KeepInPairs
    <2>1. ASSUME IsAdrp(Here) PROVE Alone(Here.line)
        <3> SUFFICES ASSUME NEW j, Completes(program, i, j), program[j].op = "add" PROVE FALSE
            BY <1>3 DEF Alone
        <3>1. /\ j \in DOMAIN body /\ i < j /\ \A l \in i + 1 .. j - 1 : body[l].op = "lloh"
              /\ body[j].base = Here.dst /\ body[j].sym = Here.sym
            BY <1>2, <1>3 DEF Completes, Behind
        <3>2. i + 1 \in Nat /\ j \in i + 1 .. Len(body) /\ j # 0
            BY <1>1, <3>1
        <3>3. IsInst(body[j])
            BY <1>2 DEF IsInst
        <3>4. NextInst(i + 1) = j
            BY <1>1, <3>1, <3>2, <3>3, NextInstIs
        <3>5. Pairs(j)
            BY <1>2, <2>1, <3>1, <3>2 DEF Pairs
        <3> QED BY <1>4, <3>4, <3>5 DEF KeepInPairs
    <2> QED BY <1>1, <1>4, <2>1, KeptAddresses DEF KeepInPairs
<1>5. CASE RewritePair
    <2> DEFINE j == NextInst(i + 1)
               n == Address(body[j].dst, Here.sym, body[j].off, Here.line)
    <2>1. /\ Pairs(j) /\ j # 0 /\ body[j].op = "add" /\ Known(Here.sym) /\ IsAdrp(Here)
          /\ body[j].base = Here.dst /\ body[j].sym = Here.sym
          /\ Keep(<<n>>, Resume(j)) /\ body' = body
        BY <1>5 DEF RewritePair, Pairs, Fail
    <2>2. j \in i + 1 .. Len(body) /\ \A l \in i + 1 .. j - 1 : body[l].op = "lloh"
        BY <1>1, <2>1, NextInstFound
    <2> HIDE DEF j
    <2>3. Resume(j) = j + 1 /\ j + 1 \in i + 1 .. Len(body) + 1 /\ j \in DOMAIN program /\ j \in i .. (j + 1) - 1
          /\ i \in i .. (j + 1) - 1 /\ j # i
        BY <1>1, <1>2, <2>2 DEF Resume
    <2>4. Completes(program, i, j)
        BY <1>1, <1>2, <1>3, <2>1, <2>2, <2>3 DEF Completes, Behind
    <2>5. n = Joint(i, j) /\ n.line = i /\ n.op = "address" /\ ~ IsAdrp(n)
        BY <1>2, <1>3, <2>1 DEF Joint, Address, IsAdrp
    <2>6. n \in Node
        <3>1. body[j] \in Node
            BY <1>1, <2>2
        <3>2. /\ body[j].dst \in Reg \cup {NoReg} /\ body[j].off \in 0 .. MaxOff
              /\ Here.sym \in Sym \cup {NoSym} /\ Here.line \in Nat \ {0}
            BY <1>3, <3>1, FieldTypes
        <3> QED BY <1>3, <3>2, AddressNode
    <2> HIDE DEF n
    <2>7. <<n>> \in Seq(Node) /\ DOMAIN <<n>> = {1} /\ <<n>>[1] = n
        BY <2>6
    <2>8. \A m \in DOMAIN <<n>> :
            /\ \E l \in i .. (j + 1) - 1 : <<n>>[m].line = body[l].line
            /\ \E k : /\ Completes(program, <<n>>[m].line, k) /\ <<n>>[m] = Joint(<<n>>[m].line, k)
                      /\ \E l \in i .. (j + 1) - 1 : body[l].line = k
                      /\ \A x \in DOMAIN <<n>> : <<n>>[x].line # k
            /\ ~ IsAdrp(<<n>>[m])
        <3>1. body[j].line = j /\ body[i].line = i
            BY <1>2, <1>3, <2>3
        <3> QED BY <2>3, <2>4, <2>5, <2>7, <3>1
    <2>9. \A l \in i .. (j + 1) - 1 :
            \/ \E m \in DOMAIN <<n>> : <<n>>[m].line = body[l].line /\ (body[l].op = "address" => <<n>>[m] = body[l])
            \/ body[l].op # "address" /\ ~ Lasting(body[l].line)
            \/ /\ body[l].op # "address"
               /\ \E k : Completes(program, k, body[l].line) /\ \E m \in DOMAIN <<n>> : <<n>>[m] = Joint(k, body[l].line)
        <3> SUFFICES ASSUME NEW l \in i .. (j + 1) - 1, l # i
                     PROVE  body[l].op # "address" /\
                            \/ ~ Lasting(body[l].line)
                            \/ \E k : Completes(program, k, body[l].line) /\ \E m \in DOMAIN <<n>> : <<n>>[m] = Joint(k, body[l].line)
            <4>1. <<n>>[1].line = body[i].line /\ body[i].op # "address" /\ 1 \in DOMAIN <<n>>
                BY <1>3, <2>1, <2>5, <2>7 DEF IsAdrp
            <4> QED BY <4>1
        <3>1. CASE l = j
            BY <1>2, <2>1, <2>3, <2>4, <2>5, <2>7, <3>1
        <3>2. CASE l # j
            <4>1. l \in i + 1 .. j - 1 /\ l \in DOMAIN program
                BY <1>1, <1>2, <2>3, <3>2
            <4> QED BY <1>2, <2>2, <4>1 DEF Lasting
        <3> QED BY <3>1, <3>2
    <2>10. ASSUME NEW k \in DOMAIN program, NEW u \in DOMAIN program,
                  program[k].op = "adrp", Sees(program, k, u), program[u] \in Left, program[k] \in Left', program[u] \notin Left'
           PROVE  FALSE
        <3>1. \E l \in i .. Len(body) : program[u] = body[l] /\ l < j + 1
            BY <1>1, <2>1, <2>3, <2>7, <2>10, Dropped DEF IInv
        <3>2. u \in i .. j
            BY <1>1, <1>2, <2>3, <3>1
        <3>3. program[u].op \in {"load", "add"}
            BY <2>10 DEF Sees
        <3>4. u = j
            BY <1>1, <1>2, <1>3, <2>1, <2>2, <2>3, <3>2, <3>3 DEF IsAdrp
        <3>5. k = i
            <4>1. Behind(program, i, u) /\ IsAdrp(program[i]) /\ program[u].base = program[i].dst /\ IsAdrp(program[k])
                BY <2>4, <2>10, <3>4 DEF Completes, IsAdrp
            <4>2. program \in Seq(Node)
                BY <1>1 DEF TypeOK
            <4>3. Sees(program, k, u) /\ i \in DOMAIN program /\ k \in DOMAIN program /\ u \in DOMAIN program
                BY <1>3, <2>10
            <4> QED BY ONLY <4>1, <4>2, <4>3, SeenBehind
        <3>6. ~ IsAdrp(program[k])
            BY <1>1, <1>2, <1>3, <2>1, <2>3, <2>5, <2>7, <2>10, <3>5, HereGone
        <3> QED BY <2>10, <3>6 DEF IsAdrp
    <2>11. Keep(<<n>>, j + 1) /\ Len(body') = Len(body)
        BY <2>1, <2>3
    <2>12. \A l \in j + 1 .. Len(body) :
                /\ body'[l].line = body[l].line /\ (Own(body[l]) => Own(body'[l]))
                /\ (body[l].op = "address" => body'[l] = body[l]) /\ (IsAdrp(body'[l]) => body'[l] = body[l])
        BY <2>1
    <2> QED BY ONLY <1>1, <2>3, <2>7, <2>8, <2>9, <2>10, <2>11, <2>12, IInv, Pending, AInv, Addressed(program), CompactStep
<1> QED BY <1>4, <1>5

\* Behind a rewritten page no other ADRP loses a use that it sees.
LEMMA SeesStays ==
    ASSUME IInv, Pending, AInv, Addressed(program), phase \in {"loads", "bases"}, i \in 1 .. Len(body),
           NEW nodes \in Seq(Node), NEW J \in i .. Len(body), Keep(nodes, J + 1), Len(body') = Len(body),
           NEW h \in DOMAIN program, Here.line = h, Here = program[h], Here.op = "adrp",
           \A m \in DOMAIN nodes : ~ IsAdrp(nodes[m]),
           body' = RewritePageUses(J, Here.dst, Here.sym),
           \A l \in i .. J :
                /\ IsAdrp(body[l]) => l = i
                /\ body[l].op \in {"load", "add"} => Behind(program, h, body[l].line) /\ body[l].base = Here.dst,
           phase = "bases" \/ \E x \in DOMAIN program :
                Behind(program, h, x) /\ program[x].op = "load" /\ program[x].base = program[h].dst,
           NEW k \in DOMAIN program, NEW u \in DOMAIN program, program[k].op = "adrp", Sees(program, k, u),
           program[k] \in Left, program[u] \in Left
    PROVE  program[k] \notin Left' \/ program[u] \in Left'
<1> SUFFICES ASSUME program[k] \in Left', program[u] \notin Left' PROVE FALSE
    OBVIOUS
<1>1. /\ phase \in Compacting /\ program \in Seq(Node) /\ J \in Nat /\ J + 1 \in i + 1 .. Len(body) + 1
      /\ i \in Nat /\ Len(body) \in Nat /\ DOMAIN body = 1 .. Len(body) /\ i \in DOMAIN body /\ Here = body[i]
      /\ DOMAIN program = 1 .. Len(program) /\ Len(program) \in Nat
    BY AheadLeft DEF IInv, TypeOK, Compacting, Here
<1>2. program[k].line = k /\ program[u].line = u /\ IsAdrp(program[k]) /\ IsAdrp(program[h])
    BY DEF Pending, IsAdrp
<1>3. /\ k < u /\ program[u].base = program[k].dst /\ program[u].sym = program[k].sym
      /\ program[u].op \in {"load", "add"}
      /\ program[u].op = "add" =>
            \A m \in (1 .. u - 1) \ {k} : IsAdrp(program[m]) /\ program[m].sym = program[k].sym =>
                k < m /\ ~ \E j \in DOMAIN program :
                             Behind(program, m, j) /\ program[j].op = "load" /\ program[j].base = program[m].dst
    BY DEF Sees
<1>4. \A l \in J + 1 .. Len(body) : body'[l].line = body[l].line
    <2>1. \A l \in J + 1 .. Len(body) : l \in i .. Len(body)
        BY <1>1
    <2> QED BY <1>1, <2>1, PageUsesOwn
<1>5. k # h
    <2> SUFFICES ASSUME k = h PROVE FALSE
        OBVIOUS
    <2>1. program[k] \in Left' /\ program[k].line = Here.line
        OBVIOUS
    <2>2. ~ IsAdrp(program[k])
        BY ONLY <1>1, <1>4, <2>1, IInv, i \in 1 .. Len(body), nodes \in Seq(Node), Keep(nodes, J + 1),
                Len(body') = Len(body), \A m \in DOMAIN nodes : ~ IsAdrp(nodes[m]), HereGone
    <2> QED BY <1>2, <2>2
<1>6. PICK l \in i .. Len(body) : program[u] = body[l] /\ (l < J + 1 \/ body'[l] # body[l])
    BY <1>1, Dropped
<1>7. l \in DOMAIN body /\ l \in Nat /\ body[l].line = u
    BY <1>1, <1>2, <1>6
<1>8. CASE l < J + 1
    <2>1. l \in i .. J
        BY <1>1, <1>8
    <2>2. Behind(program, h, u) /\ program[u].base = program[h].dst
        <3>1. body[l].op \in {"load", "add"} => Behind(program, h, body[l].line) /\ body[l].base = Here.dst
            BY <2>1
        <3> QED BY ONLY <1>3, <1>6, <1>7, <3>1, Here = program[h]
    <2>3. program \in Seq(Node) /\ IsAdrp(program[k]) /\ IsAdrp(program[h])
        BY <1>1, <1>2
    <2>4. Sees(program, k, u) /\ k \in DOMAIN program /\ u \in DOMAIN program /\ h \in DOMAIN program
        OBVIOUS
    <2>5. k = h
        BY ONLY <2>2, <2>3, <2>4, SeenBehind
    <2> QED BY <1>5, <2>5
<1>9. CASE ~ (l < J + 1)
    <2>1. l \in PageUses(J, Here.dst, Here.sym)
        BY <1>6, <1>7, <1>9 DEF RewritePageUses
    <2>2. /\ body[l].sym = Here.sym /\ (body[l].op = "load" => body[l].base = Here.dst)
          /\ \A x \in J + 1 .. l : ~ (IsAdrp(body[x]) /\ body[x].dst = Here.dst)
        BY <2>1 DEF PageUses, Scanned
    <2>3. h < u
        <3>1. i < l
            BY <1>1, <1>7, <1>9
        <3> QED BY <1>1, <1>7, <3>1, AheadLeft
    <2>4. CASE program[u].op = "load"
        <3>1. program[u].base = program[h].dst
            BY <1>6, <2>2, <2>4
        <3>2. h < k
            <4>1. h <= k
                BY <1>1, <1>2, <2>3, <3>1, SeenFrom
            <4> QED BY <1>1, <1>5, <4>1
        <3>3. PICK x \in i .. Len(body) : program[k] = body[x]
            <4>1. i \in i .. Len(body) /\ ~ (program[k].line < body[i].line)
                BY <1>1, <1>2, <3>2
            <4> QED BY <1>1, <4>1, AheadLeft
        <3>4. x \in DOMAIN body /\ body[x].line = k /\ IsAdrp(body[x]) /\ body[x].dst = Here.dst
            <4>1. x \in DOMAIN body
                BY <1>1, <3>3
            <4>2. program[k].dst = program[h].dst
                BY <1>3, <3>1
            <4> QED BY <1>2, <3>3, <4>1, <4>2
        <3>5. i < x /\ x < l
            BY <1>1, <1>3, <1>7, <3>2, <3>4, AheadLeft
        <3>6. x \in J + 1 .. l
            <4>1. x \notin i .. J
                BY <1>1, <3>4, <3>5
            <4> QED BY <1>1, <1>7, <3>5, <4>1
        <3> QED BY <2>2, <3>4, <3>6
    <2>5. CASE program[u].op = "add"
        <3>1. h \in (1 .. u - 1) \ {k} /\ program[h].sym = program[k].sym
            BY <1>1, <1>3, <1>5, <1>6, <2>2, <2>3
        <3>2. /\ k < h
              /\ ~ \E j \in DOMAIN program :
                     Behind(program, h, j) /\ program[j].op = "load" /\ program[j].base = program[h].dst
            BY <1>2, <1>3, <2>5, <3>1
        <3>3. phase = "bases"
            BY <3>2
        <3>4. program[k] \in {out[x] : x \in DOMAIN out}
            <4>1. \A x \in i .. Len(body) : program[k] # body[x]
                <5> SUFFICES ASSUME NEW x \in i .. Len(body), program[k] = body[x] PROVE FALSE
                    OBVIOUS
                <5>1. x \in DOMAIN body /\ body[x].line < body[i].line
                    BY <1>1, <1>2, <3>2
                <5>2. x < i
                    BY <1>1, <5>1, AheadLeft
                <5> QED BY <1>1, <5>2
            <4> QED BY <1>1, <4>1, AheadLeft
        <3> QED BY <1>2, <3>3, <3>4 DEF Pending
    <2> QED BY <1>3, <2>4, <2>5
<1> QED BY <1>8, <1>9

\* What comes with a load behind its ADRP.
LEMMA LoadsFacts ==
    ASSUME IInv, Pending, AInv, Addressed(program), phase = "loads", i \in 1 .. Len(body),
           NEW j, j = NextInst(i + 1), LoadsThrough(j)
    PROVE  /\ Here.line \in DOMAIN program /\ Here = program[Here.line] /\ Here \in Node /\ IsAdrp(Here)
           /\ body[j].line \in DOMAIN program /\ body[j] = program[body[j].line] /\ body[j] \in Node
           /\ body[j].op \in {"load", "gotload"} /\ body[j].base = Here.dst
           /\ Behind(program, Here.line, body[j].line)
           /\ body[j].sym = Here.sym /\ Here.sym # NoSym
           /\ \A l \in i + 1 .. j - 1 :
                body[l].op \notin {"address", "add", "load"} /\ ~ IsAdrp(body[l]) /\ ~ Lasting(body[l].line)
           /\ j \in i + 1 .. Len(body) /\ Resume(j) = j + 1 /\ j + 1 \in i + 1 .. Len(body) + 1
           /\ \A l \in i .. (j + 1) - 1 : l = i \/ l = j \/ l \in i + 1 .. j - 1
           /\ i \in i .. (j + 1) - 1 /\ j \in i .. (j + 1) - 1
           /\ Here.line # body[j].line /\ Here = body[i] /\ Here \in Left
<1>1. /\ TypeOK /\ phase \in Compacting /\ phase # "failed" /\ i \in Nat /\ Len(body) \in Nat
      /\ body \in Seq(Node) /\ DOMAIN body = 1 .. Len(body) /\ Here = body[i] /\ program \in Seq(Node)
      /\ Faithful(body) /\ HalvesMatch(program) /\ WellFormed(program)
    BY AddressedFacts DEF IInv, TypeOK, Compacting, Here, Pending
<1>2. /\ Here.line \in DOMAIN program /\ Here = program[Here.line]
      /\ body[j].line \in DOMAIN program /\ body[j] = program[body[j].line]
      /\ Behind(program, Here.line, body[j].line)
      /\ j \in i + 1 .. Len(body) /\ \A l \in i + 1 .. j - 1 : body[l].op = "lloh"
    BY <1>1, LoadsBehind
<1>3. body[j].sym = Here.sym
    BY <1>1, LoadsTogether
<1>4. /\ IsAdrp(Here) /\ body[j].op \in {"load", "gotload"} /\ body[j].base = Here.dst /\ body[j].sym # NoSym
    BY DEF LoadsThrough
<1>5. Here \in Node /\ body[j] \in Node
    BY <1>1, <1>2
<1>6. ASSUME NEW l \in i + 1 .. j - 1
      PROVE  body[l].op \notin {"address", "add", "load"} /\ ~ IsAdrp(body[l]) /\ ~ Lasting(body[l].line)
    <2>1. l \in i .. Len(body) /\ body[l].op = "lloh"
        BY <1>1, <1>2
    <2>2. body[l] \in Left
        BY <1>1, <2>1, AheadLeft
    <2>3. Fate(body[l])
        BY <1>1, <2>2 DEF AInv
    <2>4. program[body[l].line].op = "lloh"
        BY <1>1, <2>1, <2>2, <2>3, FateFacts
    <2> QED BY <2>1, <2>4 DEF Lasting, IsAdrp
<1>7. /\ Resume(j) = j + 1 /\ j + 1 \in i + 1 .. Len(body) + 1
      /\ \A l \in i .. (j + 1) - 1 : l = i \/ l = j \/ l \in i + 1 .. j - 1
      /\ i \in i .. (j + 1) - 1 /\ j \in i .. (j + 1) - 1
    BY <1>1, <1>2 DEF Resume
<1>8. Here.line # body[j].line
    <2>1. i \in DOMAIN body /\ j \in DOMAIN body /\ i < j
        BY <1>1, <1>2
    <2> QED BY <1>1, <2>1, AheadLeft
<1>9. Here \in Left
    <2>1. i \in i .. Len(body)
        BY <1>1
    <2> QED BY <1>1, <2>1, AheadLeft
<1> QED BY ONLY <1>1, <1>2, <1>3, <1>4, <1>5, <1>6, <1>7, <1>8, <1>9

\* rewriteGotLoads: a GOT load
LEMMA GOTLoadAddresses ==
    ASSUME IInv, Pending, AInv, Addressed(program), RewriteGOTLoad, phase' # "failed"
    PROVE  AInv'
<1>1. phase = "loads" /\ i \in 1 .. Len(body) /\ TypeOK /\ phase \in Compacting
    BY DEF RewriteGOTLoad, At, IInv, Compacting, TypeOK
<1> DEFINE j == NextInst(i + 1)
           n == Address(body[j].dst, body[j].sym, body[j].off, Here.line)
<1>2. /\ LoadsThrough(j) /\ body[j].op = "gotload" /\ Known(body[j].sym) /\ Keep(<<n>>, Resume(j))
      /\ body' = RewriteGOTUses(j, Here.dst, body[j].sym, body[j].off)
    BY DEF RewriteGOTLoad, Fail
<1> HIDE DEF j
<1>3. /\ Here.line \in DOMAIN program /\ Here = program[Here.line] /\ Here \in Node /\ IsAdrp(Here)
      /\ body[j].line \in DOMAIN program /\ body[j] = program[body[j].line] /\ body[j] \in Node
      /\ body[j].base = Here.dst
      /\ Behind(program, Here.line, body[j].line)
      /\ body[j].sym = Here.sym /\ Here.sym # NoSym
      /\ \A l \in i + 1 .. j - 1 :
           body[l].op \notin {"address", "add", "load"} /\ ~ IsAdrp(body[l]) /\ ~ Lasting(body[l].line)
      /\ j \in i + 1 .. Len(body) /\ Resume(j) = j + 1 /\ j + 1 \in i + 1 .. Len(body) + 1
      /\ \A l \in i .. (j + 1) - 1 : l = i \/ l = j \/ l \in i + 1 .. j - 1
      /\ i \in i .. (j + 1) - 1 /\ j \in i .. (j + 1) - 1
      /\ Here.line # body[j].line /\ Here = body[i]
    BY <1>1, <1>2, LoadsFacts DEF j
<1> DEFINE h == Here.line
           jj == body[j].line
<1>4. body[j].off = 0 /\ Completes(program, h, jj)
    BY <1>2, <1>3, AddressedFacts DEF GOTApart, Completes
<1>5. n = Joint(h, jj) /\ n.line = h /\ n.op = "address" /\ ~ IsAdrp(n)
    BY <1>3 DEF Joint, Address, IsAdrp
<1>6. n \in Node
    <2>1. /\ body[j].dst \in Reg \cup {NoReg} /\ body[j].off \in 0 .. MaxOff
          /\ body[j].sym \in Sym \cup {NoSym} /\ Here.line \in Nat \ {0}
        BY ONLY <1>3, FieldTypes
    <2> QED BY ONLY <2>1, AddressNode
<1>7. Keep(<<n>>, j + 1)
    BY <1>2, <1>3
<1> HIDE DEF n
<1> DEFINE nodes == <<n>>
<1>8. nodes \in Seq(Node) /\ DOMAIN nodes = {1} /\ nodes[1] = n
    BY <1>6
<1>9. Keep(nodes, j + 1)
    BY <1>7
<1> HIDE DEF nodes
<1>10. j + 1 \in i + 1 .. Len(body) + 1 /\ i \in i .. (j + 1) - 1 /\ j \in i .. (j + 1) - 1
       /\ \A l \in i .. (j + 1) - 1 : l = i \/ l = j \/ l \in i + 1 .. j - 1
    BY ONLY <1>3
<1>11. \A m \in DOMAIN nodes :
        /\ \E l \in i .. (j + 1) - 1 : nodes[m].line = body[l].line
        /\ \E k : /\ Completes(program, nodes[m].line, k) /\ nodes[m] = Joint(nodes[m].line, k)
                  /\ \E l \in i .. (j + 1) - 1 : body[l].line = k
                  /\ \A x \in DOMAIN nodes : nodes[x].line # k
        /\ ~ IsAdrp(nodes[m])
    <2> SUFFICES ASSUME NEW m \in DOMAIN nodes
                 PROVE  /\ \E l \in i .. (j + 1) - 1 : nodes[m].line = body[l].line
                        /\ \E k : /\ Completes(program, nodes[m].line, k) /\ nodes[m] = Joint(nodes[m].line, k)
                                  /\ \E l \in i .. (j + 1) - 1 : body[l].line = k
                                  /\ \A x \in DOMAIN nodes : nodes[x].line # k
                        /\ ~ IsAdrp(nodes[m])
        OBVIOUS
    <2>1. nodes[m] = n /\ \A x \in DOMAIN nodes : nodes[x] = n
        BY ONLY <1>8
    <2>2. n.line = body[i].line /\ n.line # jj
        BY ONLY <1>3, <1>5
    <2>3. \E l \in i .. (j + 1) - 1 : nodes[m].line = body[l].line
        BY ONLY <1>10, <2>1, <2>2
    <2>4. Completes(program, nodes[m].line, jj) /\ nodes[m] = Joint(nodes[m].line, jj) /\ ~ IsAdrp(nodes[m])
        BY ONLY <1>4, <1>5, <2>1
    <2>5. \E l \in i .. (j + 1) - 1 : body[l].line = jj
        BY ONLY <1>10
    <2>6. \A x \in DOMAIN nodes : nodes[x].line # jj
        BY ONLY <2>1, <2>2
    <2> HIDE DEF jj
    <2> QED BY ONLY <2>3, <2>4, <2>5, <2>6
<1>12. \A l \in i .. (j + 1) - 1 :
        \/ \E m \in DOMAIN nodes : nodes[m].line = body[l].line /\ (body[l].op = "address" => nodes[m] = body[l])
        \/ body[l].op # "address" /\ ~ Lasting(body[l].line)
        \/ /\ body[l].op # "address"
           /\ \E k : Completes(program, k, body[l].line) /\ \E m \in DOMAIN nodes : nodes[m] = Joint(k, body[l].line)
    <2>1. \E m \in DOMAIN nodes : nodes[m].line = body[i].line /\ (body[i].op = "address" => nodes[m] = body[i])
        BY <1>3, <1>5, <1>8 DEF IsAdrp
    <2>2. /\ body[j].op # "address"
          /\ \E k : Completes(program, k, body[j].line) /\ \E m \in DOMAIN nodes : nodes[m] = Joint(k, body[j].line)
        BY <1>2, <1>4, <1>5, <1>8
    <2>3. \A l \in i + 1 .. j - 1 : body[l].op # "address" /\ ~ Lasting(body[l].line)
        BY ONLY <1>3
    <2> QED BY ONLY <1>10, <2>1, <2>2, <2>3
<1>13. Len(body') = Len(body)
    <2>1. body[j].sym \in Sym /\ body[j].off \in 0 .. MaxOff
        BY <1>2, <1>3, FieldTypes, NoSymKnown
    <2> QED BY <1>1, <1>2, <2>1, GOTUsesControl DEF SameControl
<1>14. \A l \in i .. Len(body) :
           /\ body'[l].line = body[l].line
           /\ Own(body[l]) => Own(body'[l])
           /\ body[l].op = "address" => body'[l] = body[l]
           /\ IsAdrp(body'[l]) => body'[l] = body[l]
           /\ body[l].op \in {"add", "load"} => body'[l] = body[l]
    <2>1. body' = RewriteGOTUses(j, Here.dst, body[j].sym, 0) /\ body[j].sym # NoSym
        BY <1>2, <1>3, <1>4
    <2>2. \E m \in DOMAIN program : program[m].op \in {"gotadrp", "gotload"} /\ program[m].sym = body[j].sym
        BY <1>2, <1>3
    <2> QED BY <1>1, <2>1, <2>2, GOTUsesOwn
<1>15. \A l \in j + 1 .. Len(body) : l \in i .. Len(body)
    BY <1>1, <1>3 DEF TypeOK
<1>16. ASSUME NEW k \in DOMAIN program, NEW u \in DOMAIN program,
              Sees(program, k, u), program[u] \in Left, program[u] \notin Left'
       PROVE  FALSE
    <2>1. PICK l \in i .. Len(body) : program[u] = body[l] /\ (l < j + 1 \/ body'[l] # body[l])
        BY ONLY <1>1, <1>8, <1>9, <1>10, <1>13, <1>16, i \in 1 .. Len(body), IInv, Dropped
    <2>2. program[u].op \in {"load", "add"}
        BY <1>16 DEF Sees
    <2>3. l \in i .. (j + 1) - 1
        BY <1>1, <1>3, <1>14, <2>1, <2>2 DEF TypeOK
    <2>4. body[l].op \notin {"load", "add"}
        <3>1. body[i].op \notin {"load", "add"} /\ body[j].op \notin {"load", "add"}
            BY ONLY <1>2, <1>3 DEF IsAdrp
        <3> QED BY ONLY <1>3, <2>3, <3>1
    <2> QED BY ONLY <2>1, <2>2, <2>4
<1>17. \A l \in j + 1 .. Len(body) :
           /\ body'[l].line = body[l].line
           /\ Own(body[l]) => Own(body'[l])
           /\ body[l].op = "address" => body'[l] = body[l]
           /\ IsAdrp(body'[l]) => body'[l] = body[l]
    BY ONLY <1>14, <1>15
<1>18. \A m \in DOMAIN nodes :
          /\ \E l \in i .. (j + 1) - 1 : nodes[m].line = body[l].line
          /\ \/ Own(nodes[m]) \/ nodes[m] \in Left
             \/ \E k : /\ Completes(program, nodes[m].line, k) /\ nodes[m] = Joint(nodes[m].line, k)
                       /\ \E l \in i .. (j + 1) - 1 : body[l].line = k
                       /\ \A x \in DOMAIN nodes : nodes[x].line # k
          /\ IsAdrp(nodes[m]) => nodes[m] \in Left /\ (phase = "pairs" => Alone(nodes[m].line))
    BY ONLY <1>11
<1>19. \A k, u \in DOMAIN program :
          program[k].op = "adrp" /\ Sees(program, k, u) /\ program[k] \in Left /\ program[u] \in Left =>
              program[k] \notin Left' \/ program[u] \in Left'
    BY ONLY <1>16
<1> QED BY ONLY <1>1, <1>8, <1>9, <1>10, <1>12, <1>13, <1>17, <1>18, <1>19, IInv, Pending, AInv, Addressed(program),
                CompactStep

\* An ADRP that is not completed by an addition is not completed.
LEMMA NotCompleted ==
    ASSUME GOTApart(program), NEW h \in DOMAIN program, program[h].op = "adrp", Alone(h)
    PROVE  \A j : ~ Completes(program, h, j)
<1> SUFFICES ASSUME NEW j, Completes(program, h, j) PROVE FALSE
    OBVIOUS
<1>1. j \in DOMAIN program /\ Behind(program, h, j) /\ program[j].op = "gotload" /\ program[j].base = program[h].dst
    BY DEF Alone, Completes, Behind
<1> QED BY <1>1 DEF GOTApart

\* rewriteGotLoads: a load from a table
LEMMA PageLoadAddresses ==
    ASSUME IInv, Pending, AInv, Addressed(program), RewritePageLoad
    PROVE  AInv'
<1>1. phase = "loads" /\ i \in 1 .. Len(body) /\ TypeOK /\ phase \in Compacting /\ phase # "failed"
    BY DEF RewritePageLoad, At, IInv, Compacting, TypeOK
<1> DEFINE j == NextInst(i + 1)
           n == Address(Here.dst, body[j].sym, 0, Here.line)
           m == Numbered(body[j])
<1>2. /\ LoadsThrough(j) /\ body[j].op = "load" /\ Keep(<<n, m>>, Resume(j))
      /\ body' = RewritePageUses(j, Here.dst, body[j].sym)
    BY DEF RewritePageLoad
<1> HIDE DEF j
<1>3. /\ Here.line \in DOMAIN program /\ Here = program[Here.line] /\ Here \in Node /\ IsAdrp(Here)
      /\ body[j].line \in DOMAIN program /\ body[j] = program[body[j].line] /\ body[j] \in Node
      /\ body[j].base = Here.dst
      /\ Behind(program, Here.line, body[j].line)
      /\ body[j].sym = Here.sym /\ Here.sym # NoSym
      /\ \A l \in i + 1 .. j - 1 :
           body[l].op \notin {"address", "add", "load"} /\ ~ IsAdrp(body[l]) /\ ~ Lasting(body[l].line)
      /\ j \in i + 1 .. Len(body) /\ Resume(j) = j + 1 /\ j + 1 \in i + 1 .. Len(body) + 1
      /\ \A l \in i .. (j + 1) - 1 : l = i \/ l = j \/ l \in i + 1 .. j - 1
      /\ i \in i .. (j + 1) - 1 /\ j \in i .. (j + 1) - 1
      /\ Here.line # body[j].line /\ Here = body[i] /\ Here \in Left
    BY <1>1, <1>2, LoadsFacts DEF j
<1> DEFINE h == Here.line
           jj == body[j].line
<1>4. GOTApart(program) /\ AddendsCounted(program)
    BY AddressedFacts
<1>5. Here.op = "adrp"
    <2>1. h \in DOMAIN program /\ jj \in DOMAIN program /\ program[jj].op = "load" /\ program[h].sym = program[jj].sym
        BY <1>2, <1>3
    <2>2. Here.op # "gotadrp"
        BY <1>3, <1>4, <2>1 DEF GOTApart
    <2> QED BY <1>3, <2>2 DEF IsAdrp
<1>6. /\ n.line = h /\ n.op = "address" /\ ~ IsAdrp(n)
      /\ m.line = jj /\ m.op = "load" /\ ~ IsAdrp(m) /\ m \in Node
    BY <1>2, <1>3, NumberedNode DEF Address, IsAdrp
<1>7. n \in Node
    <2>1. /\ Here.dst \in Reg \cup {NoReg} /\ 0 \in 0 .. MaxOff
          /\ body[j].sym \in Sym \cup {NoSym} /\ Here.line \in Nat \ {0}
        BY ONLY <1>3, FieldTypes, MaxOffAssumption
    <2> QED BY ONLY <2>1, AddressNode
<1>8. Right(h, 0)
    <2>1. Alone(h)
        BY <1>1, <1>3 DEF AInv
    <2>2. \A x : ~ Completes(program, h, x)
        BY <1>3, <1>4, <1>5, <2>1, NotCompleted
    <2>3. ASSUME NEW u \in DOMAIN program, Finds(program, u, h), program[u].sym = NoSym PROVE 0 = program[h].off
        <3> SUFFICES ASSUME program[h].off # 0 PROVE FALSE
            OBVIOUS
        <3>1. SeesNone(program, h)
            BY <1>3, <1>4, <1>5, <2>2, <2>3 DEF AddendsCounted
        <3>2. h < jj /\ jj \in DOMAIN program /\ program[jj].sym = program[h].sym /\ program[jj].op = "load"
              /\ program[jj].base = program[h].dst
            BY <1>2, <1>3 DEF Behind
        <3> QED BY <3>1, <3>2 DEF SeesNone
    <2> QED BY <2>2, <2>3 DEF Right
<1>9. Own(n)
    <2>1. program[h].line = h
        BY <1>3
    <2>2. n = Address(program[h].dst, program[h].sym, 0, program[h].line) /\ IsAdrp(program[h])
        BY <1>3
    <2> QED BY <1>3, <1>6, <1>8, <2>2 DEF Own
<1>10. Own(m)
    BY <1>2, <1>3, <1>6 DEF Own
<1>11. body' = RewritePageUses(j, Here.dst, Here.sym) /\ Keep(<<n, m>>, j + 1)
    BY <1>2, <1>3
<1> HIDE DEF n, m
<1> DEFINE nodes == <<n, m>>
<1>12. nodes \in Seq(Node) /\ DOMAIN nodes = {1, 2} /\ nodes[1] = n /\ nodes[2] = m
    BY <1>6, <1>7
<1>13. Keep(nodes, j + 1)
    BY <1>11
<1> HIDE DEF nodes
<1>14. \A x \in DOMAIN nodes :
         (\E l \in i .. (j + 1) - 1 : nodes[x].line = body[l].line) /\ Own(nodes[x]) /\ ~ IsAdrp(nodes[x])
    BY <1>3, <1>6, <1>9, <1>10, <1>12
<1>15. \A l \in i .. (j + 1) - 1 :
        \/ \E x \in DOMAIN nodes : nodes[x].line = body[l].line /\ (body[l].op = "address" => nodes[x] = body[l])
        \/ body[l].op # "address" /\ ~ Lasting(body[l].line)
    <2>1. body[i].op # "address" /\ body[j].op # "address"
        BY <1>2, <1>3, <1>5
    <2>2. 1 \in DOMAIN nodes /\ nodes[1].line = body[i].line /\ 2 \in DOMAIN nodes /\ nodes[2].line = body[j].line
        BY <1>3, <1>6, <1>12
    <2> QED BY ONLY <1>3, <2>1, <2>2
<1>16. Len(body') = Len(body)
    BY <1>1, <1>2, PageUsesControl DEF SameControl
<1>17. \A l \in j + 1 .. Len(body) :
           /\ body'[l].line = body[l].line
           /\ Own(body[l]) => Own(body'[l])
           /\ body[l].op = "address" => body'[l] = body[l]
           /\ IsAdrp(body'[l]) => body'[l] = body[l]
    <2>1. \A l \in j + 1 .. Len(body) : l \in i .. Len(body)
        BY <1>1, <1>3 DEF TypeOK
    <2> QED BY <1>1, <1>2, <2>1, PageUsesOwn
<1>18. ASSUME NEW k \in DOMAIN program, NEW u \in DOMAIN program,
              program[k].op = "adrp", Sees(program, k, u), program[k] \in Left, program[u] \in Left
       PROVE  program[k] \notin Left' \/ program[u] \in Left'
    <2>1. h \in DOMAIN program /\ Here.line = h /\ Here = program[h] /\ j \in i .. Len(body)
        BY <1>1, <1>3 DEF TypeOK
    <2>2. \A l \in i .. j :
            /\ IsAdrp(body[l]) => l = i
            /\ body[l].op \in {"load", "add"} => Behind(program, h, body[l].line) /\ body[l].base = Here.dst
        <3>1. \A l \in i .. j : l \in i .. (j + 1) - 1
            BY <1>1, <1>3 DEF TypeOK
        <3>2. ~ IsAdrp(body[j]) /\ body[i].op \notin {"load", "add"}
            BY <1>2, <1>3, <1>5 DEF IsAdrp
        <3> QED BY <1>3, <3>1, <3>2
    <2>3. \E x \in DOMAIN program :
            Behind(program, h, x) /\ program[x].op = "load" /\ program[x].base = program[h].dst
        BY <1>2, <1>3
    <2>4. phase \in {"loads", "bases"} /\ \A x \in DOMAIN nodes : ~ IsAdrp(nodes[x])
        BY <1>1, <1>14
    <2> HIDE DEF h
    <2> QED BY ONLY <1>1, <1>5, <1>11, <1>12, <1>13, <1>16, <1>18, <2>1, <2>2, <2>3, <2>4, IInv, Pending, AInv,
                    Addressed(program), SeesStays
<1> QED BY ONLY <1>1, <1>3, <1>12, <1>13, <1>14, <1>15, <1>16, <1>17, <1>18, IInv, Pending, AInv, Addressed(program),
                CompactStep

LEMMA LoadsAddresses ==
    ASSUME IInv, Pending, AInv, Addressed(program), RewriteGOTLoad \/ RewritePageLoad \/ KeepInLoads, phase' # "failed"
    PROVE  AInv'
<1>1. CASE KeepInLoads
    <2>1. phase = "loads" /\ i \in 1 .. Len(body) /\ phase \in Compacting /\ Keep(<<Here>>, i + 1) /\ body' = body
        BY <1>1 DEF KeepInLoads, At, IInv, Compacting, TypeOK
    <2> QED BY <2>1, KeptAddresses
<1> QED BY <1>1, PageLoadAddresses, GOTLoadAddresses

\* An ADRP on its own in the last pass over bases.
LEMMA BaseFacts ==
    ASSUME IInv, Pending, AInv, Addressed(program), phase = "bases", i \in 1 .. Len(body), IsAdrp(Here)
    PROVE  /\ Here \in Left /\ Here \in Node /\ Here = body[i] /\ Here.line \in DOMAIN program
           /\ Here = program[Here.line] /\ Alone(Here.line) /\ Here.sym # NoSym
           /\ i + 1 \in i + 1 .. Len(body) + 1 /\ \A l \in i .. (i + 1) - 1 : l = i
           /\ i \in i .. (i + 1) - 1 /\ i \in i .. Len(body)
<1>1. phase \in Compacting /\ phase # "failed" /\ i \in Nat /\ Len(body) \in Nat /\ Here = body[i] /\ WellFormed(program)
    BY AddressedFacts DEF IInv, TypeOK, Compacting, Here
<1>2. i + 1 \in i + 1 .. Len(body) + 1 /\ (\A l \in i .. (i + 1) - 1 : l = i)
      /\ i \in i .. (i + 1) - 1 /\ i \in i .. Len(body)
    BY <1>1
<1>3. Here \in Left
    BY <1>1, <1>2, AheadLeft
<1>4. Fate(Here) /\ Alone(Here.line)
    BY <1>1, <1>3 DEF AInv
<1>5. Here.op \notin {"address", "add", "load", "gotload"}
    BY DEF IsAdrp
<1>6. Here \in Node /\ Here.line \in DOMAIN program /\ Here = program[Here.line]
    BY ONLY <1>1, <1>3, <1>4, <1>5, IInv, Pending, FateFacts
<1>7. Here.sym # NoSym
    BY <1>1, <1>6 DEF WellFormed
<1> QED BY <1>1, <1>2, <1>3, <1>4, <1>6, <1>7

\* The ADRP has its addend if, and only if, its uses need it there.
LEMMA AddendRight ==
    ASSUME IInv, Pending, AInv, Addressed(program), phase = "bases", i \in 1 .. Len(body), Here.op = "adrp"
    PROVE  Right(Here.line, Addend)
<1> DEFINE h == Here.line
<1>1. /\ Here \in Left /\ Here \in Node /\ Here = body[i] /\ h \in DOMAIN program
      /\ Here = program[h] /\ Alone(h) /\ Here.sym # NoSym /\ IsAdrp(Here)
    BY BaseFacts DEF IsAdrp
<1> HIDE DEF h
<1>2. GOTApart(program) /\ AddendsCounted(program) /\ WellFormed(program)
    BY AddressedFacts
<1>3. \A x : ~ Completes(program, h, x)
    BY <1>1, <1>2, NotCompleted
<1>4. Addend \in {0, program[h].off}
    BY <1>1 DEF Addend
<1>5. /\ phase \in Compacting /\ phase # "failed" /\ i \in Nat /\ Len(body) \in Nat /\ DOMAIN body = 1 .. Len(body)
      /\ DOMAIN program = 1 .. Len(program) /\ Len(program) \in Nat /\ i \in DOMAIN body /\ body[i].line = h
    BY <1>1 DEF IInv, TypeOK, Compacting, h
\* What the scan takes for a use is a line behind.
<1>6. ASSUME NEW l \in PageUses(i, Here.dst, Here.sym)
      PROVE  /\ body[l].line \in DOMAIN program /\ h < body[l].line /\ body[l] = program[body[l].line]
             /\ body[l].sym = program[h].sym
             /\ body[l].op = "add" \/ (body[l].op \in {"load", "gotload"} /\ body[l].base = program[h].dst)
    <2>1. l \in i + 1 .. Len(body) /\ body[l].sym = Here.sym
          /\ (body[l].op = "add" \/ (body[l].op \in {"load", "gotload"} /\ body[l].base = Here.dst))
        BY <1>6 DEF PageUses, Scanned
    <2>2. l \in i .. Len(body) /\ l \in DOMAIN body /\ i < l
        BY <1>5, <2>1
    <2>3. body[l] \in Left /\ h < body[l].line
        BY <1>5, <2>2, AheadLeft
    <2>4. Fate(body[l])
        BY <1>5, <2>3 DEF AInv
    <2>5. body[l].op # "address" /\ body[l].sym # NoSym
        BY <1>1, <2>1
    <2>6. body[l].line \in DOMAIN program /\ body[l] = program[body[l].line]
        BY ONLY <1>2, <1>5, <2>3, <2>4, <2>5, IInv, Pending, FateFacts
    <2> QED BY <1>1, <2>1, <2>3, <2>6
<1>7. ASSUME NEW u \in DOMAIN program, Finds(program, u, h), program[u].sym = NoSym, program[h].off # 0
      PROVE  Addend = program[h].off
    <2>1. SeesNone(program, h)
        BY <1>1, <1>2, <1>3, <1>7 DEF AddendsCounted
    <2>2. PageUses(i, Here.dst, Here.sym) = {}
        BY <1>6, <2>1 DEF SeesNone
    <2> QED BY <1>1, <2>2 DEF Addend
<1>8. ASSUME NEW v \in DOMAIN program, Sees(program, h, v) PROVE PageUses(i, Here.dst, Here.sym) # {}
    <2>1. program[v] \in Left
        BY <1>1, <1>5, <1>8 DEF AInv
    <2>2. /\ h < v /\ program[v].base = program[h].dst /\ program[v].sym = program[h].sym
          /\ \A l \in h + 1 .. v : ~ (IsAdrp(program[l]) /\ program[l].dst = program[h].dst)
          /\ program[v].op \in {"load", "add"}
        BY <1>8 DEF Sees
    <2>3. program[v].line = v
        BY DEF Pending
    <2>4. PICK l \in i .. Len(body) : program[v] = body[l]
        <3>1. i \in i .. Len(body) /\ ~ (program[v].line < body[i].line)
            <4>1. h \in Nat /\ v \in Nat
                BY <1>1, <1>5
            <4> QED BY <1>5, <2>2, <2>3, <4>1
        <3> QED BY <1>5, <2>1, <3>1, AheadLeft
    <2>5. l \in DOMAIN body /\ i < l
        <3>1. l \in DOMAIN body /\ body[i].line < body[l].line
            BY <1>5, <2>2, <2>3, <2>4
        <3> QED BY <1>5, <3>1, AheadLeft
    <2>6. ASSUME NEW x \in i + 1 .. l, IsAdrp(body[x]), body[x].dst = Here.dst PROVE FALSE
        <3>1. x \in i .. Len(body) /\ x \in DOMAIN body /\ i < x /\ (x = l \/ x < l)
            BY <1>5, <2>5
        <3>2. body[x] \in Left /\ body[x].line \in Nat /\ h < body[x].line /\ body[x].line <= v
            <4>1. body[x] \in Left /\ body[x].line \in Nat /\ h < body[x].line
                BY <1>5, <3>1, AheadLeft
            <4>2. x < l => body[x].line < v
                BY <1>5, <2>3, <2>4, <2>5, <3>1, AheadLeft
            <4> QED BY <1>5, <2>3, <2>4, <3>1, <4>1, <4>2
        <3>3. Fate(body[x])
            BY <1>5, <3>2 DEF AInv
        <3>4. body[x].op \notin {"address", "add", "load", "gotload"}
            BY <2>6 DEF IsAdrp
        <3>5. body[x] = program[body[x].line]
            BY ONLY <1>2, <1>5, <3>2, <3>3, <3>4, IInv, Pending, FateFacts
        <3>6. body[x].line \in h + 1 .. v
            BY <1>1, <1>5, <3>2
        <3> QED BY <1>1, <2>2, <2>6, <3>5, <3>6
    <2>7. l \in Scanned(i, Here.dst)
        <3>1. l \in i + 1 .. Len(body)
            BY <1>5, <2>5
        <3> QED BY <2>6, <3>1 DEF Scanned
    <2>8. l \in PageUses(i, Here.dst, Here.sym)
        BY <1>1, <2>2, <2>4, <2>7 DEF PageUses
    <2> QED BY <2>8
<1>9. ASSUME NEW u \in DOMAIN program, Finds(program, u, h), program[u].sym = program[h].sym, program[h].off # 0
      PROVE  Addend = 0
    <2>1. \E v \in DOMAIN program : Sees(program, h, v)
        BY <1>1, <1>2, <1>3, <1>9 DEF AddendsCounted
    <2>2. PageUses(i, Here.dst, Here.sym) # {}
        BY <1>8, <2>1
    <2> QED BY <2>2 DEF Addend
<1>10. Right(h, Addend)
    BY <1>3, <1>4, <1>7, <1>9 DEF Right
<1> QED BY <1>10 DEF h

\* rewriteRemainingPageBases
LEMMA PageBaseAddresses ==
    ASSUME IInv, Pending, AInv, Addressed(program), RewritePageBase
    PROVE  AInv'
<1>1. phase = "bases" /\ i \in 1 .. Len(body) /\ TypeOK /\ phase \in Compacting /\ IsAdrp(Here) /\ Here.op = "adrp"
    BY DEF RewritePageBase, At, IInv, Compacting, TypeOK, IsAdrp
<1> DEFINE n == Address(Here.dst, Here.sym, Addend, Here.line)
           h == Here.line
<1>2. Keep(<<n>>, i + 1) /\ body' = RewritePageUses(i, Here.dst, Here.sym)
    BY DEF RewritePageBase
<1>3. /\ Here \in Left /\ Here \in Node /\ Here = body[i] /\ Here.line \in DOMAIN program
      /\ Here = program[Here.line] /\ Alone(Here.line) /\ Here.sym # NoSym
      /\ i + 1 \in i + 1 .. Len(body) + 1 /\ \A l \in i .. (i + 1) - 1 : l = i
      /\ i \in i .. (i + 1) - 1 /\ i \in i .. Len(body)
    BY <1>1, BaseFacts
<1>4. Right(h, Addend)
    BY <1>1, AddendRight
<1>5. n.line = h /\ n.op = "address" /\ ~ IsAdrp(n)
    BY DEF Address, IsAdrp
<1>6. Own(n)
    <2>1. n = Address(program[h].dst, program[h].sym, Addend, program[h].line) /\ IsAdrp(program[h])
        BY <1>1, <1>3
    <2> QED BY <1>3, <1>4, <1>5, <2>1 DEF Own
<1>7. n \in Node
    <2>1. Addend \in 0 .. MaxOff
        BY <1>3, MaxOffAssumption DEF Addend, Node, Fields
    <2>2. Here.dst \in Reg \cup {NoReg} /\ Here.line \in Nat \ {0} /\ Here.sym \in Sym \cup {NoSym}
        BY <1>3, FieldTypes
    <2> QED BY <2>1, <2>2, AddressNode
<1> HIDE DEF n
<1>8. <<n>> \in Seq(Node) /\ DOMAIN <<n>> = {1} /\ <<n>>[1] = n
    BY <1>7
<1>9. \A m \in DOMAIN <<n>> :
        (\E l \in i .. (i + 1) - 1 : <<n>>[m].line = body[l].line) /\ Own(<<n>>[m]) /\ ~ IsAdrp(<<n>>[m])
    BY <1>3, <1>5, <1>6, <1>8
<1>10. \A l \in i .. (i + 1) - 1 :
        \E m \in DOMAIN <<n>> : <<n>>[m].line = body[l].line /\ (body[l].op = "address" => <<n>>[m] = body[l])
    BY <1>1, <1>3, <1>5, <1>8
<1>11. Len(body') = Len(body)
    BY <1>1, <1>2, PageUsesControl DEF SameControl
<1>12. \A l \in i + 1 .. Len(body) :
           /\ body'[l].line = body[l].line
           /\ Own(body[l]) => Own(body'[l])
           /\ body[l].op = "address" => body'[l] = body[l]
           /\ IsAdrp(body'[l]) => body'[l] = body[l]
    <2>1. \A l \in i + 1 .. Len(body) : l \in i .. Len(body)
        BY <1>1 DEF TypeOK
    <2> QED BY <1>1, <1>2, <2>1, PageUsesOwn
<1>13. ASSUME NEW k \in DOMAIN program, NEW u \in DOMAIN program,
              program[k].op = "adrp", Sees(program, k, u), program[k] \in Left, program[u] \in Left
       PROVE  program[k] \notin Left' \/ program[u] \in Left'
    <2>1. h \in DOMAIN program /\ Here.line = h /\ Here = program[h]
        BY <1>3
    <2>2. \A l \in i .. i :
            /\ IsAdrp(body[l]) => l = i
            /\ body[l].op \in {"load", "add"} => Behind(program, h, body[l].line) /\ body[l].base = Here.dst
        <3>1. \A l \in i .. i : l = i
            BY <1>1 DEF TypeOK
        <3> QED BY <1>1, <1>3, <3>1
    <2>3. phase \in {"loads", "bases"} /\ \A m \in DOMAIN <<n>> : ~ IsAdrp(<<n>>[m])
        BY <1>1, <1>9
    <2> HIDE DEF h
    <2> QED BY ONLY <1>1, <1>2, <1>3, <1>8, <1>11, <1>13, <2>1, <2>2, <2>3, IInv, Pending, AInv,
                    Addressed(program), SeesStays
<1> QED BY ONLY <1>1, <1>2, <1>3, <1>8, <1>9, <1>10, <1>11, <1>12, <1>13, IInv, Pending, AInv, Addressed(program),
                CompactStep

LEMMA GOTBaseAddresses ==
    ASSUME IInv, Pending, AInv, Addressed(program), RewriteGOTBase
    PROVE  AInv'
<1>1. phase = "bases" /\ i \in 1 .. Len(body) /\ TypeOK /\ phase \in Compacting /\ IsAdrp(Here) /\ Here.op = "gotadrp"
    BY DEF RewriteGOTBase, At, IInv, Compacting, TypeOK, IsAdrp
<1>2. Keep(<<>>, i + 1) /\ body' = RewriteGOTUses(i, Here.dst, Here.sym, 0) /\ Known(Here.sym)
    BY DEF RewriteGOTBase
<1>3. /\ Here \in Left /\ Here \in Node /\ Here = body[i] /\ Here.line \in DOMAIN program
      /\ Here = program[Here.line] /\ Alone(Here.line) /\ Here.sym # NoSym
      /\ i + 1 \in i + 1 .. Len(body) + 1 /\ \A l \in i .. (i + 1) - 1 : l = i
      /\ i \in i .. (i + 1) - 1 /\ i \in i .. Len(body)
    BY <1>1, BaseFacts
<1>4. <<>> \in Seq(Node) /\ DOMAIN <<>> = {}
    OBVIOUS
<1>5. \A l \in i .. (i + 1) - 1 : body[l].op # "address" /\ ~ Lasting(body[l].line)
    BY <1>1, <1>3 DEF Lasting
<1>6. Len(body') = Len(body)
    <2>1. Here.sym \in Sym /\ 0 \in 0 .. MaxOff
        BY <1>2, NoSymKnown, MaxOffAssumption
    <2> QED BY <1>1, <1>2, <2>1, GOTUsesControl DEF SameControl
<1>7. \A l \in i .. Len(body) :
           /\ body'[l].line = body[l].line
           /\ Own(body[l]) => Own(body'[l])
           /\ body[l].op = "address" => body'[l] = body[l]
           /\ IsAdrp(body'[l]) => body'[l] = body[l]
           /\ body[l].op \in {"add", "load"} => body'[l] = body[l]
    <2>1. \E m \in DOMAIN program : program[m].op \in {"gotadrp", "gotload"} /\ program[m].sym = Here.sym
        BY <1>1, <1>3
    <2> QED BY <1>1, <1>2, <1>3, <2>1, GOTUsesOwn
<1>8. \A l \in i + 1 .. Len(body) : l \in i .. Len(body)
    BY <1>1 DEF TypeOK
<1>9. ASSUME NEW k \in DOMAIN program, NEW u \in DOMAIN program,
             Sees(program, k, u), program[u] \in Left, program[u] \notin Left'
      PROVE  FALSE
    <2>1. PICK l \in i .. Len(body) : program[u] = body[l] /\ (l < i + 1 \/ body'[l] # body[l])
        BY ONLY <1>1, <1>2, <1>3, <1>4, <1>6, <1>9, IInv, Dropped
    <2>2. program[u].op \in {"load", "add"}
        BY <1>9 DEF Sees
    <2>3. l = i
        BY <1>1, <1>7, <2>1, <2>2 DEF TypeOK
    <2> QED BY <1>1, <1>3, <2>1, <2>2, <2>3
<1> QED BY ONLY <1>1, <1>2, <1>3, <1>4, <1>5, <1>6, <1>7, <1>8, <1>9, IInv, Pending, AInv, Addressed(program), CompactStep

LEMMA BasesAddresses ==
    ASSUME IInv, Pending, AInv, Addressed(program),
           RejectBase \/ RewriteGOTBase \/ RewritePageBase \/ KeepInBases, phase' # "failed"
    PROVE  AInv'
<1>1. CASE KeepInBases
    <2>1. phase = "bases" /\ i \in 1 .. Len(body) /\ phase \in Compacting /\ Keep(<<Here>>, i + 1) /\ body' = body
        BY <1>1 DEF KeepInBases, At, IInv, Compacting, TypeOK
    <2> QED BY <2>1, KeptAddresses
<1>2. CASE RejectBase
    BY <1>2 DEF RejectBase, Fail
<1> QED BY <1>1, <1>2, PageBaseAddresses, GOTBaseAddresses

\* The end of a pass: what is left is the body of the next.
LEMMA EndPassAddresses ==
    ASSUME IInv, AInv, Addressed(program), EndPass
    PROVE  AInv'
<1>1. /\ phase \in Compacting /\ phase # "failed" /\ i > Len(body) /\ body' = out /\ out' = <<>> /\ i' = 1
      /\ program' = program
      /\ phase' = CASE phase = "pairs" -> "loads" [] phase = "loads" -> "bases" [] phase = "bases" -> "offsets"
      /\ out \in Seq(Node) /\ Len(out) \in Nat /\ DOMAIN out = 1 .. Len(out)
      /\ i \in Nat /\ Len(body) \in Nat
    BY DEF EndPass, Compacting, IInv, TypeOK
<1>2. /\ phase' # "pairs" /\ (phase' = "loads" => phase = "pairs") /\ (phase' = "bases" => phase = "loads")
      /\ phase' \in {"loads", "bases", "offsets"}
    BY <1>1 DEF Compacting
<1>3. Left = {out[l] : l \in DOMAIN out} /\ Left' = Left
    <2>1. i .. Len(body) = {} /\ DOMAIN out' = {} /\ i' .. Len(body') = DOMAIN out
        BY <1>1
    <2>2. Left = {out[l] : l \in DOMAIN out}
        BY <1>1, <2>1 DEF Left
    <2>3. Left' = {out[l] : l \in DOMAIN out}
        BY <1>1, <2>1 DEF Left
    <2> QED BY <2>2, <2>3
<1>4. /\ \A n \in Left : Fate(n)
      /\ \A k \in DOMAIN program : Lasting(k) => Accounted(k)
      /\ phase \in {"pairs", "loads"} => \A n \in Left : IsAdrp(n) => Alone(n.line)
      /\ \A k, u \in DOMAIN program :
            program[k].op = "adrp" /\ Sees(program, k, u) /\ program[k] \in Left => program[u] \in Left
    BY <1>1, <1>3 DEF AInv
<1>5. \A k : Present(k)' <=> Present(k)
    BY <1>3 DEF Present
<1>6. (\A n \in Left : Fate(n))'
    BY <1>1, <1>3, <1>4, <1>5, SameProgram DEF Fate
<1>7. (\A k \in DOMAIN program : Lasting(k) => Accounted(k))'
    BY <1>1, <1>3, <1>4, <1>5, SameProgram DEF Accounted
<1>8. phase' \in {"loads", "bases"} => (\A n \in Left : IsAdrp(n) => Alone(n.line))'
    BY <1>1, <1>2, <1>3, <1>4, SameProgram
<1>9. \A k, u \in DOMAIN program :
          program[k].op = "adrp" /\ Sees(program, k, u) /\ program[k] \in Left' => program[u] \in Left'
    BY <1>3, <1>4
<1>10. \A l \in 1 .. i' - 1 : FALSE
    BY <1>1
<1> QED BY <1>1, <1>2, <1>6, <1>7, <1>8, <1>9, <1>10, SameProgram DEF AInv

\* A step that rewrites nothing once the bases are done.
LEMMA SameAddresses ==
    ASSUME AInv, Addressed(program), program' = program, body' = body,
           phase \in {"offsets", "run", "end"}, phase' \in {"offsets", "run", "end"},
           phase' = "offsets" => phase = "offsets" /\ \A l \in 1 .. i' - 1 : Access(body[l]) => body[l].sym = NoSym,
           phase' # "offsets" => \A l \in DOMAIN body : /\ Access(body[l]) => body[l].sym = NoSym
                                                        /\ ~ IsAdrp(body[l]) /\ body[l].op # "gotload"
    PROVE  AInv'
<1>1. phase \notin Compacting /\ phase' \notin Compacting /\ phase # "failed" /\ phase' \notin {"pairs", "loads", "bases"}
    BY DEF Compacting
<1>2. Left' = Left
    BY <1>1 DEF Left, Compacting
<1>3. /\ \A n \in Left : Fate(n)
      /\ \A k \in DOMAIN program : Lasting(k) => Accounted(k)
    BY <1>1 DEF AInv
<1>4. \A k : Present(k)' <=> Present(k)
    BY <1>2 DEF Present
<1>5. (\A n \in Left : Fate(n))'
    BY <1>2, <1>3, <1>4, SameProgram DEF Fate
<1>6. (\A k \in DOMAIN program : Lasting(k) => Accounted(k))'
    BY <1>2, <1>3, <1>4, SameProgram DEF Accounted
<1> QED BY <1>1, <1>5, <1>6 DEF AInv, Compacting

\* rewriteRemainingPageOffsets: one node is rewritten in its place.
LEMMA InPlaceAddresses ==
    ASSUME IInv, AInv, Addressed(program), phase = "offsets", i \in 1 .. Len(body),
           NEW n \in Node, n.line = Here.line, Own(n), Here.op # "address",
           body' = [body EXCEPT ![i] = n], i' = i + 1, program' = program, phase' = phase,
           Access(n) => n.sym = NoSym
    PROVE  AInv'
<1>1. /\ body \in Seq(Node) /\ Len(body) \in Nat /\ DOMAIN body = 1 .. Len(body) /\ i \in Nat
      /\ phase \notin Compacting /\ phase # "failed" /\ phase' \notin Compacting /\ Here = body[i] /\ i \in DOMAIN body
    BY DEF IInv, TypeOK, Compacting, Here
<1>2. DOMAIN body' = DOMAIN body /\ body'[i] = n /\ \A l \in DOMAIN body : l # i => body'[l] = body[l]
    BY <1>1
<1>3. /\ Left = {body[l] : l \in DOMAIN body} /\ Left' = {body'[l] : l \in DOMAIN body}
    BY <1>1, <1>2 DEF Left
<1>4. /\ \A m \in Left : Fate(m)
      /\ \A k \in DOMAIN program : Lasting(k) => Accounted(k)
      /\ \A l \in 1 .. i - 1 : Access(body[l]) => body[l].sym = NoSym
    BY <1>1 DEF AInv
<1>5. \A l \in DOMAIN body : body'[l].line = body[l].line
    BY <1>1, <1>2
<1>6. \A k : Present(k)' <=> Present(k)
    BY <1>3, <1>5 DEF Present
<1>7. \A m \in Left : m.op = "address" => m \in Left'
    BY <1>1, <1>2, <1>3
<1>8. (\A m \in Left : Fate(m))'
    <2> SUFFICES ASSUME NEW m \in Left' PROVE Fate(m)'
        OBVIOUS
    <2>1. CASE m = n
        BY <2>1, SameProgram DEF Fate
    <2>2. CASE m # n
        <3>1. m \in Left
            BY <1>1, <1>2, <1>3, <2>2
        <3> QED BY <1>4, <1>6, <3>1, SameProgram DEF Fate
    <2> QED BY <2>1, <2>2
<1>9. (\A k \in DOMAIN program : Lasting(k) => Accounted(k))'
    <2> SUFFICES ASSUME NEW k \in DOMAIN program, Lasting(k) PROVE Accounted(k)'
        BY SameProgram
    <2>1. CASE Present(k)
        BY <1>6, <2>1 DEF Accounted
    <2>2. CASE \E m : Completes(program, m, k) /\ Joint(m, k) \in Left
        <3>1. \A m : Joint(m, k).op = "address"
            BY DEF Joint, Address
        <3> QED BY <1>7, <2>2, <3>1, SameProgram DEF Accounted
    <2> QED BY <1>4, <2>1, <2>2 DEF Accounted
<1>10. \A l \in 1 .. i' - 1 : Access(body'[l]) => body'[l].sym = NoSym
    <2> SUFFICES ASSUME NEW l \in 1 .. i' - 1, Access(body'[l]) PROVE body'[l].sym = NoSym
        OBVIOUS
    <2>1. l = i \/ (l \in 1 .. i - 1 /\ l \in DOMAIN body /\ l # i)
        BY <1>1
    <2> QED BY <1>2, <1>4, <2>1
<1> QED BY <1>1, <1>8, <1>9, <1>10 DEF AInv, Compacting

LEMMA OffsetsAddresses ==
    ASSUME IInv, Pending, AInv, Addressed(program), RewriteOffset \/ RewriteGOTOffset \/ KeepInOffsets, phase' # "failed"
    PROVE  AInv'
<1>1. /\ phase = "offsets" /\ i \in 1 .. Len(body) /\ phase \notin Compacting /\ phase # "failed"
      /\ body \in Seq(Node) /\ DOMAIN body = 1 .. Len(body) /\ Here = body[i] /\ i \in DOMAIN body /\ i \in Nat
    BY DEF RewriteOffset, RewriteGOTOffset, KeepInOffsets, At, IInv, Compacting, TypeOK, Here
<1>2. Here \in Left /\ Fate(Here)
    BY <1>1 DEF Left, AInv
<1>3. WellFormed(program) /\ GOTApart(program)
    BY AddressedFacts
<1>4. /\ Here \in Node /\ Here.line \in DOMAIN program /\ program[Here.line] \in Node
      /\ program[Here.line].line = Here.line
      /\ Here.op # "address" =>
            /\ Own(Here) /\ Here.op = program[Here.line].op
            /\ Here = program[Here.line] \/ (Here.op \in {"add", "load", "gotload"} /\ Here = Numbered(program[Here.line]))
            /\ Here.sym # NoSym => Here = program[Here.line]
    BY <1>1, <1>2, <1>3, FateFacts
<1>5. CASE RewriteOffset
    <2> DEFINE n == Numbered(Here)
    <2>1. /\ Here.op \in {"load", "add"} /\ body' = [body EXCEPT ![i] = n] /\ i' = i + 1
          /\ program' = program /\ phase' = phase
        BY <1>5 DEF RewriteOffset
    <2>2. n \in Node /\ n.line = Here.line /\ n.sym = NoSym
        BY <1>4, NumberedNode DEF Numbered, Node, Fields
    <2>3. Own(n)
        <3>1. Numbered(Numbered(program[Here.line])) = Numbered(program[Here.line])
            BY DEF Numbered
        <3>2. n = Numbered(program[Here.line]) /\ program[Here.line].op \in {"add", "load", "gotload"}
            BY <1>4, <2>1, <3>1
        <3> QED BY <1>4, <2>2, <3>2 DEF Own
    <2> HIDE DEF n
    <2> QED BY <1>1, <2>1, <2>2, <2>3, InPlaceAddresses
<1>6. CASE RewriteGOTOffset
    <2> DEFINE n == Address(Here.dst, Here.sym, Here.off, Here.line)
    <2>1. /\ Here.op = "gotload" /\ Here.sym # NoSym /\ body' = [body EXCEPT ![i] = n] /\ i' = i + 1
          /\ program' = program /\ phase' = phase
        BY <1>6 DEF RewriteGOTOffset, Fail
    <2>2. n \in Node /\ n.line = Here.line /\ n.op = "address"
        <3>1. /\ Here.dst \in Reg \cup {NoReg} /\ Here.line \in Nat \ {0}
              /\ Here.sym \in Sym \cup {NoSym} /\ Here.off \in 0 .. MaxOff
            BY <1>4, FieldTypes
        <3> QED BY <3>1, AddressNode DEF Address
    <2>3. Own(n)
        <3>1. Here = program[Here.line]
            BY <1>4, <2>1
        <3>2. Here.off = 0
            BY <1>3, <1>4, <2>1, <3>1 DEF GOTApart
        <3> QED BY <1>4, <2>1, <2>2, <3>1, <3>2 DEF Own
    <2>4. ~ Access(n)
        BY <2>2 DEF Access
    <2> HIDE DEF n
    <2> QED BY <1>1, <2>1, <2>2, <2>3, <2>4, InPlaceAddresses
<1>7. CASE KeepInOffsets
    <2>1. /\ ~ Access(Here) /\ body' = body /\ i' = i + 1 /\ program' = program /\ phase' = "offsets"
        BY <1>1, <1>7 DEF KeepInOffsets, Access
    <2>2. \A l \in 1 .. i' - 1 : Access(body[l]) => body[l].sym = NoSym
        <3>1. \A l \in 1 .. i - 1 : Access(body[l]) => body[l].sym = NoSym
            BY <1>1 DEF AInv
        <3>2. \A l \in 1 .. i' - 1 : l = i \/ l \in 1 .. i - 1
            BY <1>1, <2>1
        <3> QED BY <1>1, <2>1, <3>1, <3>2
    <2> QED BY <1>1, <2>1, <2>2, SameAddresses
<1> QED BY <1>5, <1>6, <1>7

LEMMA CheckAddresses ==
    ASSUME IInv, AInv, Addressed(program), Check \/ Execute \/ End, phase' # "failed"
    PROVE  AInv'
<1>1. program' = program /\ body' = body
    BY DEF Check, Execute, End
<1>2. CASE Check
    <2>1. /\ phase = "offsets" /\ i > Len(body) /\ phase' = "run"
          /\ ~ \E k \in DOMAIN body : IsAdrp(body[k]) \/ body[k].op = "gotload"
        BY <1>2 DEF Check
    <2>2. \A l \in DOMAIN body : l \in 1 .. i - 1
        BY <2>1 DEF IInv, TypeOK
    <2>3. \A l \in DOMAIN body : Access(body[l]) => body[l].sym = NoSym
        BY <2>1, <2>2 DEF AInv
    <2> QED BY <1>1, <2>1, <2>3, SameAddresses
<1>3. CASE Execute \/ End
    <2>1. phase = "run" /\ phase' \in {"run", "end"}
        BY <1>3 DEF Execute, End
    <2>2. \A l \in DOMAIN body : /\ Access(body[l]) => body[l].sym = NoSym
                                 /\ ~ IsAdrp(body[l]) /\ body[l].op # "gotload"
        BY <2>1 DEF AInv
    <2> QED BY <1>1, <2>1, <2>2, SameAddresses
<1> QED BY <1>2, <1>3

LEMMA InitAddresses == Init => AInv
<1> SUFFICES ASSUME Init PROVE AInv
    OBVIOUS
<1>1. /\ program \in Seq(Node) /\ \A k \in DOMAIN program : program[k].line = k
      /\ body = program /\ i = 1 /\ out = <<>> /\ phase = "pairs"
      /\ DOMAIN program = 1 .. Len(program) /\ Len(program) \in Nat
    BY ProgramsAssumption DEF Init
<1>2. DOMAIN out = {}
    BY <1>1
<1>3. Left = {program[l] : l \in DOMAIN program}
    BY <1>1, <1>2 DEF Left, Compacting
<1>4. \A n \in Left : Fate(n)
    BY <1>1, <1>3 DEF Fate, Own
<1>5. \A k \in DOMAIN program : Accounted(k)
    BY <1>1, <1>3 DEF Accounted, Present
<1> QED BY <1>1, <1>2, <1>3, <1>4, <1>5 DEF AInv

LEMMA NextAddresses ==
    ASSUME IInv, Pending, AInv, [Next]_vars PROVE AInv'
<1>1. program' = program
    BY DEF Next, RewritePair, KeepInPairs, RewriteGOTLoad, RewritePageLoad, KeepInLoads, RejectBase,
           RewriteGOTBase, RewritePageBase, KeepInBases, EndPass, RewriteOffset, RewriteGOTOffset,
           KeepInOffsets, Check, Execute, End, Finished, Keep, Fail, vars
<1>2. CASE ~ Addressed(program)
    <2>1. ~ Addressed(program)'
        BY <1>1, <1>2
    <2> QED BY <2>1 DEF AInv
<1>3. CASE phase' = "failed"
    BY <1>3 DEF AInv
<1>4. CASE Addressed(program) /\ phase' # "failed" /\ (UNCHANGED vars \/ Finished)
    <2>1. UNCHANGED <<program, phase, body, i, out>>
        BY <1>4 DEF Finished, vars
    <2>2. Left' = Left /\ \A k : Present(k)' <=> Present(k)
        BY <2>1 DEF Left, Present
    <2>3. \A n : Fate(n)' <=> Fate(n)
        BY <1>1, <2>2, SameProgram DEF Fate
    <2>4. \A k : Accounted(k)' <=> Accounted(k)
        BY <1>1, <2>2, SameProgram DEF Accounted
    <2> QED BY <1>1, <2>1, <2>2, <2>3, <2>4, SameProgram DEF AInv
<1>5. CASE Addressed(program) /\ phase' # "failed" /\ ~ (UNCHANGED vars \/ Finished)
    BY <1>5, PairsAddresses, LoadsAddresses, BasesAddresses, EndPassAddresses, OffsetsAddresses, CheckAddresses DEF Next
<1> QED BY <1>2, <1>3, <1>4, <1>5

(***************************************************************************)
(* Then the two executions.  A register in which an access may find a page *)
(* holds the symbol's address in the rewritten code, but for the lines     *)
(* between an ADRP and the one it is rewritten with, and for accesses that *)
(* the page does not get to.                                               *)
(***************************************************************************)
Located(sym, off) == [kind |-> "addr", sym |-> sym, off |-> off]

\* What a register has to hold for the access n.
Agree(n, b, a) ==
    /\ n.sym # NoSym /\ b.kind = "page" /\ b.sym = n.sym => a = Located(n.sym, 0)
    /\ n.sym = NoSym /\ b.kind \in {"page", "addr"} => a = Located(b.sym, b.off)

\* Line j has gone into the ADRP of line k.
Taken(k, j) == Completes(program, k, j) /\ ~ Present(j)

\* The address of line j is in its register already.
Amid(r) == \E k, j : Taken(k, j) /\ pc \in k + 1 .. j /\ program[j].dst = r

\* The page in the register gets here but not to line u.
Excused(u) ==
    \E k \in DOMAIN program, V \in SUBSET DOMAIN program :
        Carries(program, k, V) /\ program[k].dst = program[u].base /\ pc \in V /\ u \notin V

Served(u) ==
    \/ Agree(program[u], before[program[u].base], after[program[u].base])
    \/ Excused(u)
    \/ Amid(program[u].base)

RInv ==
    Addressed(program) =>
        /\ phase \in Compacting \cup {"offsets"} =>
             pc = 1 /\ before = [r \in Reg |-> Junk] /\ after = [r \in Reg |-> Junk]
        /\ phase = "run" =>
             /\ pc \in DOMAIN program => \A u \in DOMAIN program : Access(program[u]) /\ Present(u) => Served(u)
             /\ \A k, j : Taken(k, j) /\ pc \in k + 1 .. j /\ program[j].dst \in Reg =>
                    after[program[j].dst] = Located(program[j].sym, program[j].off)

LEMMA ExecutedOne ==
    ASSUME NEW n, NEW reg, NEW r \in Reg
    PROVE  /\ Executed({n}, reg)[r] = IF n.dst = r THEN Result(n, reg) ELSE reg[r]
           /\ Executed({}, reg)[r] = reg[r]
<1>1. (CHOOSE m \in {n} : m.dst = r) = n \/ n.dst # r
    <2> SUFFICES ASSUME n.dst = r PROVE (CHOOSE m \in {n} : m.dst = r) = n
        OBVIOUS
    <2>1. \E m \in {n} : m.dst = r
        OBVIOUS
    <2>2. (CHOOSE m \in {n} : m.dst = r) \in {n}
        BY <2>1
    <2> QED BY <2>2
<1> QED BY <1>1 DEF Executed

\* What is left when the code runs.
LEMMA RunFacts ==
    ASSUME IInv, Pending, AInv, Addressed(program), phase = "run"
    PROVE  /\ \A n \in Left :
                /\ Fate(n) /\ n \in Node /\ n.line \in DOMAIN program /\ program[n.line] \in Node
                /\ n.op # "address" =>
                      /\ n.op = program[n.line].op /\ n.op \notin {"adrp", "gotadrp", "gotload"}
                      /\ n.dst = program[n.line].dst
                      /\ Access(n) => n = Numbered(program[n.line])
           /\ \A k \in DOMAIN program : Lasting(k) => Accounted(k)
           /\ \A n \in Left : InBody = {n} \/ n.line # pc
           /\ (\A n \in Left : n.line # pc) => InBody = {}
           /\ \A k \in DOMAIN program : program[k] \in Node /\ program[k].line = k /\ k \in Nat
<1>1. phase # "failed" /\ phase \notin Compacting /\ WellFormed(program)
    BY AddressedFacts DEF Compacting
<1>2. Left = {body[l] : l \in DOMAIN body}
    BY <1>1 DEF Left
<1>3. \A n \in Left : Fate(n) /\ (Access(n) => n.sym = NoSym) /\ ~ IsAdrp(n) /\ n.op # "gotload"
    BY <1>1, <1>2 DEF AInv
<1>4. \A k \in DOMAIN program : program[k] \in Node /\ program[k].line = k /\ k \in Nat
    BY DEF IInv, TypeOK, Pending
<1>5. ASSUME NEW n \in Left
      PROVE  /\ Fate(n) /\ n \in Node /\ n.line \in DOMAIN program /\ program[n.line] \in Node
             /\ n.op # "address" =>
                  /\ n.op = program[n.line].op /\ n.op \notin {"adrp", "gotadrp", "gotload"}
                  /\ n.dst = program[n.line].dst
                  /\ Access(n) => n = Numbered(program[n.line])
    <2>1. /\ n \in Node /\ n.line \in DOMAIN program /\ program[n.line] \in Node /\ program[n.line].line = n.line
          /\ n.op # "address" =>
               /\ n.op = program[n.line].op
               /\ n = program[n.line] \/ (n.op \in {"add", "load", "gotload"} /\ n = Numbered(program[n.line]))
        BY <1>1, <1>3, FateFacts
    <2>2. Numbered(program[n.line]).dst = program[n.line].dst
        BY <2>1 DEF Numbered, Node, Fields
    <2>3. n.sym = NoSym => Numbered(n) = n
        BY <2>1 DEF Numbered, Node, Fields
    <2>4. Numbered(Numbered(program[n.line])) = Numbered(program[n.line])
        BY DEF Numbered
    <2> QED BY <1>3, <2>1, <2>2, <2>3, <2>4 DEF IsAdrp
<1>6. \A k \in DOMAIN program : Lasting(k) => Accounted(k)
    BY <1>1 DEF AInv
<1>7. InBody = {n \in Left : n.line = pc}
    BY <1>2 DEF InBody
<1>8. \A n, m \in Left : n.line = m.line => n = m
    BY <1>1, OneLine
<1>9. \A n \in Left : InBody = {n} \/ n.line # pc
    BY <1>7, <1>8
<1>10. (\A n \in Left : n.line # pc) => InBody = {}
    BY <1>7
<1> QED BY <1>4, <1>5, <1>6, <1>9, <1>10

\* A step changes what the line sets.
LEMMA ExecutedRegisters ==
    ASSUME IInv, Pending, AInv, Addressed(program), Execute, NEW r \in Reg
    PROVE  /\ before'[r] = IF program[pc].dst = r THEN Result(program[pc], before) ELSE before[r]
           /\ \A n \in Left : n.line = pc => after'[r] = IF n.dst = r THEN Result(n, after) ELSE after[r]
           /\ ~ Present(pc) => after'[r] = after[r]
<1>1. /\ phase = "run" /\ pc \in DOMAIN program
      /\ before' = Executed(InProgram, before) /\ after' = Executed(InBody, after)
    BY DEF Execute
<1>2. InProgram = {program[pc]}
    BY <1>1 DEF InProgram
<1>3. /\ \A n \in Left : InBody = {n} \/ n.line # pc
      /\ (\A n \in Left : n.line # pc) => InBody = {}
    BY <1>1, RunFacts
<1>4. before'[r] = IF program[pc].dst = r THEN Result(program[pc], before) ELSE before[r]
    <2>1. \A n : Executed({n}, before)[r] = IF n.dst = r THEN Result(n, before) ELSE before[r]
        BY ONLY r \in Reg, ExecutedOne
    <2> QED BY ONLY <1>1, <1>2, <2>1
<1>5. ASSUME NEW n \in Left, n.line = pc PROVE after'[r] = IF n.dst = r THEN Result(n, after) ELSE after[r]
    <2>1. Executed({n}, after)[r] = IF n.dst = r THEN Result(n, after) ELSE after[r]
        BY ONLY r \in Reg, ExecutedOne
    <2>2. InBody = {n}
        BY <1>3, <1>5
    <2> QED BY ONLY <1>1, <2>1, <2>2
<1>6. ASSUME ~ Present(pc) PROVE after'[r] = after[r]
    <2>1. Executed({}, after)[r] = after[r]
        BY ONLY r \in Reg, ExecutedOne
    <2>2. InBody = {}
        BY <1>3, <1>6 DEF Present
    <2> QED BY ONLY <1>1, <2>1, <2>2
<1> QED BY <1>4, <1>5, <1>6

\* Where the step goes.
LEMMA ExecutedNext ==
    ASSUME IInv, Addressed(program), Execute
    PROVE  /\ pc' \in Successors(program, pc) /\ pc \in DOMAIN program /\ pc \in Nat
           /\ program[pc].op \notin {"branch", "jump"} => pc' = pc + 1
           /\ pc' = pc + 1 \/ pc' \notin DOMAIN program \/ program[pc'].op = "label"
           /\ UNCHANGED <<program, phase, body, i, out>> /\ phase = "run"
<1>1. program \in Seq(Node) /\ pc \in DOMAIN program
    BY DEF IInv, TypeOK, Execute
<1>2. pc' \in Successors(program, pc)
    BY DEF Execute, Successors
<1>3. WellFormed(program)
    BY AddressedFacts
<1> QED BY <1>1, <1>2, <1>3 DEF Execute, WellFormed

\* A register that the line does not set keeps its value, unless an ADRP is
\* rewritten with a line that sets it.
LEMMA Untouched ==
    ASSUME IInv, Pending, AInv, Addressed(program), Execute, NEW r \in Reg, program[pc].dst # r
    PROVE  /\ before'[r] = before[r]
           /\ after'[r] = after[r] \/ \E j : Taken(pc, j) /\ program[j].dst = r /\ IsAdrp(program[pc])
<1>1. before'[r] = before[r]
    BY ExecutedRegisters
<1>2. ASSUME after'[r] # after[r] PROVE \E j : Taken(pc, j) /\ program[j].dst = r /\ IsAdrp(program[pc])
    <2>1. PICK n \in Left : n.line = pc
        BY <1>2, ExecutedRegisters DEF Present
    <2>2. n.dst = r
        BY <1>2, <2>1, ExecutedRegisters
    <2>3. Fate(n) /\ program[n.line] \in Node
        BY RunFacts DEF Execute
    <2>4. \A dst, sym, off, line : Address(dst, sym, off, line).dst = dst
        BY DEF Address
    <2>5. ~ Own(n)
        <3>1. Numbered(program[n.line]).dst = program[n.line].dst
            BY <2>3 DEF Numbered, Node, Fields
        <3> QED BY <2>1, <2>2, <2>4, <3>1 DEF Own
    <2>6. PICK j : Completes(program, pc, j) /\ n = Joint(pc, j) /\ ~ Present(j)
        BY <2>1, <2>3, <2>5 DEF Fate
    <2> QED BY <2>2, <2>4, <2>6 DEF Taken, Joint, Completes
<1> QED BY <1>1, <1>2

\* Who completes an address, and from where.
LEMMA AmidFacts ==
    ASSUME IInv, Addressed(program), NEW k, NEW j, Taken(k, j), NEW x \in k + 1 .. j
    PROVE  /\ x \in DOMAIN program /\ x \in Nat /\ k \in Nat /\ j \in Nat /\ k \in DOMAIN program /\ j \in DOMAIN program
           /\ x # j => program[x].op = "lloh" /\ program[x].dst = NoReg
           /\ x = j => program[x].op \in {"add", "gotload"}
           /\ IsAdrp(program[k]) /\ program[j].sym = program[k].sym /\ program[j].sym # NoSym
<1>1. program \in Seq(Node) /\ Completes(program, k, j)
    BY DEF IInv, TypeOK, Taken
<1>2. /\ k \in DOMAIN program /\ j \in DOMAIN program /\ k < j /\ k \in Nat /\ j \in Nat /\ k > 0
      /\ \A l \in k + 1 .. j - 1 : program[l].op = "lloh"
    BY <1>1, OnePartner
<1>3. /\ program[j].op \in {"add", "gotload"} /\ IsAdrp(program[k]) /\ program[j].sym = program[k].sym
    BY <1>1 DEF Completes
<1>4. WellFormed(program)
    BY AddressedFacts
<1>5. x \in DOMAIN program /\ x \in Nat /\ (x # j => x \in k + 1 .. j - 1)
    BY <1>1, <1>2
<1>6. program[j].sym # NoSym
    BY <1>2, <1>3, <1>4 DEF WellFormed
<1>7. x # j => program[x].dst = NoReg
    BY <1>2, <1>4, <1>5 DEF WellFormed
<1> QED BY <1>2, <1>3, <1>5, <1>6, <1>7

\* Served stays so while the register is not set.
LEMMA ServedStill ==
    ASSUME IInv, Pending, AInv, Addressed(program), Execute, pc' \in DOMAIN program,
           NEW u \in DOMAIN program, program[u].base \in Reg, program[pc].dst # program[u].base, Served(u)
    PROVE  Served(u)'
<1> DEFINE r == program[u].base
<1>1. /\ pc' \in Successors(program, pc) /\ pc \in DOMAIN program /\ pc \in Nat
      /\ program[pc].op \notin {"branch", "jump"} => pc' = pc + 1
      /\ UNCHANGED <<program, phase, body, i, out>>
    BY ExecutedNext
<1>2. /\ before'[r] = before[r]
      /\ after'[r] = after[r] \/ \E j : Taken(pc, j) /\ program[j].dst = r /\ IsAdrp(program[pc])
    BY Untouched
<1>3. \A k, j : Taken(k, j)' <=> Taken(k, j)
    BY <1>1 DEF Taken, Present, Left
<1>4. CASE after'[r] = after[r] /\ Agree(program[u], before[r], after[r])
    BY <1>1, <1>2, <1>4 DEF Served, Agree, Located
<1>5. CASE Excused(u)
    <2>1. PICK k \in DOMAIN program, V \in SUBSET DOMAIN program :
            Carries(program, k, V) /\ program[k].dst = program[u].base /\ pc \in V /\ u \notin V
        BY <1>5 DEF Excused
    <2>2. Successors(program, pc) \cap DOMAIN program \subseteq V
        BY <2>1 DEF Carries
    <2>3. pc' \in V
        BY <1>1, <2>2
    <2>4. \E k2 \in DOMAIN program, V2 \in SUBSET DOMAIN program :
            Carries(program, k2, V2) /\ program[k2].dst = program[u].base /\ pc' \in V2 /\ u \notin V2
        BY <2>1, <2>3
    <2>5. Excused(u)'
        BY <1>1, <2>4 DEF Excused
    <2> QED BY <2>5 DEF Served
<1>6. CASE Amid(r)
    <2>1. PICK k, j : Taken(k, j) /\ pc \in k + 1 .. j /\ program[j].dst = r
        BY <1>6 DEF Amid
    <2>2. /\ k \in Nat /\ j \in Nat /\ pc # j /\ program[pc].op = "lloh"
        BY <2>1, AmidFacts
    <2>3. pc' \in k + 1 .. j
        BY <1>1, <2>1, <2>2
    <2>4. Amid(r)'
        BY <1>1, <1>3, <2>1, <2>3 DEF Amid
    <2> QED BY <1>1, <2>4 DEF Served
<1>7. CASE \E j : Taken(pc, j) /\ program[j].dst = r /\ IsAdrp(program[pc])
    <2>1. PICK j : Taken(pc, j) /\ program[j].dst = r /\ IsAdrp(program[pc])
        BY <1>7
    <2>2. pc' = pc + 1
        BY <1>1, <2>1 DEF IsAdrp
    <2>3. pc < j /\ j \in Nat
        BY <2>1, OnePartner DEF Taken, IInv, TypeOK
    <2>4. pc' \in pc + 1 .. j
        BY <1>1, <2>2, <2>3
    <2>5. Amid(r)'
        BY <1>1, <1>3, <2>1, <2>4 DEF Amid
    <2> QED BY <1>1, <2>5 DEF Served
<1> QED BY <1>2, <1>4, <1>5, <1>6, <1>7 DEF Served

LEMMA Moved ==
    ASSUME NEW v \in Value, NEW off \in 0 .. MaxOff
    PROVE  [v EXCEPT !.kind = "addr", !.off = off] = Located(v.sym, off)
<1> DEFINE w == [v EXCEPT !.kind = "addr", !.off = off]
<1>1. w \in Value /\ w.kind = "addr" /\ w.sym = v.sym /\ w.off = off
    BY DEF Value
<1> HIDE DEF w
<1>2. w = Located(v.sym, off)
    BY <1>1 DEF Value, Located
<1> QED BY <1>2 DEF w

\* An access that agrees gives the same address.
LEMMA Sums ==
    ASSUME NEW n \in Node, Access(n), NEW b \in [Reg -> Value], NEW a \in [Reg -> Value],
           Agree(n, b[n.base], a[n.base])
    PROVE  /\ Sum(n, b).kind = "addr" => Sum(Numbered(n), a) = Sum(n, b)
           /\ Sum(n, b).kind \in {"addr", "junk"}
<1>1. /\ n.base \in Reg /\ n.off \in 0 .. MaxOff /\ b[n.base] \in Value /\ a[n.base] \in Value
    BY DEF Access, Node, Fields
<1>2. Numbered(n).base = n.base /\ Numbered(n).off = n.off /\ Numbered(n).sym = NoSym
    BY DEF Numbered, Node, Fields
<1>3. \A v \in Value : \A off \in Nat :
         Plus(v, off) = IF v.off + off <= MaxOff THEN Located(v.sym, v.off + off) ELSE Junk
    <2> TAKE v \in Value
    <2> TAKE off \in Nat
    <2>1. CASE v.off + off <= MaxOff
        <3>1. v.off + off \in 0 .. MaxOff
            BY <2>1, MaxOffAssumption DEF Value
        <3> QED BY <2>1, <3>1, Moved DEF Plus
    <2>2. CASE ~ (v.off + off <= MaxOff)
        BY <2>2 DEF Plus
    <2> QED BY <2>1, <2>2
<1>4. \A sym, off : Located(sym, off).kind = "addr" /\ Located(sym, off).sym = sym /\ Located(sym, off).off = off
    BY DEF Located
<1>5. Junk.kind = "junk"
    BY DEF Junk
<1>6. n.off \in Nat /\ 0 + n.off = n.off /\ n.off <= MaxOff
    BY <1>1, MaxOffAssumption
<1>7. CASE n.sym # NoSym
    <2>1. CASE b[n.base].kind = "page" /\ b[n.base].sym = n.sym
        <3>1. Sum(n, b) = Located(n.sym, n.off)
            BY <1>7, <2>1 DEF Sum, Located
        <3>2. a[n.base] = Located(n.sym, 0)
            BY <1>7, <2>1 DEF Agree
        <3>3. Sum(Numbered(n), a) = Plus(a[n.base], n.off)
            BY <1>2, <1>4, <3>2 DEF Sum
        <3>4. Plus(a[n.base], n.off) = Located(n.sym, n.off)
            BY <1>1, <1>3, <1>4, <1>6, <3>2
        <3> QED BY <1>4, <3>1, <3>3, <3>4
    <2>2. CASE ~ (b[n.base].kind = "page" /\ b[n.base].sym = n.sym)
        <3>1. Sum(n, b) = Junk
            BY <1>7, <2>2 DEF Sum
        <3> QED BY <1>5, <3>1
    <2> QED BY <2>1, <2>2
<1>8. CASE n.sym = NoSym
    <2>1. CASE b[n.base].kind \in {"page", "addr"}
        <3>1. Sum(n, b) = Plus(b[n.base], n.off)
            BY <1>8, <2>1 DEF Sum
        <3>2. a[n.base] = Located(b[n.base].sym, b[n.base].off)
            BY <1>8, <2>1 DEF Agree
        <3>3. Sum(Numbered(n), a) = Plus(a[n.base], n.off)
            BY <1>2, <1>4, <3>2 DEF Sum
        <3>4. Plus(a[n.base], n.off) = Plus(b[n.base], n.off)
            BY <1>1, <1>3, <1>4, <1>6, <3>2
        <3>5. Plus(b[n.base], n.off).kind \in {"addr", "junk"}
            BY <1>1, <1>3, <1>4, <1>5, <1>6
        <3> QED BY <3>1, <3>3, <3>4, <3>5
    <2>2. CASE b[n.base].kind \notin {"page", "addr"}
        <3>1. Sum(n, b) = Junk
            BY <1>8, <2>2 DEF Sum
        <3> QED BY <1>5, <3>1
    <2> QED BY <2>1, <2>2
<1> QED BY <1>7, <1>8

\* Of a register that holds no page the rewritten code need only have the same.
LEMMA AgreeSame ==
    ASSUME NEW n, NEW b \in Value, NEW a, b.kind # "page", b.kind = "addr" => a = b
    PROVE  Agree(n, b, a)
<1>1. b.kind = "addr" => b = Located(b.sym, b.off)
    BY DEF Value, Located
<1> QED BY <1>1 DEF Agree

\* At a line that is there an access is served by agreement.
LEMMA ServedHere ==
    ASSUME IInv, Addressed(program), NEW u \in DOMAIN program, pc = u, Access(program[u]), Present(u), Served(u)
    PROVE  Agree(program[u], before[program[u].base], after[program[u].base])
<1>1. ~ Excused(u)
    BY DEF Excused
<1>2. ~ Amid(program[u].base)
    <2> SUFFICES ASSUME NEW k, NEW j, Taken(k, j), pc \in k + 1 .. j PROVE FALSE
        BY DEF Amid
    <2>1. pc = j
        BY AmidFacts DEF Access
    <2> QED BY <2>1 DEF Taken
<1> QED BY <1>1, <1>2 DEF Served

\* A line that has gone into its ADRP.
LEMMA TakenHere ==
    ASSUME IInv, Pending, AInv, RInv, Addressed(program), phase = "run", NEW j \in DOMAIN program, pc = j,
           Lasting(j), ~ Present(j), program[j].dst \in Reg
    PROVE  after[program[j].dst] = Located(program[j].sym, program[j].off) /\ program[j].sym # NoSym
<1>1. Accounted(j)
    BY RunFacts
<1>2. PICK m : Completes(program, m, j)
    BY <1>1 DEF Accounted
<1>3. Taken(m, j)
    BY <1>2 DEF Taken
<1>4. m < j /\ m \in Nat /\ j \in Nat
    BY <1>2, OnePartner DEF IInv, TypeOK
<1>5. j \in m + 1 .. j
    BY <1>4
<1>6. after[program[j].dst] = Located(program[j].sym, program[j].off)
    BY <1>3, <1>5 DEF RInv
<1> QED BY <1>3, <1>5, <1>6, AmidFacts

\* An addition or a load of an address leaves the same in both.
LEMMA SameSet ==
    ASSUME IInv, Pending, AInv, RInv, Addressed(program), Execute, pc \in DOMAIN program,
           program[pc].dst \in Reg, program[pc].op \in {"add", "gotload", "load", "gotadrp"}
    PROVE  LET b == before'[program[pc].dst]
           IN  b \in Value /\ b.kind # "page" /\ (b.kind = "addr" => after'[program[pc].dst] = b)
<1> DEFINE p == program[pc]
           r == p.dst
           b == before'[r]
<1>1. /\ phase = "run" /\ p \in Node /\ p.line = pc /\ p.off \in 0 .. MaxOff /\ p.sym \in Sym \cup {NoSym}
      /\ before \in [Reg -> Value] /\ after \in [Reg -> Value]
    BY RunFacts, FieldTypes DEF Execute, IInv, TypeOK
<1>2. b = Result(p, before)
    BY ExecutedRegisters
<1>3. b \in Value
    BY <1>1, <1>2, ResultType
<1>4. /\ \A n \in Left : n.line = pc => after'[r] = IF n.dst = r THEN Result(n, after) ELSE after[r]
      /\ ~ Present(pc) => after'[r] = after[r]
    BY ExecutedRegisters
<1>5. Junk.kind = "junk" /\ \A sym, off : Located(sym, off).kind = "addr" /\ Located(sym, off).sym = sym
    BY DEF Junk, Located
<1>6. \A dst, sym, off, line :
         /\ Address(dst, sym, off, line).op = "address" /\ Address(dst, sym, off, line).dst = dst
         /\ Result(Address(dst, sym, off, line), after) = Located(sym, off)
    BY DEF Address, Result, Located
<1>7. CASE p.op = "load"
    <2>1. b = Junk
        BY <1>2, <1>7 DEF Result
    <2> QED BY <1>3, <1>5, <2>1
<1>8. CASE p.op = "gotadrp"
    <2>1. b = [kind |-> "gotpage", sym |-> p.sym, off |-> 0]
        BY <1>2, <1>8 DEF Result
    <2> QED BY <1>3, <2>1
<1>9. CASE p.op = "gotload"
    <2>1. b = Located(p.sym, 0) \/ b = Junk
        BY <1>2, <1>9 DEF Result, Located
    <2>2. p.off = 0
        BY <1>9, AddressedFacts DEF GOTApart
    <2>3. after'[r] = Located(p.sym, 0)
        <3>1. CASE Present(pc)
            <4>1. PICK n \in Left : n.line = pc
                BY <3>1 DEF Present
            <4>2. Fate(n) /\ n.op = "address"
                BY <1>1, <1>9, <4>1, RunFacts
            <4>3. Numbered(p).op = p.op
                BY <1>1, NumberedNode
            <4>4. ~ IsAdrp(p)
                BY <1>9 DEF IsAdrp
            <4>5. n = Address(p.dst, p.sym, 0, p.line)
                BY <1>9, <4>1, <4>2, <4>3, <4>4 DEF Fate, Own, Completes
            <4> QED BY <1>4, <1>6, <4>1, <4>5
        <3>2. CASE ~ Present(pc)
            BY <1>1, <1>4, <1>9, <2>2, <3>2, TakenHere DEF Lasting
        <3> QED BY <3>1, <3>2
    <2> QED BY <1>3, <1>5, <2>1, <2>3
<1>10. CASE p.op = "add"
    <2>1. b = Sum(p, before) /\ Access(p)
        BY <1>2, <1>10 DEF Result, Access
    <2>2. CASE Present(pc)
        <3>1. PICK n \in Left : n.line = pc
            BY <2>2 DEF Present
        <3>2. n.op = "address" => ~ Present(pc)
            <4> SUFFICES ASSUME n.op = "address" PROVE FALSE
                BY <2>2
            <4>1. WellFormed(program)
                BY AddressedFacts
            <4>2. program[n.line].op = "gotload" \/ IsAdrp(program[n.line])
                BY <1>1, <3>1, <4>1, RunFacts, FateFacts
            <4> QED BY <1>10, <3>1, <4>2 DEF IsAdrp
        <3>3. n = Numbered(p) /\ n.op = "add" /\ n.dst = r
            BY <1>1, <1>10, <2>2, <3>1, <3>2, RunFacts DEF Access
        <3>4. after'[r] = Sum(Numbered(p), after)
            BY <1>4, <3>1, <3>3 DEF Result
        <3>5. Served(pc)
            BY <1>1, <2>1, <2>2 DEF RInv
        <3>6. Agree(p, before[p.base], after[p.base])
            BY <2>1, <2>2, <3>5, ServedHere
        <3>7. (b.kind = "addr" => after'[r] = b) /\ b.kind \in {"addr", "junk"}
            BY <1>1, <2>1, <3>4, <3>6, Sums
        <3> QED BY <1>3, <3>7
    <2>3. CASE ~ Present(pc)
        <3>1. after'[r] = Located(p.sym, p.off) /\ p.sym # NoSym
            BY <1>1, <1>4, <1>10, <2>3, TakenHere DEF Lasting
        <3>2. b = Located(p.sym, p.off) \/ b = Junk
            BY <2>1, <3>1 DEF Sum, Located
        <3> QED BY <1>3, <1>5, <3>1, <3>2
    <2> QED BY <2>2, <2>3
<1> QED BY <1>7, <1>8, <1>9, <1>10

\* A page that is set is served by its address, or does not get to the use.
LEMMA PageSet ==
    ASSUME IInv, Pending, AInv, RInv, Addressed(program), Execute, pc' \in DOMAIN program,
           NEW u \in DOMAIN program, Access(program[u]), Present(u), program[u].base \in Reg,
           program[pc].dst = program[u].base, program[pc].op = "adrp"
    PROVE  Served(u)'
<1> DEFINE p == program[pc]
           r == p.dst
<1>1. /\ phase = "run" /\ pc \in DOMAIN program /\ pc \in Nat /\ pc' = pc + 1 /\ r \in Reg
      /\ UNCHANGED <<program, phase, body, i, out>>
    BY ExecutedNext
<1>2. p \in Node /\ p.line = pc /\ IsAdrp(p)
    BY <1>1, RunFacts DEF IsAdrp
<1>3. before'[r] = [kind |-> "page", sym |-> p.sym, off |-> p.off]
    <2>1. before'[r] = Result(p, before)
        BY <1>1, ExecutedRegisters
    <2> QED BY <2>1 DEF Result
<1>4. \A k, j : Taken(k, j)' <=> Taken(k, j)
    BY <1>1 DEF Taken, Present, Left
<1>5. ~ Finds(program, u, pc) => Excused(u)'
    <2> SUFFICES ASSUME ~ Finds(program, u, pc) PROVE Excused(u)'
        OBVIOUS
    <2>1. PICK V \in SUBSET DOMAIN program : Carries(program, pc, V) /\ u \notin V
        BY DEF Finds
    <2>2. pc' \in V
        BY <1>1, <2>1 DEF Carries
    <2>3. \E k \in DOMAIN program, W \in SUBSET DOMAIN program :
            Carries(program, k, W) /\ program[k].dst = program[u].base /\ pc' \in W /\ u \notin W
        BY <1>1, <2>1, <2>2
    <2> QED BY <1>1, <2>3 DEF Excused
<1>6. PICK n \in Left : n.line = pc
    <2>1. Accounted(pc)
        BY <1>1, RunFacts DEF Lasting
    <2>2. ~ \E m : Completes(program, m, pc)
        BY DEF Completes
    <2> QED BY <2>1, <2>2 DEF Accounted, Present
<1>7. Fate(n) /\ n.op = "address"
    BY <1>1, <1>2, <1>6, RunFacts DEF IsAdrp
<1>8. CASE Own(n)
    <2>1. PICK o : Right(pc, o) /\ n = Address(p.dst, p.sym, o, p.line)
        <3>1. n # p
            BY <1>7
        <3> QED BY <1>6, <1>8, <3>1 DEF Own
    <2>2. after'[r] = Located(p.sym, o)
        <3>1. n.dst = r /\ Result(n, after) = Located(p.sym, o)
            BY <2>1 DEF Address, Result, Located
        <3> QED BY <1>1, <1>6, <3>1, ExecutedRegisters
    <2>3. CASE Finds(program, u, pc)
        <3>1. /\ program[u].sym = NoSym => o = p.off
              /\ program[u].sym = p.sym => o = 0
            BY <2>1, <2>3 DEF Right
        <3>2. Agree(program[u], before'[r], after'[r])
            BY <1>3, <2>2, <3>1 DEF Agree
        <3>3. Agree(program[u], before[program[u].base], after[program[u].base])'
            BY <1>1, <3>2 DEF Agree, Located
        <3> QED BY <3>3 DEF Served
    <2> QED BY <1>5, <2>3 DEF Served
<1>9. CASE ~ Own(n)
    <2>1. PICK j : Completes(program, pc, j) /\ ~ Present(j)
        BY <1>6, <1>7, <1>9 DEF Fate
    <2>2. Taken(pc, j) /\ j \in Nat /\ pc < j
        BY <1>1, <2>1, OnePartner DEF Taken, IInv, TypeOK
    <2>3. pc' \in pc + 1 .. j
        BY <1>1, <2>2
    <2>4. CASE program[j].dst = r
        <3>1. \E k, x : Taken(k, x)' /\ pc' \in k + 1 .. x /\ program[x].dst = program[u].base
            BY <1>4, <2>2, <2>3, <2>4
        <3>2. Amid(program[u].base)'
            BY <1>1, <3>1 DEF Amid
        <3> QED BY <3>2 DEF Served
    <2>5. CASE program[j].dst # r
        <3>1. j \in DOMAIN program /\ Behind(program, pc, j) /\ program[j].op \in {"add", "gotload"} /\ program[j].base = r
            BY <2>1 DEF Completes, Behind
        <3>2. program[j].op = "add"
            BY <1>1, <3>1, AddressedFacts DEF GOTApart
        <3>3. u # j
            BY <2>1
        <3>4. ~ Finds(program, u, pc)
            BY <1>1, <2>1, <2>5, <3>1, <3>2, <3>3, AddressedFacts DEF PagesUnshared
        <3> QED BY <1>5, <3>4 DEF Served
    <2> QED BY <2>4, <2>5
<1> QED BY <1>8, <1>9

\* The address of a line that has gone into its ADRP is there until the line.
LEMMA TakenStill ==
    ASSUME IInv, Pending, AInv, RInv, Addressed(program), Execute,
           NEW k, NEW j, Taken(k, j), pc' \in k + 1 .. j, program[j].dst \in Reg
    PROVE  after'[program[j].dst] = Located(program[j].sym, program[j].off)
<1> DEFINE r == program[j].dst
<1>1. /\ pc \in DOMAIN program /\ pc \in Nat /\ phase = "run"
      /\ pc' = pc + 1 \/ pc' \notin DOMAIN program \/ program[pc'].op = "label"
    BY ExecutedNext
<1>2. /\ pc' \in DOMAIN program /\ program[pc'].op \in {"lloh", "add", "gotload"} /\ k \in Nat /\ j \in Nat
      /\ j \in DOMAIN program
    BY AmidFacts
<1>3. pc' = pc + 1 /\ pc \in k .. j - 1
    BY <1>1, <1>2
<1>4. CASE pc = k
    <2>1. program[j].op \in {"add", "gotload"} /\ Accounted(j) /\ Completes(program, k, j) /\ ~ Present(j)
        BY <1>1, <1>2, RunFacts DEF Lasting, Taken, Completes
    <2>2. PICK m : Completes(program, m, j) /\ Joint(m, j) \in Left
        BY <2>1 DEF Accounted
    <2>3. m = k
        BY <2>1, <2>2, OnePartner DEF IInv, TypeOK
    <2>4. Joint(k, j).line = pc /\ Joint(k, j).dst = r
          /\ Result(Joint(k, j), after) = Located(program[j].sym, program[j].off)
        BY <1>4 DEF Joint, Address, Result, Located
    <2> QED BY <2>2, <2>3, <2>4, ExecutedRegisters
<1>5. CASE pc # k
    <2>1. pc \in k + 1 .. j /\ pc # j
        BY <1>1, <1>2, <1>3, <1>5
    <2>2. program[pc].op = "lloh" /\ program[pc].dst = NoReg
        BY <2>1, AmidFacts
    <2>3. after'[r] = after[r]
        BY <2>2, NamesAssumption, Untouched DEF IsAdrp
    <2> QED BY <1>1, <2>1, <2>3 DEF RInv
<1> QED BY <1>4, <1>5

LEMMA ExecuteRuns ==
    ASSUME IInv, Pending, AInv, RInv, Addressed(program), Execute
    PROVE  RInv'
<1>1. /\ phase = "run" /\ phase' = "run" /\ program' = program /\ UNCHANGED <<body, i, out>>
      /\ pc \in DOMAIN program
    BY ExecutedNext
<1>2. (\A k, j : Taken(k, j)' <=> Taken(k, j)) /\ (\A u : Present(u)' <=> Present(u))
    BY <1>1 DEF Taken, Present, Left
<1>3. \A k, j : Taken(k, j) /\ pc' \in k + 1 .. j /\ program[j].dst \in Reg =>
          after'[program[j].dst] = Located(program[j].sym, program[j].off)
    BY TakenStill
<1>4. ASSUME pc' \in DOMAIN program, NEW u \in DOMAIN program, Access(program[u]), Present(u)
      PROVE  Served(u)'
    <2>1. program[u] \in Node /\ program[u].base \in Reg
        BY <1>1, <1>4, RunFacts DEF Access, Node
    <2>2. CASE program[pc].dst # program[u].base
        <3>1. Served(u)
            BY <1>1, <1>4 DEF RInv
        <3> QED BY <1>4, <2>1, <2>2, <3>1, ServedStill
    <2>3. CASE program[pc].dst = program[u].base /\ program[pc].op = "adrp"
        BY <1>4, <2>1, <2>3, PageSet
    <2>4. CASE program[pc].dst = program[u].base /\ program[pc].op # "adrp"
        <3>1. program[pc] \in Node /\ program[pc].dst \in Reg
            BY <1>1, <2>1, <2>4, RunFacts
        <3>2. program[pc].op \in {"add", "gotload", "load", "gotadrp"}
            <4>1. WellFormed(program)
                BY AddressedFacts
            <4>2. program[pc].op \in Op /\ program[pc].dst # NoReg
                BY <3>1, NamesAssumption DEF Node, Fields
            <4> QED BY <1>1, <2>4, <4>1, <4>2 DEF WellFormed, Op
        <3>3. LET b == before'[program[pc].dst]
              IN  b \in Value /\ b.kind # "page" /\ (b.kind = "addr" => after'[program[pc].dst] = b)
            BY <1>1, <3>1, <3>2, SameSet
        <3> DEFINE b == before'[program[u].base]
        <3>4. b \in Value /\ b.kind # "page" /\ (b.kind = "addr" => after'[program[u].base] = b)
            BY <2>4, <3>3
        <3> HIDE DEF b
        <3>5. Agree(program[u], b, after'[program[u].base])
            BY <3>4, AgreeSame
        <3>6. Agree(program[u], before[program[u].base], after[program[u].base])'
            BY <1>1, <3>5 DEF Agree, Located, b
        <3> QED BY <3>6 DEF Served
    <2> QED BY <2>2, <2>3, <2>4
<1>5. /\ pc' \in DOMAIN program => \A u \in DOMAIN program : Access(program[u]) /\ Present(u)' => Served(u)'
      /\ \A k, j : Taken(k, j)' /\ pc' \in k + 1 .. j /\ program[j].dst \in Reg =>
            after'[program[j].dst] = Located(program[j].sym, program[j].off)
    BY <1>2, <1>3, <1>4
<1> QED BY <1>1, <1>5 DEF RInv, Access, Located, Compacting

\* The code starts with nothing in its registers.
LEMMA CheckRuns ==
    ASSUME IInv, RInv, Addressed(program), Check, phase' = "run"
    PROVE  RInv'
<1>1. /\ phase = "offsets" /\ program' = program /\ pc' = pc /\ before' = before /\ after' = after
    BY DEF Check, execution
<1>2. pc = 1 /\ before = [r \in Reg |-> Junk] /\ after = [r \in Reg |-> Junk] /\ program \in Seq(Node)
    BY <1>1 DEF RInv, IInv, TypeOK
<1>3. \A u \in DOMAIN program : Access(program[u]) => Served(u)'
    <2> SUFFICES ASSUME NEW u \in DOMAIN program, Access(program[u]) PROVE Served(u)'
        OBVIOUS
    <2>1. program[u].base \in Reg
        BY <1>2 DEF Access, Node
    <2>2. before'[program[u].base] = Junk
        BY <1>1, <1>2, <2>1
    <2>3. Agree(program[u], Junk, after'[program[u].base])
        BY DEF Agree, Junk
    <2>4. Agree(program[u], before[program[u].base], after[program[u].base])'
        BY <1>1, <2>2, <2>3 DEF Agree, Located
    <2> QED BY <2>4 DEF Served
<1>4. ASSUME NEW k, NEW j, Taken(k, j)' PROVE ~ (pc' \in k + 1 .. j)
    <2>1. Completes(program, k, j)
        BY <1>1, <1>4 DEF Taken
    <2>2. k \in Nat /\ k > 0 /\ j \in Nat
        BY <1>2, <2>1, OnePartner
    <2> QED BY <1>1, <1>2, <2>2
<1> QED BY <1>1, <1>3, <1>4 DEF RInv, Access, Compacting

LEMMA NextRuns ==
    ASSUME IInv, Pending, AInv, RInv, [Next]_vars PROVE RInv'
<1>1. program' = program
    BY DEF Next, RewritePair, KeepInPairs, RewriteGOTLoad, RewritePageLoad, KeepInLoads, RejectBase,
           RewriteGOTBase, RewritePageBase, KeepInBases, EndPass, RewriteOffset, RewriteGOTOffset,
           KeepInOffsets, Check, Execute, End, Finished, Keep, Fail, vars
<1>2. CASE ~ Addressed(program)
    <2>1. ~ Addressed(program)'
        BY <1>1, <1>2
    <2> QED BY <2>1 DEF RInv
<1>3. CASE phase' \in {"end", "failed"}
    BY <1>3 DEF RInv, Compacting
<1>4. CASE Addressed(program) /\ Execute
    BY <1>4, ExecuteRuns
<1>5. CASE Addressed(program) /\ Check /\ phase' = "run"
    BY <1>5, CheckRuns
<1>6. CASE UNCHANGED vars \/ Finished
    <2>1. UNCHANGED <<program, phase, body, i, out, pc, before, after>>
        BY <1>6 DEF Finished, vars
    <2>2. (\A k, j : Taken(k, j)' <=> Taken(k, j)) /\ (\A u : Present(u)' <=> Present(u))
        BY <2>1 DEF Taken, Present, Left
    <2>3. \A u : Served(u)' <=> Served(u)
        BY <2>1, <2>2 DEF Served, Excused, Amid, Agree, Located
    <2> QED BY <2>1, <2>2, <2>3 DEF RInv, Access, Located
<1>7. CASE /\ phase \in Compacting \cup {"offsets"} /\ phase' \in Compacting \cup {"offsets"}
           /\ UNCHANGED execution
    <2>1. phase' # "run" /\ UNCHANGED <<pc, before, after>>
        BY <1>7 DEF Compacting, execution
    <2> QED BY <1>1, <1>7, <2>1 DEF RInv
<1>8. ASSUME Next, ~ Execute, phase' \notin {"end", "failed"}, ~ (Check /\ phase' = "run"), ~ Finished
      PROVE  /\ phase \in Compacting \cup {"offsets"} /\ phase' \in Compacting \cup {"offsets"}
             /\ UNCHANGED execution
    BY <1>8 DEF Next, RewritePair, KeepInPairs, RewriteGOTLoad, RewritePageLoad, KeepInLoads, RejectBase,
           RewriteGOTBase, RewritePageBase, KeepInBases, EndPass, RewriteOffset, RewriteGOTOffset,
           KeepInOffsets, Check, Execute, End, Keep, Fail, At, Compacting
<1> QED BY <1>2, <1>3, <1>4, <1>5, <1>6, <1>7, <1>8

\* What an access adds up to where it is executed.
LEMMA AddressesSame ==
    ASSUME IInv, Pending, AInv, RInv, Addressed(program) PROVE SameAddress
<1> SUFFICES ASSUME phase = "run", NEW v \in Accessed(InProgram, before), v.kind = "addr"
             PROVE  Accessed(InBody, after) = {v}
    BY DEF SameAddress
<1>1. PICK n \in InProgram : n.op = "load" /\ v = Sum(n, before)
    BY DEF Accessed
<1>2. pc \in DOMAIN program /\ n = program[pc]
    BY DEF InProgram
<1>3. n \in Node /\ Access(n) /\ before \in [Reg -> Value] /\ after \in [Reg -> Value]
    BY <1>1, <1>2, RunFacts DEF Access, IInv, TypeOK
<1>4. Present(pc)
    <2>1. Accounted(pc)
        BY <1>1, <1>2, RunFacts DEF Lasting
    <2>2. ~ \E m : Completes(program, m, pc)
        BY <1>1, <1>2 DEF Completes
    <2> QED BY <2>1, <2>2 DEF Accounted
<1>5. Agree(n, before[n.base], after[n.base])
    <2>1. Served(pc)
        BY <1>2, <1>3, <1>4 DEF RInv
    <2> QED BY <1>2, <1>3, <1>4, <2>1, ServedHere
<1>6. Sum(Numbered(n), after) = v
    BY <1>1, <1>3, <1>5, Sums
<1>7. PICK m \in Left : m.line = pc
    BY <1>4 DEF Present
<1>8. m.op # "address"
    <2> SUFFICES ASSUME m.op = "address" PROVE FALSE
        OBVIOUS
    <2>1. WellFormed(program) /\ Fate(m) /\ phase # "failed"
        BY AddressedFacts, RunFacts
    <2>2. program[m.line].op = "gotload" \/ IsAdrp(program[m.line])
        BY <2>1, FateFacts
    <2> QED BY <1>1, <1>2, <1>7, <2>2 DEF IsAdrp
<1>9. m.op = "load" /\ m = Numbered(n)
    BY <1>1, <1>2, <1>7, <1>8, RunFacts DEF Access
<1>10. InBody = {m}
    BY <1>7, RunFacts
<1> QED BY <1>6, <1>9, <1>10 DEF Accessed

LEMMA InitRuns == Init => RInv
BY DEF Init, RInv

\* Of a function as compilers write it, every access that reached a known address
\* reaches it after the passes.
THEOREM AddressesAreKept == Spec => [](Addressed(program) => SameAddress)
<1>1. IInv /\ Pending /\ [Next]_vars => Pending'
    BY NextPending
<1>2. IInv /\ Pending /\ AInv /\ [Next]_vars => AInv'
    BY NextAddresses
<1>3. IInv /\ Pending /\ AInv /\ RInv /\ [Next]_vars => RInv'
    BY NextRuns
<1>4. IInv /\ Pending /\ AInv /\ RInv => (Addressed(program) => SameAddress)
    BY AddressesSame
<1> QED BY <1>1, <1>2, <1>3, <1>4, InitPending, InitAddresses, InitRuns, Invariance, PTL DEF Spec

=============================================================================
