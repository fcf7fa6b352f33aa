------------------------------- MODULE ConvertProofs -------------------------------
(***************************************************************************)
(* What runs of a command leave in its destination, for every command,     *)
(* every earlier content and any number of runs, however they end.         *)
(***************************************************************************)
EXTENDS Convert, NumberLemmas, SequenceTheorems, TLAPS

Options == {"strip", "compact", "format"}

(***************************************************************************)
(* The inductive invariant.  Done(c, lines, n) says that lines are what    *)
(* the passes up to the nth make of the output for c.  What is to be       *)
(* written has the work of the pass that writes it, and a pass that     *)
(* reads the file finds, whole, what this run has written, although an     *)
(* earlier run may have left it torn.  While code is compacted the lines   *)
(* made so far and the bytes held back stand for the lines read so far.    *)
(***************************************************************************)
Output(c) == Header \o c.lines

\* The output line for line, but for comments of instructions taken by -s.
Trimmed(c, lines) ==
    /\ Len(lines) = Len(Output(c))
    /\ \A k \in 1 .. Len(lines) :
         \/ lines[k] = Output(c)[k]
         \/ /\ "strip" \in c.options /\ Instruction(Output(c)[k])
            /\ lines[k] = Uncommented(Output(c)[k])

\* Code without comments.
Bare(lines) == \A k \in 1 .. Len(lines) : OpcodeLine(lines[k]) => lines[k].comment = "none"

Originals(c, lines) == \A k \in 1 .. Len(lines) : AsWritten(c.target, lines[k])

Done(c, lines, n) ==
    /\ Stream(c.target, lines) = Stream(c.target, Output(c))
    /\ n = 0 => lines = Output(c)
    /\ "compact" \in c.options /\ n >= 2 => Dense(lines) /\ Bare(lines)
    /\ ~ ("compact" \in c.options /\ n >= 2) => Originals(c, lines) /\ Trimmed(c, lines)

\* One symbol of machine code, and the symbols of a sequence of bytes.
Targets == {"amd64", "arm64"}
Byte == 0 .. 255
Symbol == Byte \X (STRING \cup {""})
Sym(x) == <<x, "">>
Sent(s) == [b \in 1 .. Len(s) |-> Sym(s[b])]

\* The lines done and the bytes held back stand for the lines read.
Stands(target, done, held, read) ==
    /\ Stream(target, done) \o Sent(held) = Stream(target, read)
    /\ Dense(done) /\ Bare(done)
    /\ done # <<>> => ~ OpcodeLine(done[Len(done)])
    /\ held # <<>> => target = "amd64"

Types ==
    /\ command \in Commands
    /\ old \in Seq(OutputLine) /\ file \in Seq(OutputLine) /\ content \in Seq(OutputLine)
    /\ whole \in BOOLEAN
    /\ tries \in 1 .. MaxTries
    /\ pass \in {"run", "end"} \cup command.options
    /\ pc \in {"work", "open", "write", "ok", "failed", "crashed"}
    /\ pending \in Seq(Byte)

Phase ==
    /\ pc \in {"open", "write"} => pass # "end"
    /\ pc = "write" => ~ whole
    /\ ~ whole => pc \in {"write", "failed", "crashed"} \/ tries > 1
    /\ pc = "work" /\ pass # "compact" => content = <<>> /\ line = 1 /\ pending = <<>>
    /\ pending # <<>> => pass = "compact" /\ pc # "ok"

Refused ==
    ~ command.accepted => file = old /\ pass = "run" /\ pc \in {"work", "failed", "crashed"}

Kept ==
    /\ whole => file = old \/ (command.accepted /\ Faithful(file))
    /\ pc \in {"open", "write"} => Done(command, content, Order[pass])
    /\ pc = "work" /\ pass # "run" => whole /\ Done(command, file, Order[pass] - 1)
    /\ pc = "ok" => whole /\ Done(command, file, 3)

Compacting ==
    pc = "work" /\ pass = "compact" =>
        /\ line \in 1 .. Len(file) + 1
        /\ Stands(command.target, content, pending, SubSeq(file, 1, line - 1))

IInv == Types /\ Phase /\ Refused /\ Kept /\ Compacting

-----------------------------------------------------------------------------
(***************************************************************************)
(* Sequences of sequences.  FlattenSeq and Offsets are recursive: that     *)
(* there is such a function is itself shown by induction.                  *)
(***************************************************************************)
Joins(g, ss, n) == g = [i \in 1 .. n |-> IF i = 1 THEN ss[i] ELSE g[i - 1] \o ss[i]]

LEMMA JoinsExists ==
    ASSUME NEW ss, NEW m \in Nat
    PROVE  \E g : Joins(g, ss, m)
<1> DEFINE T == {n \in Nat : \E g : Joins(g, ss, n)}
<1>1. 0 \in T
  <2> DEFINE e == [i \in 1 .. 0 |-> ss[i]]
  <2>1. Joins(e, ss, 0)
    BY DEF Joins
  <2> QED
    BY <2>1
<1>2. ASSUME NEW n \in Nat, n \in T PROVE n + 1 \in T
  <2>1. PICK g : Joins(g, ss, n)
    BY <1>2
  <2> DEFINE h == [i \in 1 .. n + 1 |-> IF i <= n THEN g[i]
                                       ELSE IF n = 0 THEN ss[1] ELSE g[n] \o ss[n + 1]]
             k == [i \in 1 .. n + 1 |-> IF i = 1 THEN ss[i] ELSE h[i - 1] \o ss[i]]
  <2>2. \A i \in 1 .. n : g[i] = IF i = 1 THEN ss[i] ELSE g[i - 1] \o ss[i]
    BY <2>1 DEF Joins
  <2>3. ASSUME NEW i \in 1 .. n + 1 PROVE h[i] = k[i]
    <3>1. CASE i <= n
      <4>1. i \in 1 .. n /\ h[i] = g[i] /\ (i # 1 => i - 1 \in 1 .. n /\ h[i - 1] = g[i - 1])
        BY <3>1
      <4> QED
        BY <2>2, <4>1
    <3>2. CASE i = n + 1
      BY <3>2
    <3> QED
      BY <3>1, <3>2
  <2>4. h = k
    BY <2>3
  <2>5. Joins(h, ss, n + 1)
    BY <2>4 DEF Joins
  <2> QED
    BY <2>5
<1> HIDE DEF T
<1>3. Nat \subseteq T
  BY <1>1, <1>2, Induction
<1> QED
  BY <1>3 DEF T

\* How the pieces are put together.
Joined(ss) == CHOOSE g : Joins(g, ss, Len(ss))

LEMMA JoinedFacts ==
    ASSUME NEW S, NEW ss \in Seq(Seq(S))
    PROVE  /\ FlattenSeq(ss) = IF Len(ss) = 0 THEN <<>> ELSE Joined(ss)[Len(ss)]
           /\ \A i \in 1 .. Len(ss) : Joined(ss)[i] = IF i = 1 THEN ss[i] ELSE Joined(ss)[i - 1] \o ss[i]
<1>1. Len(ss) \in Nat
  BY LenProperties
<1>2. Joins(Joined(ss), ss, Len(ss))
  BY <1>1, JoinsExists DEF Joined
<1>3. \A i \in 1 .. Len(ss) : Joined(ss)[i] = IF i = 1 THEN ss[i] ELSE Joined(ss)[i - 1] \o ss[i]
  BY <1>2 DEF Joins
<1>4. Len(ss) = 0 => ss = <<>>
  BY EmptySeq
<1>5. FlattenSeq(ss) = IF Len(ss) = 0 THEN ss ELSE Joined(ss)[Len(ss)]
  BY DEF FlattenSeq, Joined, Joins
<1> QED
  BY <1>3, <1>4, <1>5

\* The first pieces of a sequence are put together alike in both.
LEMMA JoinedPrefix ==
    ASSUME NEW S, NEW ss \in Seq(Seq(S)), NEW tt \in Seq(Seq(S)), NEW m \in Nat,
           m <= Len(ss), m <= Len(tt), \A i \in 1 .. m : ss[i] = tt[i]
    PROVE  \A i \in 1 .. m : Joined(ss)[i] = Joined(tt)[i] /\ Joined(ss)[i] \in Seq(S)
<1> DEFINE T == {n \in Nat : n \in 1 .. m => Joined(ss)[n] = Joined(tt)[n] /\ Joined(ss)[n] \in Seq(S)}
<1>1. Len(ss) \in Nat /\ Len(tt) \in Nat /\ \A i \in 1 .. Len(ss) : ss[i] \in Seq(S)
  BY LenProperties, ElementOfSeq
<1>2. 0 \in T
  OBVIOUS
<1>3. ASSUME NEW n \in Nat, n \in T PROVE n + 1 \in T
  <2> SUFFICES ASSUME n + 1 \in 1 .. m
               PROVE  Joined(ss)[n + 1] = Joined(tt)[n + 1] /\ Joined(ss)[n + 1] \in Seq(S)
    OBVIOUS
  <2>1. /\ Joined(ss)[n + 1] = IF n + 1 = 1 THEN ss[n + 1] ELSE Joined(ss)[(n + 1) - 1] \o ss[n + 1]
        /\ Joined(tt)[n + 1] = IF n + 1 = 1 THEN tt[n + 1] ELSE Joined(tt)[(n + 1) - 1] \o tt[n + 1]
    <3>1. n + 1 \in 1 .. Len(ss) /\ n + 1 \in 1 .. Len(tt)
      BY <1>1
    <3> QED
      BY <3>1, JoinedFacts
  <2>2. ss[n + 1] = tt[n + 1] /\ ss[n + 1] \in Seq(S)
    BY <1>1
  <2>3. CASE n = 0
    BY <2>1, <2>2, <2>3
  <2>4. CASE n # 0
    <3>1. Joined(ss)[n] = Joined(tt)[n] /\ Joined(ss)[n] \in Seq(S) /\ (n + 1) - 1 = n /\ n + 1 # 1
      BY <1>3, <2>4
    <3>2. Joined(ss)[n] \o ss[n + 1] \in Seq(S)
      BY <2>2, <3>1, ConcatProperties
    <3> QED
      BY <2>1, <2>2, <3>1, <3>2
  <2> QED
    BY <2>3, <2>4
<1> HIDE DEF T
<1>4. Nat \subseteq T
  BY <1>2, <1>3, Induction
<1> QED
  BY <1>4 DEF T

\* FlattenSeq, piece by piece.
LEMMA FlattenFacts ==
    ASSUME NEW S
    PROVE  /\ FlattenSeq(<<>>) = <<>>
           /\ \A ss \in Seq(Seq(S)) : FlattenSeq(ss) \in Seq(S)
           /\ \A ss \in Seq(Seq(S)), x \in Seq(S) : FlattenSeq(Append(ss, x)) = FlattenSeq(ss) \o x
<1>1. FlattenSeq(<<>>) = <<>>
  BY EmptySeq DEF FlattenSeq
<1>2. ASSUME NEW ss \in Seq(Seq(S)) PROVE FlattenSeq(ss) \in Seq(S)
  <2>1. CASE Len(ss) = 0
    BY <2>1, JoinedFacts, EmptySeq
  <2>2. CASE Len(ss) # 0
    <3>1. Len(ss) \in Nat /\ Len(ss) \in 1 .. Len(ss) /\ Len(ss) <= Len(ss)
      BY <2>2, LenProperties
    <3>2. Joined(ss)[Len(ss)] \in Seq(S)
      BY <3>1, JoinedPrefix
    <3> QED
      BY <2>2, <3>2, JoinedFacts
  <2> QED
    BY <2>1, <2>2
<1>3. ASSUME NEW ss \in Seq(Seq(S)), NEW x \in Seq(S)
      PROVE  FlattenSeq(Append(ss, x)) = FlattenSeq(ss) \o x
  <2> DEFINE n == Len(ss)
             tt == Append(ss, x)
  <2>1. /\ n \in Nat /\ tt \in Seq(Seq(S)) /\ Len(tt) = n + 1 /\ tt[n + 1] = x
        /\ \A i \in 1 .. n : tt[i] = ss[i]
    BY AppendProperties, LenProperties
  <2> HIDE DEF tt
  <2>2. FlattenSeq(tt) = Joined(tt)[n + 1]
    BY <2>1, JoinedFacts
  <2>3. Joined(tt)[n + 1] = IF n + 1 = 1 THEN x ELSE Joined(tt)[(n + 1) - 1] \o x
    <3>1. n + 1 \in 1 .. Len(tt)
      BY <2>1
    <3> QED
      BY <2>1, <3>1, JoinedFacts
  <2>4. CASE n = 0
    <3>1. FlattenSeq(ss) = <<>>
      BY <2>4, JoinedFacts
    <3>2. <<>> \o x = x
      BY ConcatEmptySeq
    <3> QED
      BY <2>2, <2>3, <2>4, <3>1, <3>2 DEF tt
  <2>5. CASE n # 0
    <3>1. n \in 1 .. n /\ n <= Len(ss) /\ n <= Len(tt) /\ (n + 1) - 1 = n /\ n + 1 # 1
      BY <2>1, <2>5
    <3>2. Joined(tt)[n] = Joined(ss)[n]
      <4>1. \A i \in 1 .. n : Joined(tt)[i] = Joined(ss)[i] /\ Joined(tt)[i] \in Seq(S)
        BY <2>1, <3>1, JoinedPrefix
      <4> QED
        BY <3>1, <4>1
    <3>3. FlattenSeq(ss) = Joined(ss)[n]
      BY <2>5, JoinedFacts
    <3> QED
      BY <2>2, <2>3, <3>1, <3>2, <3>3 DEF tt
  <2> QED
    BY <2>4, <2>5
<1> QED
  BY <1>1, <1>2, <1>3

LEMMA FlattenConcat ==
    ASSUME NEW S, NEW ss \in Seq(Seq(S)), NEW tt \in Seq(Seq(S))
    PROVE  FlattenSeq(ss \o tt) = FlattenSeq(ss) \o FlattenSeq(tt)
<1> DEFINE U(n) == SubSeq(tt, 1, n)
           P(n) == n <= Len(tt) => FlattenSeq(ss \o U(n)) = FlattenSeq(ss) \o FlattenSeq(U(n))
           T == {n \in Nat : P(n)}
<1>1. /\ Len(tt) \in Nat /\ U(Len(tt)) = tt
      /\ FlattenSeq(<<>>) = <<>>
      /\ \A uu \in Seq(Seq(S)) : FlattenSeq(uu) \in Seq(S)
      /\ \A uu \in Seq(Seq(S)), x \in Seq(S) : FlattenSeq(Append(uu, x)) = FlattenSeq(uu) \o x
  BY LenProperties, SubSeqFull, FlattenFacts
<1>2. P(0)
  <2>1. U(0) = <<>>
    BY SubSeqEmpty
  <2>2. ss \o <<>> = ss
    BY ConcatEmptySeq
  <2>3. FlattenSeq(ss) \o <<>> = FlattenSeq(ss)
    BY <1>1, ConcatEmptySeq
  <2> QED
    BY <1>1, <2>1, <2>2, <2>3
<1>3. ASSUME NEW n \in Nat, P(n) PROVE P(n + 1)
  <2> SUFFICES ASSUME n + 1 <= Len(tt)
               PROVE  FlattenSeq(ss \o U(n + 1)) = FlattenSeq(ss) \o FlattenSeq(U(n + 1))
    OBVIOUS
  <2> DEFINE x == tt[n + 1]
             u == U(n)
             fs == FlattenSeq(ss)
             fu == FlattenSeq(u)
  <2>1. n + 1 \in 1 .. Len(tt) /\ x \in Seq(S)
    BY <1>1, ElementOfSeq
  <2>2. u \in Seq(Seq(S))
    <3>1. \A i \in 1 .. n : tt[i] \in Seq(S)
      BY <1>1, ElementOfSeq
    <3> QED
      BY <3>1, SubSeqProperties
  <2>3. U(n + 1) = u \o <<x>>
    <3>1. n + 1 \in 1 .. Len(tt) /\ 1 \in 1 .. Len(tt) /\ (n + 1) - 1 = n /\ n + 1 \in 1 .. Len(tt)
      BY <1>1
    <3> QED
      BY <3>1, SubSeqRecursiveSecond
  <2>4. FlattenSeq(ss \o u) = fs \o fu
    <3>1. n <= Len(tt)
      BY <1>1, <2>1
    <3>2. n <= Len(tt) => FlattenSeq(ss \o u) = fs \o fu
      BY ONLY P(n)
    <3> QED
      BY ONLY <3>1, <3>2
  <2>5. fs \in Seq(S) /\ fu \in Seq(S)
    BY <1>1, <2>2
  <2>6. FlattenSeq(ss \o U(n + 1)) = FlattenSeq((ss \o u) \o <<x>>)
    <3> HIDE DEF x, u, U
    <3>1. <<x>> \in Seq(Seq(S))
      BY <2>1
    <3>2. ASSUME NEW a \in Seq(Seq(S)), NEW b \in Seq(Seq(S)), NEW c \in Seq(Seq(S))
          PROVE  (a \o b) \o c = a \o (b \o c)
      BY SMTT(40)
    <3>3. (ss \o u) \o <<x>> = ss \o (u \o <<x>>)
      BY <2>2, <3>1, <3>2
    <3> QED
      BY <2>3, <3>3
  <2> HIDE DEF x, u, U, fs, fu
  <2>7. ss \o u \in Seq(Seq(S))
    BY <2>2, ConcatProperties
  <2>8. FlattenSeq((ss \o u) \o <<x>>) = (fs \o fu) \o x
    <3>1. Append(ss \o u, x) = (ss \o u) \o <<x>>
      BY <2>1, <2>7, AppendIsConcat
    <3>2. FlattenSeq(Append(ss \o u, x)) = FlattenSeq(ss \o u) \o x
      BY <1>1, <2>1, <2>7
    <3> QED
      BY <2>4, <3>1, <3>2
  <2>9. FlattenSeq(U(n + 1)) = fu \o x
    <3>1. Append(u, x) = u \o <<x>>
      BY <2>1, <2>2, AppendIsConcat
    <3>2. FlattenSeq(Append(u, x)) = FlattenSeq(u) \o x
      BY <1>1, <2>1, <2>2
    <3> QED
      BY <2>3, <3>1, <3>2 DEF fu
  <2>10. (fs \o fu) \o x = fs \o (fu \o x)
    <3>1. ASSUME NEW a \in Seq(S), NEW b \in Seq(S), NEW c \in Seq(S)
          PROVE  (a \o b) \o c = a \o (b \o c)
      BY SMTT(40)
    <3> QED
      BY <2>1, <2>5, <3>1
  <2> QED
    BY <2>6, <2>8, <2>9, <2>10 DEF fs
<1> HIDE DEF P
<1>4. \A n \in Nat : P(n)
  <2>1. 0 \in T /\ \A n \in Nat : n \in T => n + 1 \in T
    BY <1>2, <1>3
  <2> HIDE DEF T
  <2>2. Nat \subseteq T
    BY <2>1, Induction
  <2> QED
    BY <2>2 DEF T
<1>5. P(Len(tt))
  BY <1>1, <1>4
<1>6. Len(tt) <= Len(tt)
  BY <1>1
<1>7. FlattenSeq(ss \o U(Len(tt))) = FlattenSeq(ss) \o FlattenSeq(U(Len(tt)))
  BY <1>5, <1>6 DEF P
<1> HIDE DEF U
<1> QED
  BY <1>1, <1>7

\* Pieces cut from a sequence one after another give it back.
Pieces(s, c, m) == [k \in 1 .. m |-> SubSeq(s, c[k] + 1, c[k + 1])]

LEMMA CutsJoin ==
    ASSUME NEW S, NEW s \in Seq(S), NEW m \in Nat, NEW c \in [1 .. m + 1 -> 0 .. Len(s)],
           \A i \in 1 .. m : c[i] <= c[i + 1]
    PROVE  /\ FlattenSeq(Pieces(s, c, m)) = SubSeq(s, c[1] + 1, c[m + 1])
           /\ Pieces(s, c, m) \in Seq(Seq(S)) /\ c[1] <= c[m + 1]
<1> DEFINE ss == Pieces(s, c, m)
           T == {n \in Nat : n \in 1 .. m =>
                    c[1] <= c[n + 1] /\ Joined(ss)[n] = SubSeq(s, c[1] + 1, c[n + 1])}
<1>1. /\ Len(s) \in Nat /\ \A i \in 1 .. Len(s) : s[i] \in S
  BY LenProperties, ElementOfSeq
<1>2. \A k \in 1 .. m : ss[k] = SubSeq(s, c[k] + 1, c[k + 1]) /\ ss[k] \in Seq(S)
  <2> SUFFICES ASSUME NEW k \in 1 .. m PROVE ss[k] = SubSeq(s, c[k] + 1, c[k + 1]) /\ ss[k] \in Seq(S)
    OBVIOUS
  <2>1. ss[k] = SubSeq(s, c[k] + 1, c[k + 1])
    BY DEF Pieces
  <2>2. c[k] + 1 \in Int /\ c[k + 1] \in Int /\ \A i \in c[k] + 1 .. c[k + 1] : s[i] \in S
    BY <1>1
  <2> QED
    BY <2>1, <2>2, SubSeqProperties
<1>3. ss \in Seq(Seq(S)) /\ Len(ss) = m
  <2>1. ss \in [1 .. m -> Seq(S)]
    BY <1>2 DEF Pieces
  <2> HIDE DEF ss
  <2> QED
    BY <2>1
<1> HIDE DEF ss
<1>4. \A i \in 1 .. m : Joined(ss)[i] = IF i = 1 THEN ss[i] ELSE Joined(ss)[i - 1] \o ss[i]
  BY <1>3, JoinedFacts
<1>5. 0 \in T
  OBVIOUS
<1>6. ASSUME NEW n \in Nat, n \in T PROVE n + 1 \in T
  <2> SUFFICES ASSUME n + 1 \in 1 .. m
               PROVE  c[1] <= c[n + 2] /\ Joined(ss)[n + 1] = SubSeq(s, c[1] + 1, c[n + 2])
    OBVIOUS
  <2>1. ss[n + 1] = SubSeq(s, c[n + 1] + 1, c[n + 2]) /\ c[n + 1] <= c[n + 2]
    <3>1. (n + 1) + 1 = n + 2
      OBVIOUS
    <3> QED
      BY <1>2, <3>1
  <2>2. CASE n = 0
    BY <1>4, <2>1, <2>2, SMTT(40)
  <2>3. CASE n # 0
    <3>1. n \in 1 .. m /\ n + 1 # 1 /\ (n + 1) - 1 = n
      BY <2>3
    <3>2. c[1] <= c[n + 1] /\ Joined(ss)[n] = SubSeq(s, c[1] + 1, c[n + 1])
      BY <1>6, <3>1
    <3>3. /\ c[1] + 1 \in 1 .. Len(s) + 1 /\ c[n + 1] \in (c[1] + 1) - 1 .. Len(s)
          /\ c[n + 2] \in c[n + 1] .. Len(s) /\ c[1] <= c[n + 2]
      <4>1. 1 \in 1 .. m + 1 /\ n + 1 \in 1 .. m + 1 /\ n + 2 \in 1 .. m + 1
        BY <3>1
      <4>2. c[1] \in 0 .. Len(s) /\ c[n + 1] \in 0 .. Len(s) /\ c[n + 2] \in 0 .. Len(s)
        BY <4>1
      <4> QED
        BY <1>1, <2>1, <3>2, <4>2, SMTT(40)
    <3>4. SubSeq(s, c[1] + 1, c[n + 1]) \o SubSeq(s, c[n + 1] + 1, c[n + 2]) = SubSeq(s, c[1] + 1, c[n + 2])
      BY <3>3, ConcatAdjacentSubSeq
    <3>5. Joined(ss)[n + 1] = Joined(ss)[n] \o ss[n + 1]
      BY <1>4, <3>1
    <3> QED
      BY <2>1, <3>2, <3>3, <3>4, <3>5
  <2> QED
    BY <2>2, <2>3
<1> HIDE DEF T
<1>7. Nat \subseteq T
  BY <1>5, <1>6, Induction
<1>8. CASE m = 0
  <2>1. FlattenSeq(ss) = <<>>
    BY <1>3, <1>8, JoinedFacts
  <2>2. SubSeq(s, c[1] + 1, c[m + 1]) = <<>>
    BY <1>1, <1>8, SubSeqEmpty
  <2> QED
    BY <1>3, <1>8, <2>1, <2>2 DEF ss
<1>9. CASE m # 0
  <2>1. m \in 1 .. m
    BY <1>9
  <2>2. c[1] <= c[m + 1] /\ Joined(ss)[m] = SubSeq(s, c[1] + 1, c[m + 1])
    BY <1>7, <2>1 DEF T
  <2> QED
    BY <1>3, <1>9, <2>2, JoinedFacts DEF ss
<1> QED
  BY <1>8, <1>9

-----------------------------------------------------------------------------
(***************************************************************************)
(* Machine code and what it means to the assembler.                        *)
(***************************************************************************)
Ops == {"BYTE", "WORD", "LONG", "QUAD"}

LEMMA SymFacts ==
    /\ \A x \in Byte : Sym(x) \in Symbol
    /\ \A t \in STRING \cup {""} : <<0, t>> \in Symbol
<1>1. ASSUME NEW x \in Byte, NEW t \in STRING \cup {""} PROVE <<x, t>> \in Byte \X (STRING \cup {""})
  OBVIOUS
<1>2. 0 \in Byte
  BY DEF Byte
<1> QED
  BY <1>1, <1>2 DEF Sym, Symbol

LEMMA WidthFacts ==
    /\ Width \in [Ops -> {1, 2, 4, 8}]
    /\ \A target \in Targets : /\ FullWidth(target) \in [Ops -> {1, 2, 4, 8}]
                               /\ \A op \in Ops : Width[op] <= FullWidth(target)[op]
    /\ FullWidth("amd64") = Width
BY DEF Width, FullWidth, Ops, Targets

LEMMA SentFacts ==
    ASSUME NEW s \in Seq(Byte)
    PROVE  /\ Sent(s) \in Seq(Symbol) /\ Len(Sent(s)) = Len(s) /\ Len(s) \in Nat
           /\ \A b \in 1 .. Len(s) : Sent(s)[b] = Sym(s[b]) /\ s[b] \in Byte
<1>1. Len(s) \in Nat /\ \A b \in 1 .. Len(s) : s[b] \in Byte
  BY LenProperties, ElementOfSeq
<1>2. Sent(s) \in [1 .. Len(s) -> Symbol]
  BY <1>1, SymFacts DEF Sent
<1>3. \A b \in 1 .. Len(s) : Sent(s)[b] = Sym(s[b])
  BY DEF Sent
<1> HIDE DEF Sent
<1> QED
  BY <1>1, <1>2, <1>3

LEMMA SentConcat ==
    ASSUME NEW s \in Seq(Byte), NEW u \in Seq(Byte)
    PROVE  Sent(s \o u) = Sent(s) \o Sent(u)
<1>1. /\ s \o u \in Seq(Byte) /\ Len(s \o u) = Len(s) + Len(u) /\ Len(s) \in Nat /\ Len(u) \in Nat
      /\ \A i \in 1 .. Len(s) + Len(u) : (s \o u)[i] = IF i <= Len(s) THEN s[i] ELSE u[i - Len(s)]
  BY ConcatProperties, LenProperties
<1>2. /\ Sent(s) \in Seq(Symbol) /\ Len(Sent(s)) = Len(s)
      /\ \A b \in 1 .. Len(s) : Sent(s)[b] = Sym(s[b])
  BY SentFacts
<1>3. /\ Sent(u) \in Seq(Symbol) /\ Len(Sent(u)) = Len(u)
      /\ \A b \in 1 .. Len(u) : Sent(u)[b] = Sym(u[b])
  BY SentFacts
<1>4. /\ Sent(s \o u) \in Seq(Symbol) /\ Len(Sent(s \o u)) = Len(s) + Len(u)
      /\ \A b \in 1 .. Len(s) + Len(u) : Sent(s \o u)[b] = Sym((s \o u)[b])
  BY <1>1, SentFacts
<1>5. /\ Sent(s) \o Sent(u) \in Seq(Symbol) /\ Len(Sent(s) \o Sent(u)) = Len(s) + Len(u)
      /\ \A i \in 1 .. Len(s) + Len(u) :
           (Sent(s) \o Sent(u))[i] = IF i <= Len(s) THEN Sent(s)[i] ELSE Sent(u)[i - Len(s)]
  <2> DEFINE a == Sent(s)
             c == Sent(u)
  <2>1. a \in Seq(Symbol) /\ c \in Seq(Symbol) /\ Len(a) = Len(s) /\ Len(c) = Len(u)
    BY <1>2, <1>3
  <2> HIDE DEF a, c
  <2>2. /\ a \o c \in Seq(Symbol) /\ Len(a \o c) = Len(a) + Len(c)
        /\ \A i \in 1 .. Len(a) + Len(c) : (a \o c)[i] = IF i <= Len(a) THEN a[i] ELSE c[i - Len(a)]
    BY <2>1, ConcatProperties
  <2>3. /\ a \o c \in Seq(Symbol) /\ Len(a \o c) = Len(s) + Len(u)
        /\ \A i \in 1 .. Len(s) + Len(u) : (a \o c)[i] = IF i <= Len(s) THEN a[i] ELSE c[i - Len(s)]
    BY ONLY <2>1, <2>2
  <2> QED
    BY <2>3 DEF a, c
<1>6. ASSUME NEW i \in 1 .. Len(s) + Len(u) PROVE Sent(s \o u)[i] = (Sent(s) \o Sent(u))[i]
  <2>1. CASE i <= Len(s)
    <3>1. i \in 1 .. Len(s)
      BY <1>1, <2>1
    <3> QED
      BY <1>1, <1>2, <1>4, <1>5, <2>1, <3>1
  <2>2. CASE ~ (i <= Len(s))
    <3>1. i - Len(s) \in 1 .. Len(u)
      BY <1>1, <2>2
    <3> QED
      BY <1>1, <1>3, <1>4, <1>5, <2>2, <3>1
  <2> QED
    BY <2>1, <2>2
<1> QED
  BY <1>4, <1>5, <1>6, SeqEqual

LEMMA SentSub ==
    ASSUME NEW s \in Seq(Byte), NEW m \in 1 .. Len(s) + 1, NEW n \in m - 1 .. Len(s)
    PROVE  /\ Sent(SubSeq(s, m, n)) = SubSeq(Sent(s), m, n)
           /\ SubSeq(s, m, n) \in Seq(Byte) /\ Len(SubSeq(s, m, n)) = (n - m) + 1
<1>1. /\ Len(s) \in Nat /\ Sent(s) \in Seq(Symbol) /\ Len(Sent(s)) = Len(s)
      /\ m \in Int /\ n \in Int /\ 1 <= m /\ m - 1 <= n /\ n <= Len(s)
      /\ \A b \in 1 .. Len(s) : Sent(s)[b] = Sym(s[b]) /\ s[b] \in Byte /\ Sent(s)[b] \in Symbol
  <2>1. /\ Len(s) \in Nat /\ Sent(s) \in Seq(Symbol) /\ Len(Sent(s)) = Len(s)
        /\ \A b \in 1 .. Len(s) : Sent(s)[b] = Sym(s[b]) /\ s[b] \in Byte
    BY SentFacts
  <2>2. \A b \in 1 .. Len(s) : Sym(s[b]) \in Symbol
    BY <2>1, SymFacts
  <2> QED
    BY ONLY <2>1, <2>2, m \in 1 .. Len(s) + 1, n \in m - 1 .. Len(s)
<1>2. \A i \in m .. n : s[i] \in Byte /\ Sent(s)[i] \in Symbol /\ Sent(s)[i] = Sym(s[i])
  BY <1>1
<1>3. /\ SubSeq(s, m, n) \in Seq(Byte) /\ Len(SubSeq(s, m, n)) = (n - m) + 1
      /\ \A i \in 1 .. (n - m) + 1 : SubSeq(s, m, n)[i] = s[(m + i) - 1]
  BY <1>1, <1>2, SubSeqProperties
<1>4. /\ SubSeq(Sent(s), m, n) \in Seq(Symbol) /\ Len(SubSeq(Sent(s), m, n)) = (n - m) + 1
      /\ \A i \in 1 .. (n - m) + 1 : SubSeq(Sent(s), m, n)[i] = Sent(s)[(m + i) - 1]
  BY <1>1, <1>2, SubSeqProperties
<1>5. /\ Sent(SubSeq(s, m, n)) \in Seq(Symbol) /\ Len(Sent(SubSeq(s, m, n))) = (n - m) + 1
      /\ \A i \in 1 .. (n - m) + 1 : Sent(SubSeq(s, m, n))[i] = Sym(SubSeq(s, m, n)[i])
  BY <1>3, SentFacts
<1>6. ASSUME NEW i \in 1 .. (n - m) + 1 PROVE Sent(SubSeq(s, m, n))[i] = SubSeq(Sent(s), m, n)[i]
  <2>1. (m + i) - 1 \in m .. n
    BY <1>1
  <2> QED
    BY <1>2, <1>3, <1>4, <1>5, <2>1
<1> QED
  BY <1>3, <1>4, <1>5, <1>6, SeqEqual

LEMMA ReverseFacts ==
    ASSUME NEW S, NEW s \in Seq(S)
    PROVE  Reverse(s) \in Seq(S) /\ Len(Reverse(s)) = Len(s) /\ Reverse(Reverse(s)) = s
<1>1. Len(s) \in Nat /\ s \in [1 .. Len(s) -> S]
  BY LenProperties
<1>2. /\ Reverse(s) \in [1 .. Len(s) -> S]
      /\ \A i \in 1 .. Len(s) : Reverse(s)[i] = s[(Len(s) - i) + 1]
  BY <1>1 DEF Reverse
<1>3. Reverse(s) \in Seq(S) /\ Len(Reverse(s)) = Len(s)
  BY <1>1, <1>2
<1>4. Reverse(Reverse(s)) = [i \in 1 .. Len(s) |-> Reverse(s)[(Len(s) - i) + 1]]
  BY <1>3 DEF Reverse
<1>5. ASSUME NEW i \in 1 .. Len(s) PROVE Reverse(s)[(Len(s) - i) + 1] = s[i]
  <2>1. (Len(s) - i) + 1 \in 1 .. Len(s) /\ (Len(s) - ((Len(s) - i) + 1)) + 1 = i
    BY <1>1
  <2> QED
    BY <1>2, <2>1
<1>6. [i \in 1 .. Len(s) |-> Reverse(s)[(Len(s) - i) + 1]] = s
  BY <1>1, <1>5
<1> QED
  BY <1>3, <1>4, <1>6

\* One literal.
PartMeaning(target, part) ==
    [b \in 1 .. FullWidth(target)[part.op] |->
        Sym(IF b <= Len(Reverse(part.digits)) THEN Reverse(part.digits)[b] ELSE 0)]

LEMMA PartFacts ==
    ASSUME NEW target \in Targets, NEW part \in Literal
    PROVE  /\ PartMeaning(target, part) \in Seq(Symbol)
           /\ Reverse(part.digits) \in Seq(Byte) /\ Len(Reverse(part.digits)) = Len(part.digits)
           /\ Len(part.digits) = FullWidth(target)[part.op]
                  => PartMeaning(target, part) = Sent(Reverse(part.digits))
           /\ Len(part.digits) = FullWidth(target)[part.op] /\ Len(part.digits) <= Width[part.op]
                  => BytesOf(part) = Reverse(part.digits)
<1> DEFINE d == Reverse(part.digits)
           w == FullWidth(target)[part.op]
<1>1. part.op \in Ops /\ part.digits \in Seq(Byte)
  BY DEF Literal, Ops, Byte
<1>2. d \in Seq(Byte) /\ Len(d) = Len(part.digits) /\ Len(d) \in Nat
  BY <1>1, ReverseFacts, LenProperties
<1>3. \A b \in 1 .. Len(d) : d[b] \in Byte
  BY <1>2, ElementOfSeq
<1>4. w \in Nat /\ Width[part.op] \in Nat /\ Width[part.op] <= w
  BY <1>1, WidthFacts
<1>5. PartMeaning(target, part) = [b \in 1 .. w |-> Sym(IF b <= Len(d) THEN d[b] ELSE 0)]
  BY DEF PartMeaning
<1>6. BytesOf(part) = [k \in 1 .. Width[part.op] |-> IF k <= Len(d) THEN d[k] ELSE 0]
  BY DEF BytesOf
<1> HIDE DEF d, w
<1>7. PartMeaning(target, part) \in Seq(Symbol)
  <2>1. ASSUME NEW b \in 1 .. w PROVE Sym(IF b <= Len(d) THEN d[b] ELSE 0) \in Symbol
    <3>1. CASE b <= Len(d)
      <4>1. b \in 1 .. Len(d)
        BY <1>2, <1>4, <3>1
      <4> QED
        BY <1>3, <3>1, <4>1, SymFacts
    <3>2. CASE ~ (b <= Len(d))
      <4>1. 0 \in Byte
        BY DEF Byte
      <4> QED
        BY <3>2, <4>1, SymFacts
    <3> QED
      BY <3>1, <3>2
  <2>2. PartMeaning(target, part) \in [1 .. w -> Symbol]
    BY <1>5, <2>1
  <2> QED
    BY <1>4, <2>2
<1>8. ASSUME Len(d) = w PROVE PartMeaning(target, part) = Sent(d)
  BY <1>2, <1>4, <1>5, <1>8 DEF Sent
<1>9. ASSUME Len(d) = w, Len(d) <= Width[part.op] PROVE BytesOf(part) = d
  <2>1. Width[part.op] = Len(d)
    BY <1>4, <1>9
  <2>2. d \in [1 .. Len(d) -> Byte]
    BY <1>2, LenProperties
  <2> QED
    BY <1>6, <2>1, <2>2
<1> QED
  BY <1>2, <1>7, <1>8, <1>9 DEF d, w

\* What is sent piece by piece is sent as a whole.
SentEach(ss) == [k \in 1 .. Len(ss) |-> Sent(ss[k])]

LEMMA SentFlatten ==
    ASSUME NEW ss \in Seq(Seq(Byte))
    PROVE  FlattenSeq(SentEach(ss)) = Sent(FlattenSeq(ss)) /\ SentEach(ss) \in Seq(Seq(Symbol))
<1> DEFINE tt == SentEach(ss)
           T == {n \in Nat : n \in 1 .. Len(ss) => Joined(tt)[n] = Sent(Joined(ss)[n])}
<1>1. /\ Len(ss) \in Nat /\ \A k \in 1 .. Len(ss) : ss[k] \in Seq(Byte) /\ Sent(ss[k]) \in Seq(Symbol)
  <2>1. Len(ss) \in Nat /\ \A k \in 1 .. Len(ss) : ss[k] \in Seq(Byte)
    BY LenProperties, ElementOfSeq
  <2> QED
    BY <2>1, SentFacts
<1>2. tt \in Seq(Seq(Symbol)) /\ Len(tt) = Len(ss) /\ \A k \in 1 .. Len(ss) : tt[k] = Sent(ss[k])
  <2>1. tt \in [1 .. Len(ss) -> Seq(Symbol)] /\ \A k \in 1 .. Len(ss) : tt[k] = Sent(ss[k])
    BY <1>1 DEF SentEach
  <2> HIDE DEF tt
  <2> QED
    BY <1>1, <2>1
<1> HIDE DEF tt
<1>3. \A i \in 1 .. Len(ss) : Joined(ss)[i] \in Seq(Byte)
  <2>1. Len(ss) <= Len(ss)
    BY <1>1
  <2> QED
    BY <1>1, <2>1, JoinedPrefix
<1>4. \A i \in 1 .. Len(ss) : Joined(ss)[i] = IF i = 1 THEN ss[i] ELSE Joined(ss)[i - 1] \o ss[i]
  BY JoinedFacts
<1>5. \A i \in 1 .. Len(ss) : Joined(tt)[i] = IF i = 1 THEN tt[i] ELSE Joined(tt)[i - 1] \o tt[i]
  BY <1>2, JoinedFacts
<1>6. 0 \in T
  OBVIOUS
<1>7. ASSUME NEW n \in Nat, n \in T PROVE n + 1 \in T
  <2> SUFFICES ASSUME n + 1 \in 1 .. Len(ss) PROVE Joined(tt)[n + 1] = Sent(Joined(ss)[n + 1])
    OBVIOUS
  <2>1. CASE n = 0
    BY <1>2, <1>4, <1>5, <2>1
  <2>2. CASE n # 0
    <3>1. n \in 1 .. Len(ss) /\ n + 1 # 1 /\ (n + 1) - 1 = n
      BY <1>1, <2>2
    <3>2. Joined(tt)[n + 1] = Sent(Joined(ss)[n]) \o Sent(ss[n + 1])
      BY <1>2, <1>5, <1>7, <3>1, ZenonT(40)
    <3>3. Sent(Joined(ss)[n] \o ss[n + 1]) = Sent(Joined(ss)[n]) \o Sent(ss[n + 1])
      BY <1>1, <1>3, <3>1, SentConcat
    <3> QED
      BY <1>4, <3>1, <3>2, <3>3
  <2> QED
    BY <2>1, <2>2
<1> HIDE DEF T
<1>8. Nat \subseteq T
  BY <1>6, <1>7, Induction
<1>9. CASE Len(ss) = 0
  <2>1. FlattenSeq(tt) = <<>> /\ FlattenSeq(ss) = <<>>
    BY <1>2, <1>9, JoinedFacts
  <2>2. Sent(<<>>) = <<>>
    BY EmptySeq DEF Sent
  <2> QED
    BY <1>2, <2>1, <2>2 DEF tt
<1>10. CASE Len(ss) # 0
  <2>1. Len(ss) \in 1 .. Len(ss)
    BY <1>1, <1>10
  <2>2. Joined(tt)[Len(ss)] = Sent(Joined(ss)[Len(ss)])
    BY <1>8, <2>1 DEF T
  <2>3. FlattenSeq(tt) = Joined(tt)[Len(ss)] /\ FlattenSeq(ss) = Joined(ss)[Len(ss)]
    BY <1>2, <1>10, JoinedFacts
  <2> QED
    BY <1>2, <2>2, <2>3 DEF tt
<1> QED
  BY <1>9, <1>10

\* A line of code means its bytes.
LEMMA MeaningFacts ==
    ASSUME NEW target \in Targets, NEW l \in OutputLine
    PROVE  /\ Meaning(target, l) \in Seq(Symbol)
           /\ ~ OpcodeLine(l) /\ l.text = "" => Meaning(target, l) = <<>>
           /\ AsWritten(target, l) /\ Parses(l) /\ OpcodeLine(l) =>
                 /\ LineBytes(l) \in Seq(Byte) /\ Meaning(target, l) = Sent(LineBytes(l))
                 /\ LineBytes(l) = FlattenSeq([k \in DOMAIN l.parts |-> Reverse(l.parts[k].digits)])
<1> DEFINE M == [k \in DOMAIN l.parts |-> PartMeaning(target, l.parts[k])]
           B == [k \in DOMAIN l.parts |-> BytesOf(l.parts[k])]
           R == [k \in DOMAIN l.parts |-> Reverse(l.parts[k].digits)]
<1>1. l.parts \in Seq(Literal) /\ l.text \in STRING \cup {""}
  BY DEF OutputLine
<1>2. /\ DOMAIN l.parts = 1 .. Len(l.parts) /\ Len(l.parts) \in Nat
      /\ \A k \in DOMAIN l.parts : l.parts[k] \in Literal
  BY <1>1, LenProperties, ElementOfSeq
<1>3. Meaning(target, l) = IF l.text # "" THEN <<<<0, l.text>>>> ELSE FlattenSeq(M)
  BY DEF Meaning, PartMeaning, Sym
<1>4. M \in Seq(Seq(Symbol))
  <2>1. M \in [1 .. Len(l.parts) -> Seq(Symbol)]
    BY <1>2, PartFacts
  <2> HIDE DEF M
  <2> QED
    BY <1>2, <2>1
<1>5. Meaning(target, l) \in Seq(Symbol)
  <2>1. FlattenSeq(M) \in Seq(Symbol)
    BY <1>4, FlattenFacts
  <2>2. <<0, l.text>> \in Symbol
    BY <1>1, SymFacts
  <2> HIDE DEF M
  <2>3. <<<<0, l.text>>>> \in Seq(Symbol)
    BY <2>2
  <2> QED
    BY <1>3, <2>1, <2>3
<1>6. ASSUME ~ OpcodeLine(l), l.text = "" PROVE Meaning(target, l) = <<>>
  <2>1. l.parts = <<>>
    BY <1>6 DEF OpcodeLine
  <2>2. M = <<>>
    BY <2>1
  <2> HIDE DEF M
  <2> QED
    BY <1>3, <1>6, <2>2, FlattenFacts
<1>7. ASSUME AsWritten(target, l), Parses(l), OpcodeLine(l)
      PROVE  /\ LineBytes(l) \in Seq(Byte) /\ Meaning(target, l) = Sent(LineBytes(l))
             /\ LineBytes(l) = FlattenSeq(R)
  <2>1. l.text = ""
    BY <1>7 DEF AsWritten, OpcodeLine
  <2>2. \A k \in DOMAIN l.parts : /\ Len(l.parts[k].digits) = FullWidth(target)[l.parts[k].op]
                                  /\ Len(l.parts[k].digits) <= Width[l.parts[k].op]
    BY <1>7 DEF AsWritten, Parses
  <2>3. \A k \in DOMAIN l.parts : /\ PartMeaning(target, l.parts[k]) = Sent(Reverse(l.parts[k].digits))
                                  /\ BytesOf(l.parts[k]) = Reverse(l.parts[k].digits)
                                  /\ Reverse(l.parts[k].digits) \in Seq(Byte)
    BY <1>2, <2>2, PartFacts
  <2>4. B = R /\ R \in [1 .. Len(l.parts) -> Seq(Byte)]
    BY <1>2, <2>3
  <2>5. LineBytes(l) = FlattenSeq(B)
    BY DEF LineBytes
  <2>6. M = [k \in 1 .. Len(l.parts) |-> Sent(R[k])]
    BY <1>2, <2>3
  <2> HIDE DEF M, B, R
  <2>7. R \in Seq(Seq(Byte)) /\ Len(R) = Len(l.parts)
    BY <1>2, <2>4
  <2>8. M = SentEach(R)
    BY <2>6, <2>7 DEF SentEach
  <2>9. FlattenSeq(M) = Sent(FlattenSeq(R)) /\ FlattenSeq(R) \in Seq(Byte)
    BY <2>7, <2>8, SentFlatten, FlattenFacts
  <2> QED
    BY <1>3, <2>1, <2>4, <2>5, <2>9
<1> QED
  BY <1>5, <1>6, <1>7

\* Where groups of the given widths begin.
Steps(g, ops, size, n) == g = [k \in 1 .. n |-> IF k = 1 THEN 0 ELSE g[k - 1] + size[ops[k - 1]]]

LEMMA StepsExists ==
    ASSUME NEW ops, NEW size, NEW m \in Nat
    PROVE  \E g : Steps(g, ops, size, m)
<1> DEFINE T == {n \in Nat : \E g : Steps(g, ops, size, n)}
<1>1. 0 \in T
  <2> DEFINE e == [i \in 1 .. 0 |-> 0]
  <2>1. Steps(e, ops, size, 0)
    BY DEF Steps
  <2> QED
    BY <2>1
<1>2. ASSUME NEW n \in Nat, n \in T PROVE n + 1 \in T
  <2>1. PICK g : Steps(g, ops, size, n)
    BY <1>2
  <2> DEFINE h == [i \in 1 .. n + 1 |-> IF i <= n THEN g[i]
                                       ELSE IF n = 0 THEN 0 ELSE g[n] + size[ops[n]]]
             k == [i \in 1 .. n + 1 |-> IF i = 1 THEN 0 ELSE h[i - 1] + size[ops[i - 1]]]
  <2>2. \A i \in 1 .. n : g[i] = IF i = 1 THEN 0 ELSE g[i - 1] + size[ops[i - 1]]
    BY <2>1 DEF Steps
  <2>3. ASSUME NEW i \in 1 .. n + 1 PROVE h[i] = k[i]
    <3>1. CASE i <= n
      <4>1. i \in 1 .. n /\ h[i] = g[i] /\ (i # 1 => i - 1 \in 1 .. n /\ h[i - 1] = g[i - 1])
        BY <3>1
      <4> QED
        BY <2>2, <4>1
    <3>2. CASE i = n + 1
      <4>1. i - 1 = n
        BY <3>2
      <4> QED
        BY <3>2, <4>1
    <3> QED
      BY <3>1, <3>2
  <2>4. h = k
    BY <2>3
  <2>5. Steps(h, ops, size, n + 1)
    BY <2>4 DEF Steps
  <2> QED
    BY <2>5
<1> HIDE DEF T
<1>3. Nat \subseteq T
  BY <1>1, <1>2, Induction
<1> QED
  BY <1>3 DEF T

LEMMA OffsetsFacts ==
    ASSUME NEW ops \in Seq(Ops), NEW size \in [Ops -> Nat]
    PROVE  /\ Offsets(ops, size) \in [1 .. Len(ops) + 1 -> Nat]
           /\ Offsets(ops, size)[1] = 0
           /\ \A k \in 1 .. Len(ops) :
                Offsets(ops, size)[k + 1] = Offsets(ops, size)[k] + size[ops[k]]
<1> DEFINE g == Offsets(ops, size)
           m == Len(ops)
           T == {n \in Nat : n \in 1 .. m + 1 => g[n] \in Nat}
<1>1. m \in Nat /\ \A k \in 1 .. m : size[ops[k]] \in Nat
  BY LenProperties, ElementOfSeq
<1>2. Steps(g, ops, size, m + 1)
  <2> DEFINE w == m + 1
  <2>0. w \in Nat
    BY <1>1
  <2> HIDE DEF w
  <2>1. \E h : Steps(h, ops, size, w)
    BY <2>0, StepsExists
  <2> USE DEF w
  <2>2. g = CHOOSE h : Steps(h, ops, size, m + 1)
    BY DEF Offsets, Steps
  <2> HIDE DEF g
  <2> QED
    BY <2>1, <2>2
<1> HIDE DEF g
<1>3. /\ DOMAIN g = 1 .. m + 1
      /\ \A k \in 1 .. m + 1 : g[k] = IF k = 1 THEN 0 ELSE g[k - 1] + size[ops[k - 1]]
      /\ g = [k \in 1 .. m + 1 |-> g[k]]
  BY <1>2 DEF Steps
<1>4. g[1] = 0
  <2>1. 1 \in 1 .. m + 1
    BY <1>1
  <2>2. g[1] = IF 1 = 1 THEN 0 ELSE g[1 - 1] + size[ops[1 - 1]]
    BY ONLY <1>3, <2>1
  <2> QED
    BY <2>2
<1>5. ASSUME NEW k \in 1 .. m PROVE g[k + 1] = g[k] + size[ops[k]]
  <2>1. k + 1 \in 1 .. m + 1 /\ k + 1 # 1 /\ (k + 1) - 1 = k
    BY <1>1
  <2> QED
    BY <1>3, <2>1
<1>6. 0 \in T
  OBVIOUS
<1>7. ASSUME NEW n \in Nat, n \in T PROVE n + 1 \in T
  <2> SUFFICES ASSUME n + 1 \in 1 .. m + 1 PROVE g[n + 1] \in Nat
    OBVIOUS
  <2>1. CASE n = 0
    BY <1>4, <2>1
  <2>2. CASE n # 0
    <3>1. n \in 1 .. m /\ n \in 1 .. m + 1 /\ size[ops[n]] \in Nat
      BY <1>1, <2>2
    <3>2. g[n] \in Nat /\ g[n + 1] = g[n] + size[ops[n]]
      BY <1>5, <1>7, <3>1
    <3> QED
      BY <3>1, <3>2
  <2> QED
    BY <2>1, <2>2
<1> HIDE DEF T
<1>8. \A n \in 1 .. m + 1 : g[n] \in Nat
  <2>1. Nat \subseteq T
    BY <1>6, <1>7, Induction
  <2> QED
    BY <1>1, <2>1 DEF T
<1>9. g \in [1 .. m + 1 -> Nat]
  BY <1>3, <1>8
<1> QED
  BY <1>4, <1>5, <1>9 DEF g

\* A line of compacted code has the first bytes of what is left.
Total(ops) == Offsets(ops, Width)[Len(ops) + 1]

LEMMA CodeLineFacts ==
    ASSUME NEW s \in Seq(Byte), NEW ops \in Seq(Ops), ops # <<>>, Total(ops) <= Len(s)
    PROVE  /\ CodeLine(s, ops) \in OutputLine /\ OpcodeLine(CodeLine(s, ops))
           /\ CodeLine(s, ops).comment = "none" /\ Total(ops) \in Nat
           /\ LineBytes(CodeLine(s, ops)) = SubSeq(s, 1, Total(ops))
           /\ Meaning("amd64", CodeLine(s, ops)) = Sent(SubSeq(s, 1, Total(ops)))
<1> DEFINE g == Offsets(ops, Width)
           m == Len(ops)
           part(k) == [op |-> ops[k], digits |-> Reverse(SubSeq(s, g[k] + 1, g[k + 1]))]
           l == CodeLine(s, ops)
<1>1. /\ m \in Nat /\ m # 0 /\ DOMAIN ops = 1 .. m /\ Len(s) \in Nat
      /\ \A k \in 1 .. m : ops[k] \in Ops /\ Width[ops[k]] \in Nat
  <2>1. m \in Nat \ {0} /\ DOMAIN ops = 1 .. m /\ Len(s) \in Nat /\ \A k \in 1 .. m : ops[k] \in Ops
    BY LenProperties, ElementOfSeq, EmptySeq
  <2> QED
    BY <2>1, WidthFacts
<1>2. /\ g \in [1 .. m + 1 -> Nat] /\ g[1] = 0 /\ g[m + 1] = Total(ops)
      /\ \A k \in 1 .. m : g[k + 1] = g[k] + Width[ops[k]]
  <2>1. Width \in [Ops -> Nat]
    BY WidthFacts
  <2> QED
    BY <2>1, OffsetsFacts DEF Total
<1> HIDE DEF g
<1>3. \A k \in 1 .. m : k + 1 \in 1 .. m + 1 /\ k \in 1 .. m + 1 /\ g[k] <= g[k + 1]
  <2> SUFFICES ASSUME NEW k \in 1 .. m
               PROVE  k + 1 \in 1 .. m + 1 /\ k \in 1 .. m + 1 /\ g[k] <= g[k + 1]
    OBVIOUS
  <2>1. k + 1 \in 1 .. m + 1 /\ k \in 1 .. m + 1
    BY <1>1
  <2>2. g[k] \in Nat /\ g[k + 1] = g[k] + Width[ops[k]] /\ Width[ops[k]] \in Nat
    BY <1>1, <1>2, <2>1
  <2> QED
    BY <2>1, <2>2
<1>4. \A k \in 1 .. m + 1 : g[k] <= g[m + 1]
  <2> DEFINE P(n) == \A k \in 1 .. m + 1 : k + n = m + 1 => g[k] <= g[m + 1]
             T == {n \in Nat : P(n)}
  <2>1. P(0)
    BY <1>1, <1>2
  <2>2. ASSUME NEW n \in Nat, P(n) PROVE P(n + 1)
    <3> SUFFICES ASSUME NEW k \in 1 .. m + 1, k + (n + 1) = m + 1 PROVE g[k] <= g[m + 1]
      OBVIOUS
    <3>1. k \in 1 .. m /\ k + 1 \in 1 .. m + 1 /\ (k + 1) + n = m + 1 /\ m + 1 \in 1 .. m + 1
      BY <1>1
    <3>2. g[k + 1] <= g[m + 1] /\ g[k] <= g[k + 1]
      BY <1>3, <2>2, <3>1
    <3>3. g[k] \in Nat /\ g[k + 1] \in Nat /\ g[m + 1] \in Nat
      BY <1>2, <3>1
    <3> QED
      BY <3>2, <3>3
  <2> HIDE DEF P
  <2>3. 0 \in T /\ \A n \in Nat : n \in T => n + 1 \in T
    BY <2>1, <2>2
  <2> HIDE DEF T
  <2>4. Nat \subseteq T
    BY <2>3, Induction
  <2>5. ASSUME NEW k \in 1 .. m + 1 PROVE g[k] <= g[m + 1]
    <3>1. (m + 1) - k \in Nat /\ k + ((m + 1) - k) = m + 1
      BY <1>1
    <3>2. P((m + 1) - k)
      BY <2>4, <3>1 DEF T
    <3> QED
      BY <3>1, <3>2 DEF P
  <2> QED
    BY <2>5
<1>5. /\ g \in [1 .. m + 1 -> 0 .. Len(s)] /\ Total(ops) \in 0 .. Len(s)
  <2>1. \A k \in 1 .. m + 1 : g[k] \in 0 .. Len(s)
    <3>1. m + 1 \in 1 .. m + 1
      BY <1>1
    <3> QED
      BY <1>1, <1>2, <1>4, <3>1
  <2> QED
    BY <1>1, <1>2, <2>1
<1>6. ASSUME NEW k \in 1 .. m
      PROVE  /\ SubSeq(s, g[k] + 1, g[k + 1]) \in Seq(Byte)
             /\ Len(SubSeq(s, g[k] + 1, g[k + 1])) = Width[ops[k]]
  <2>0. /\ g[k] \in 0 .. Len(s) /\ g[k + 1] \in 0 .. Len(s) /\ g[k] <= g[k + 1]
        /\ g[k + 1] = g[k] + Width[ops[k]] /\ Width[ops[k]] \in Nat
    BY <1>1, <1>2, <1>3, <1>5
  <2>1. /\ g[k] + 1 \in 1 .. Len(s) + 1 /\ g[k + 1] \in (g[k] + 1) - 1 .. Len(s)
        /\ (g[k + 1] - (g[k] + 1)) + 1 = Width[ops[k]]
    BY <1>1, <2>0, SMTT(40)
  <2> QED
    BY <2>1, SentSub
<1>7. ASSUME NEW k \in 1 .. m
      PROVE  /\ part(k) \in Literal /\ Len(part(k).digits) = Width[ops[k]]
             /\ Reverse(part(k).digits) = SubSeq(s, g[k] + 1, g[k + 1])
  <2> DEFINE d == SubSeq(s, g[k] + 1, g[k + 1])
  <2>1. d \in Seq(Byte) /\ Len(d) = Width[ops[k]]
    BY <1>6
  <2> HIDE DEF d
  <2>2. Reverse(d) \in Seq(Byte) /\ Len(Reverse(d)) = Len(d) /\ Reverse(Reverse(d)) = d
    BY <2>1, ReverseFacts
  <2>3. part(k) = [op |-> ops[k], digits |-> Reverse(d)]
    BY DEF d
  <2>4. part(k).digits = Reverse(d) /\ part(k) \in Literal
    BY <1>1, <2>2, <2>3 DEF Literal, Ops, Byte
  <2> QED
    BY <2>1, <2>2, <2>4 DEF d
<1>8. Slices(s, ops, Width) = [k \in 1 .. m |-> part(k)]
  BY <1>1 DEF Slices, g
<1>9. l.parts = [k \in 1 .. m |-> part(k)] /\ l.text = "" /\ l.comment = "none"
  BY <1>8 DEF CodeLine
<1> HIDE DEF part
<1>10. [k \in 1 .. m |-> part(k)] \in Seq(Literal) /\ [k \in 1 .. m |-> part(k)] # <<>>
  <2> DEFINE pp == [k \in 1 .. m |-> part(k)]
  <2>1. pp \in [1 .. m -> Literal] /\ DOMAIN pp = 1 .. m
    BY <1>7
  <2> HIDE DEF pp
  <2>2. pp \in Seq(Literal) /\ Len(pp) = m
    BY <1>1, <2>1
  <2> QED
    BY <1>1, <2>2, EmptySeq DEF pp
<1>11. l \in OutputLine /\ OpcodeLine(l)
  <2> DEFINE pp == [k \in 1 .. m |-> part(k)]
  <2>1. l = [parts |-> pp, text |-> "", comment |-> "none"]
    BY <1>8 DEF CodeLine
  <2>2. pp \in Seq(Literal) /\ pp # <<>>
    BY <1>10
  <2> HIDE DEF pp, l
  <2> QED
    BY <2>1, <2>2 DEF OutputLine, OpcodeLine
<1>12. DOMAIN l.parts = 1 .. m /\ \A k \in 1 .. m : l.parts[k] = part(k) /\ l.parts[k].op = ops[k]
  <2>1. l.parts = [k \in 1 .. m |-> part(k)]
    BY <1>9
  <2>2. \A k \in 1 .. m : part(k).op = ops[k]
    BY DEF part
  <2> HIDE DEF l
  <2> QED
    BY <2>1, <2>2
<1> HIDE DEF l
<1>13. AsWritten("amd64", l) /\ Parses(l)
  <2>1. ASSUME NEW k \in DOMAIN l.parts
        PROVE  Len(l.parts[k].digits) = Width[l.parts[k].op] /\ Width[l.parts[k].op] \in Nat
    BY <1>1, <1>7, <1>12
  <2>2. Parses(l)
    BY <2>1 DEF Parses
  <2>3. AsWritten("amd64", l)
    BY <1>9, <2>1, WidthFacts DEF AsWritten
  <2> QED
    BY <2>2, <2>3
<1>14. [k \in DOMAIN l.parts |-> Reverse(l.parts[k].digits)] = Pieces(s, g, m)
  BY <1>7, <1>12 DEF Pieces
<1>15. FlattenSeq(Pieces(s, g, m)) = SubSeq(s, 1, Total(ops))
  <2>1. FlattenSeq(Pieces(s, g, m)) = SubSeq(s, g[1] + 1, g[m + 1])
    BY ONLY s \in Seq(Byte), <1>1, <1>3, <1>5, CutsJoin
  <2>2. g[1] + 1 = 1
    BY <1>2
  <2> QED
    BY <1>2, <2>1, <2>2
<1>16. /\ LineBytes(l) = SubSeq(s, 1, Total(ops)) /\ Meaning("amd64", l) = Sent(LineBytes(l))
  BY <1>11, <1>13, <1>14, <1>15, MeaningFacts DEF Targets
<1>17. Total(ops) \in Nat
  BY <1>1, <1>5
<1> QED
  BY <1>9, <1>11, <1>16, <1>17 DEF l

\* The bytes that the names of a few groups stand for.
LEMMA TotalFacts ==
    /\ \A x \in Ops : <<x>> \in Seq(Ops) /\ <<x>> # <<>> /\ Total(<<x>>) = Width[x]
    /\ \A x, y \in Ops : /\ <<x, y>> \in Seq(Ops) /\ <<x, y>> # <<>>
                         /\ Total(<<x, y>>) = Width[x] + Width[y]
    /\ \A x, y, z \in Ops : /\ <<x, y, z>> \in Seq(Ops) /\ <<x, y, z>> # <<>>
                            /\ Total(<<x, y, z>>) = (Width[x] + Width[y]) + Width[z]
<1>1. Width \in [Ops -> Nat]
  BY WidthFacts
<1>2. ASSUME NEW ops \in Seq(Ops)
      PROVE  /\ Offsets(ops, Width)[1] = 0
             /\ \A k \in 1 .. Len(ops) :
                  Offsets(ops, Width)[k + 1] = Offsets(ops, Width)[k] + Width[ops[k]]
  BY <1>1, OffsetsFacts
<1>3. ASSUME NEW x \in Ops PROVE <<x>> \in Seq(Ops) /\ <<x>> # <<>> /\ Total(<<x>>) = Width[x]
  <2> DEFINE o == <<x>>
  <2>1. o \in Seq(Ops) /\ o # <<>> /\ Len(o) = 1 /\ o[1] = x /\ Width[x] \in Nat
    BY <1>1
  <2> HIDE DEF o
  <2>2. Offsets(o, Width)[1 + 1] = Offsets(o, Width)[1] + Width[o[1]] /\ Offsets(o, Width)[1] = 0
    BY <1>2, <2>1
  <2>3. Total(o) = Width[x]
    BY <2>1, <2>2 DEF Total
  <2> QED
    BY <2>1, <2>3 DEF o
<1>4. ASSUME NEW x \in Ops, NEW y \in Ops
      PROVE  <<x, y>> \in Seq(Ops) /\ <<x, y>> # <<>> /\ Total(<<x, y>>) = Width[x] + Width[y]
  <2> DEFINE o == <<x, y>>
  <2>1. /\ o \in Seq(Ops) /\ o # <<>> /\ Len(o) = 2 /\ o[1] = x /\ o[2] = y
        /\ Width[x] \in Nat /\ Width[y] \in Nat
    BY <1>1
  <2> HIDE DEF o
  <2>2. /\ Offsets(o, Width)[2] = Offsets(o, Width)[1] + Width[o[1]]
        /\ Offsets(o, Width)[3] = Offsets(o, Width)[2] + Width[o[2]]
        /\ Offsets(o, Width)[1] = 0
    <3>1. 1 \in 1 .. Len(o) /\ 2 \in 1 .. Len(o) /\ 1 + 1 = 2 /\ 2 + 1 = 3
      BY <2>1
    <3> QED
      BY <1>2, <2>1, <3>1
  <2>3. Total(o) = Offsets(o, Width)[3]
    BY <2>1 DEF Total
  <2>4. Total(o) = Width[x] + Width[y]
    BY <2>1, <2>2, <2>3
  <2> QED
    BY <2>1, <2>4 DEF o
<1>5. ASSUME NEW x \in Ops, NEW y \in Ops, NEW z \in Ops
      PROVE  /\ <<x, y, z>> \in Seq(Ops) /\ <<x, y, z>> # <<>>
             /\ Total(<<x, y, z>>) = (Width[x] + Width[y]) + Width[z]
  <2> DEFINE o == <<x, y, z>>
  <2>1. /\ o \in Seq(Ops) /\ o # <<>> /\ Len(o) = 3 /\ o[1] = x /\ o[2] = y /\ o[3] = z
        /\ Width[x] \in Nat /\ Width[y] \in Nat /\ Width[z] \in Nat
    BY <1>1
  <2> HIDE DEF o
  <2>2. /\ Offsets(o, Width)[2] = Offsets(o, Width)[1] + Width[o[1]]
        /\ Offsets(o, Width)[3] = Offsets(o, Width)[2] + Width[o[2]]
        /\ Offsets(o, Width)[4] = Offsets(o, Width)[3] + Width[o[3]]
        /\ Offsets(o, Width)[1] = 0
    <3>1. /\ 1 \in 1 .. Len(o) /\ 2 \in 1 .. Len(o) /\ 3 \in 1 .. Len(o)
          /\ 1 + 1 = 2 /\ 2 + 1 = 3 /\ 3 + 1 = 4
      BY <2>1
    <3> QED
      BY <1>2, <2>1, <3>1
  <2>3. Total(o) = Offsets(o, Width)[4]
    BY <2>1 DEF Total
  <2>4. Total(o) = (Width[x] + Width[y]) + Width[z]
    BY <2>1, <2>2, <2>3
  <2> QED
    BY <2>1, <2>4 DEF o
<1> QED
  BY <1>3, <1>4, <1>5

\* Two and three put together.
LEMMA TupleFacts ==
    ASSUME NEW S
    PROVE  /\ \A x, y \in S : <<x>> \o <<y>> = <<x, y>>
           /\ \A x, y, z \in S : <<x, y>> \o <<z>> = <<x, y, z>>
<1>1. ASSUME NEW x \in S, NEW y \in S PROVE <<x>> \o <<y>> = <<x, y>>
  <2> DEFINE a == <<x>>
             b == <<y>>
             c == <<x, y>>
  <2>1. /\ a \in Seq(S) /\ b \in Seq(S) /\ c \in Seq(S) /\ Len(a) = 1 /\ Len(b) = 1 /\ Len(c) = 2
        /\ a[1] = x /\ b[1] = y /\ c[1] = x /\ c[2] = y
    OBVIOUS
  <2> HIDE DEF a, b, c
  <2>2. /\ a \o b \in Seq(S) /\ Len(a \o b) = 2
        /\ \A i \in 1 .. 2 : (a \o b)[i] = IF i <= 1 THEN a[i] ELSE b[i - 1]
    BY <2>1, ConcatProperties
  <2>3. (a \o b)[1] = x /\ (a \o b)[2] = y
    BY <2>1, <2>2
  <2>4. a \o b = c
    BY <2>1, <2>2, <2>3, SeqEqual
  <2> QED
    BY <2>4 DEF a, b, c
<1>2. ASSUME NEW x \in S, NEW y \in S, NEW z \in S PROVE <<x, y>> \o <<z>> = <<x, y, z>>
  <2> DEFINE a == <<x, y>>
             b == <<z>>
             c == <<x, y, z>>
  <2>1. /\ a \in Seq(S) /\ b \in Seq(S) /\ c \in Seq(S) /\ Len(a) = 2 /\ Len(b) = 1 /\ Len(c) = 3
        /\ a[1] = x /\ a[2] = y /\ b[1] = z /\ c[1] = x /\ c[2] = y /\ c[3] = z
    OBVIOUS
  <2> HIDE DEF a, b, c
  <2>2. /\ a \o b \in Seq(S) /\ Len(a \o b) = 3
        /\ \A i \in 1 .. 3 : (a \o b)[i] = IF i <= 2 THEN a[i] ELSE b[i - 2]
    <3>1. /\ a \o b \in Seq(S) /\ Len(a \o b) = Len(a) + Len(b)
          /\ \A i \in 1 .. Len(a) + Len(b) : (a \o b)[i] = IF i <= Len(a) THEN a[i] ELSE b[i - Len(a)]
      BY <2>1, ConcatProperties
    <3>2. Len(a) + Len(b) = 3
      BY <2>1
    <3> QED
      BY ONLY <2>1, <3>1, <3>2
  <2>3. (a \o b)[1] = x /\ (a \o b)[2] = y /\ (a \o b)[3] = z
    BY <2>1, <2>2
  <2>4. a \o b = c
    BY <2>1, <2>2, <2>3, SeqEqual
  <2> QED
    BY <2>4 DEF a, b, c
<1> QED
  BY <1>1, <1>2

\* The last groups have the bytes that fill no QUAD.
LEMMA TailFacts ==
    ASSUME NEW n \in Nat, n % 8 > 0
    PROVE  Tail8(n) \in Seq(Ops) /\ Tail8(n) # <<>> /\ Total(Tail8(n)) = n % 8
<1>1. /\ "BYTE" \in Ops /\ "WORD" \in Ops /\ "LONG" \in Ops
      /\ Width["BYTE"] = 1 /\ Width["WORD"] = 2 /\ Width["LONG"] = 4
  BY DEF Ops, Width
<1> DEFINE a == n % 8 >= 4
           b == n % 4 >= 2
           c == n % 2 = 1
<1>2. /\ n % 8 \in Nat
      /\ n % 8 = (IF a THEN 4 ELSE 0) + (IF b THEN 2 ELSE 0) + (IF c THEN 1 ELSE 0)
  OBVIOUS
<1>3. Tail8(n) = (IF a THEN <<"LONG">> ELSE <<>>) \o (IF b THEN <<"WORD">> ELSE <<>>)
                   \o (IF c THEN <<"BYTE">> ELSE <<>>)
  BY DEF Tail8
<1> HIDE DEF a, b, c
<1>4. CASE a /\ b /\ c
  <2>1. Tail8(n) = <<"LONG", "WORD", "BYTE">>
    <3>1. Tail8(n) = <<"LONG">> \o <<"WORD">> \o <<"BYTE">>
      BY <1>3, <1>4
    <3>2. <<"LONG">> \o <<"WORD">> = <<"LONG", "WORD">>
      BY <1>1, TupleFacts
    <3>3. <<"LONG", "WORD">> \o <<"BYTE">> = <<"LONG", "WORD", "BYTE">>
      BY <1>1, TupleFacts
    <3> QED
      BY <3>1, <3>2, <3>3
  <2>2. n % 8 = 7
    BY <1>2, <1>4
  <2> QED
    BY <1>1, <2>1, <2>2, TotalFacts
<1>5. CASE a /\ b /\ ~ c
  <2>1. Tail8(n) = <<"LONG", "WORD">> /\ n % 8 = 6
    BY <1>1, <1>2, <1>3, <1>5, TupleFacts
  <2> QED
    BY <1>1, <2>1, TotalFacts
<1>6. CASE a /\ ~ b /\ c
  <2>1. Tail8(n) = <<"LONG", "BYTE">> /\ n % 8 = 5
    BY <1>1, <1>2, <1>3, <1>6, TupleFacts
  <2> QED
    BY <1>1, <2>1, TotalFacts
<1>7. CASE a /\ ~ b /\ ~ c
  <2>1. Tail8(n) = <<"LONG">> /\ n % 8 = 4
    BY <1>2, <1>3, <1>7
  <2> QED
    BY <1>1, <2>1, TotalFacts
<1>8. CASE ~ a /\ b /\ c
  <2>1. Tail8(n) = <<"WORD", "BYTE">> /\ n % 8 = 3
    BY <1>1, <1>2, <1>3, <1>8, TupleFacts
  <2> QED
    BY <1>1, <2>1, TotalFacts
<1>9. CASE ~ a /\ b /\ ~ c
  <2>1. Tail8(n) = <<"WORD">> /\ n % 8 = 2
    BY <1>2, <1>3, <1>9
  <2> QED
    BY <1>1, <2>1, TotalFacts
<1>10. CASE ~ a /\ ~ b /\ c
  <2>1. Tail8(n) = <<"BYTE">> /\ n % 8 = 1
    BY <1>2, <1>3, <1>10
  <2> QED
    BY <1>1, <2>1, TotalFacts
<1>11. CASE ~ a /\ ~ b /\ ~ c
  BY <1>2, <1>11
<1> QED
  BY <1>4, <1>5, <1>6, <1>7, <1>8, <1>9, <1>10, <1>11

\* A line of compacted code, at its place among the bytes.
LEMMA CodeLineAt ==
    ASSUME NEW s \in Seq(Byte), NEW i \in 0 .. Len(s), NEW ops \in Seq(Ops), ops # <<>>,
           Total(ops) \in Nat \ {0}, i + Total(ops) <= Len(s)
    PROVE  /\ CodeLine(SubSeq(s, i + 1, Len(s)), ops) \in OutputLine
           /\ OpcodeLine(CodeLine(SubSeq(s, i + 1, Len(s)), ops))
           /\ CodeLine(SubSeq(s, i + 1, Len(s)), ops).comment = "none"
           /\ Len(LineBytes(CodeLine(SubSeq(s, i + 1, Len(s)), ops))) = Total(ops)
           /\ Meaning("amd64", CodeLine(SubSeq(s, i + 1, Len(s)), ops))
                = Sent(SubSeq(s, i + 1, i + Total(ops)))
<1> DEFINE u == SubSeq(s, i + 1, Len(s))
           w == Total(ops)
<1>1. Len(s) \in Nat /\ i \in Nat /\ w \in Nat /\ w # 0 /\ i + w <= Len(s) /\ i < Len(s)
  BY LenProperties
<1>2. /\ i + 1 \in 1 .. Len(s) + 1 /\ Len(s) \in (i + 1) - 1 .. Len(s)
      /\ i + 1 \in 1 .. Len(s) /\ Len(s) \in 1 .. Len(s)
      /\ 1 \in 1 .. (Len(s) - (i + 1)) + 1 /\ w \in 1 .. (Len(s) - (i + 1)) + 1
      /\ ((i + 1) + 1) - 1 = i + 1 /\ ((i + 1) + w) - 1 = i + w
      /\ 1 \in 1 .. (Len(s) - i) + 1 /\ w \in 1 - 1 .. Len(s) - i /\ (w - 1) + 1 = w
  BY <1>1
<1>3. u \in Seq(Byte) /\ Len(u) = Len(s) - i
  <2>1. u \in Seq(Byte) /\ Len(u) = (Len(s) - (i + 1)) + 1
    BY <1>2, SentSub
  <2> QED
    BY <1>1, <2>1
<1>4. SubSeq(u, 1, w) = SubSeq(s, i + 1, i + w)
  <2>1. SubSeq(u, 1, w) = SubSeq(s, ((i + 1) + 1) - 1, ((i + 1) + w) - 1)
    BY <1>2, SubSeqOfSubSeq
  <2> QED
    BY <1>2, <2>1
<1> HIDE DEF u
<1>5. w <= Len(u)
  BY <1>1, <1>3
<1>6. /\ CodeLine(u, ops) \in OutputLine /\ OpcodeLine(CodeLine(u, ops))
      /\ CodeLine(u, ops).comment = "none"
      /\ LineBytes(CodeLine(u, ops)) = SubSeq(u, 1, w)
      /\ Meaning("amd64", CodeLine(u, ops)) = Sent(SubSeq(u, 1, w))
  BY <1>3, <1>5, CodeLineFacts
<1>7. Len(SubSeq(u, 1, w)) = w
  <2>1. 1 \in 1 .. Len(u) + 1 /\ w \in 1 - 1 .. Len(u)
    BY <1>2, <1>3
  <2>2. Len(SubSeq(u, 1, w)) = (w - 1) + 1
    BY <1>3, <2>1, SentSub
  <2> QED
    BY <1>2, <2>2
<1> QED
  BY <1>4, <1>6, <1>7 DEF u

-----------------------------------------------------------------------------
(***************************************************************************)
(* Lines of output.                                                        *)
(***************************************************************************)
Meanings(target, lines) == [k \in 1 .. Len(lines) |-> Meaning(target, lines[k])]

\* The stream of a sequence of lines is that of its parts.
LEMMA StreamFacts ==
    ASSUME NEW target \in Targets
    PROVE  /\ Stream(target, <<>>) = <<>>
           /\ \A s \in Seq(OutputLine) :
                /\ Stream(target, s) \in Seq(Symbol) /\ Stream(target, s) = FlattenSeq(Meanings(target, s))
                /\ Meanings(target, s) \in Seq(Seq(Symbol))
           /\ \A l \in OutputLine : Stream(target, <<l>>) = Meaning(target, l)
<1>1. ASSUME NEW s \in Seq(OutputLine)
      PROVE  /\ Stream(target, s) \in Seq(Symbol) /\ Stream(target, s) = FlattenSeq(Meanings(target, s))
             /\ Meanings(target, s) \in Seq(Seq(Symbol)) /\ Len(Meanings(target, s)) = Len(s)
  <2>1. Len(s) \in Nat /\ DOMAIN s = 1 .. Len(s) /\ \A k \in 1 .. Len(s) : s[k] \in OutputLine
    BY LenProperties, ElementOfSeq
  <2>2. Meanings(target, s) \in [1 .. Len(s) -> Seq(Symbol)]
    BY <2>1, MeaningFacts DEF Meanings
  <2>3. Meanings(target, s) \in Seq(Seq(Symbol)) /\ Len(Meanings(target, s)) = Len(s)
    BY <2>1, <2>2
  <2>4. Stream(target, s) = FlattenSeq(Meanings(target, s))
    BY <2>1 DEF Stream, Meanings
  <2> QED
    BY <2>3, <2>4, FlattenFacts
<1>2. Stream(target, <<>>) = <<>>
  <2>1. <<>> \in Seq(OutputLine) /\ Len(<<>>) = 0
    BY EmptySeq
  <2>2. Meanings(target, <<>>) = <<>>
    BY <2>1 DEF Meanings
  <2> QED
    BY <1>1, <2>1, <2>2, FlattenFacts
<1>3. ASSUME NEW l \in OutputLine PROVE Stream(target, <<l>>) = Meaning(target, l)
  <2> DEFINE s == <<l>>
             x == Meaning(target, l)
  <2>1. s \in Seq(OutputLine) /\ Len(s) = 1 /\ s[1] = l
    OBVIOUS
  <2>2. x \in Seq(Symbol)
    BY MeaningFacts
  <2> HIDE DEF s
  <2>3. Meanings(target, s)[1] = x
    BY <2>1 DEF Meanings
  <2> HIDE DEF x
  <2>4. FlattenSeq(Meanings(target, s)) = x
    <3> DEFINE mm == Meanings(target, s)
    <3>1. mm \in Seq(Seq(Symbol)) /\ Len(mm) = 1 /\ mm[1] = x
      BY <1>1, <2>1, <2>3
    <3> HIDE DEF mm
    <3>2. /\ FlattenSeq(mm) = IF Len(mm) = 0 THEN <<>> ELSE Joined(mm)[Len(mm)]
          /\ \A i \in 1 .. Len(mm) : Joined(mm)[i] = IF i = 1 THEN mm[i] ELSE Joined(mm)[i - 1] \o mm[i]
      BY <3>1, JoinedFacts
    <3>3. Joined(mm)[1] = mm[1]
      BY <3>1, <3>2
    <3> QED
      BY <3>1, <3>2, <3>3 DEF mm
  <2> QED
    BY <1>1, <2>1, <2>4 DEF s, x
<1> QED
  BY <1>1, <1>2, <1>3

LEMMA StreamConcat ==
    ASSUME NEW target \in Targets, NEW s \in Seq(OutputLine), NEW u \in Seq(OutputLine)
    PROVE  Stream(target, s \o u) = Stream(target, s) \o Stream(target, u)
<1> DEFINE a == Meanings(target, s)
           b == Meanings(target, u)
           c == Meanings(target, s \o u)
<1>1. /\ s \o u \in Seq(OutputLine) /\ Len(s \o u) = Len(s) + Len(u) /\ Len(s) \in Nat /\ Len(u) \in Nat
      /\ \A i \in 1 .. Len(s) + Len(u) : (s \o u)[i] = IF i <= Len(s) THEN s[i] ELSE u[i - Len(s)]
  BY ConcatProperties, LenProperties
<1>2. /\ a \in Seq(Seq(Symbol)) /\ b \in Seq(Seq(Symbol)) /\ c \in Seq(Seq(Symbol))
      /\ Stream(target, s) = FlattenSeq(a) /\ Stream(target, u) = FlattenSeq(b)
      /\ Stream(target, s \o u) = FlattenSeq(c)
  BY <1>1, StreamFacts
<1>3. /\ Len(a) = Len(s) /\ Len(b) = Len(u) /\ Len(c) = Len(s) + Len(u)
      /\ \A i \in 1 .. Len(s) : a[i] = Meaning(target, s[i])
      /\ \A i \in 1 .. Len(u) : b[i] = Meaning(target, u[i])
      /\ \A i \in 1 .. Len(s) + Len(u) : c[i] = Meaning(target, (s \o u)[i])
  BY <1>1, <1>2, LenProperties DEF Meanings
<1> HIDE DEF a, b, c
<1>4. /\ a \o b \in Seq(Seq(Symbol)) /\ Len(a \o b) = Len(a) + Len(b)
      /\ \A i \in 1 .. Len(a) + Len(b) : (a \o b)[i] = IF i <= Len(a) THEN a[i] ELSE b[i - Len(a)]
  BY <1>2, ConcatProperties
<1>5. ASSUME NEW i \in 1 .. Len(s) + Len(u) PROVE c[i] = (a \o b)[i]
  <2>1. CASE i <= Len(s)
    <3>1. i \in 1 .. Len(s)
      BY <1>1, <2>1
    <3> QED
      BY <1>1, <1>3, <1>4, <2>1, <3>1
  <2>2. CASE ~ (i <= Len(s))
    <3>1. i - Len(s) \in 1 .. Len(u)
      BY <1>1, <2>2
    <3> QED
      BY <1>1, <1>3, <1>4, <2>2, <3>1, ZenonT(40)
  <2> QED
    BY <2>1, <2>2
<1>6. c = a \o b
  BY <1>2, <1>3, <1>4, <1>5, SeqEqual
<1>7. FlattenSeq(a \o b) = FlattenSeq(a) \o FlattenSeq(b)
  BY <1>2, FlattenConcat
<1> QED
  BY <1>2, <1>6, <1>7

\* What Dense says of neighbours.
Fits(l, r) ==
    OpcodeLine(l) /\ OpcodeLine(r) =>
        Len(LineBytes(l)) = 16 \/ (Len(LineBytes(l)) = 8 /\ Len(LineBytes(r)) < 8)

LEMMA DenseFits ==
    ASSUME NEW s
    PROVE  Dense(s) <=> \A k \in 1 .. Len(s) - 1 : Fits(s[k], s[k + 1])
BY DEF Dense, Fits

LEMMA DenseConcat ==
    ASSUME NEW s \in Seq(OutputLine), NEW u \in Seq(OutputLine), Dense(s), Dense(u),
           s # <<>> /\ u # <<>> => Fits(s[Len(s)], u[1])
    PROVE  Dense(s \o u)
<1>1. /\ Len(s \o u) = Len(s) + Len(u) /\ Len(s) \in Nat /\ Len(u) \in Nat
      /\ \A i \in 1 .. Len(s) + Len(u) : (s \o u)[i] = IF i <= Len(s) THEN s[i] ELSE u[i - Len(s)]
  BY ConcatProperties, LenProperties
<1>2. /\ \A k \in 1 .. Len(s) - 1 : Fits(s[k], s[k + 1])
      /\ \A k \in 1 .. Len(u) - 1 : Fits(u[k], u[k + 1])
  BY DenseFits
<1>3. ASSUME NEW k \in 1 .. (Len(s) + Len(u)) - 1 PROVE Fits((s \o u)[k], (s \o u)[k + 1])
  <2>0. k \in 1 .. Len(s) + Len(u) /\ k + 1 \in 1 .. Len(s) + Len(u)
    BY <1>1
  <2>1. CASE k < Len(s)
    <3>1. k \in 1 .. Len(s) - 1 /\ k <= Len(s) /\ k + 1 <= Len(s)
      BY <1>1, <2>1
    <3>2. (s \o u)[k] = s[k] /\ (s \o u)[k + 1] = s[k + 1]
      BY <1>1, <2>0, <3>1
    <3> QED
      BY <1>2, <3>1, <3>2
  <2>2. CASE k = Len(s)
    <3>1. k <= Len(s) /\ ~ (k + 1 <= Len(s)) /\ (k + 1) - Len(s) = 1 /\ Len(s) # 0 /\ Len(u) # 0
      BY <1>1, <2>2
    <3>2. (s \o u)[k] = s[Len(s)] /\ (s \o u)[k + 1] = u[1]
      BY <1>1, <2>0, <2>2, <3>1
    <3>3. s # <<>> /\ u # <<>>
      BY <3>1, EmptySeq
    <3> QED
      BY <3>2, <3>3
  <2>3. CASE k > Len(s)
    <3>1. /\ k - Len(s) \in 1 .. Len(u) - 1 /\ ~ (k <= Len(s)) /\ ~ (k + 1 <= Len(s))
          /\ (k + 1) - Len(s) = (k - Len(s)) + 1
      BY <1>1, <2>3
    <3>2. (s \o u)[k] = u[k - Len(s)] /\ (s \o u)[k + 1] = u[(k - Len(s)) + 1]
      BY <1>1, <2>0, <3>1
    <3> QED
      BY <1>2, <3>1, <3>2
  <2> QED
    BY <1>1, <2>1, <2>2, <2>3
<1> QED
  BY <1>1, <1>3, DenseFits

LEMMA BareConcat ==
    ASSUME NEW s \in Seq(OutputLine), NEW u \in Seq(OutputLine), Bare(s), Bare(u)
    PROVE  Bare(s \o u)
<1>1. /\ Len(s \o u) = Len(s) + Len(u) /\ Len(s) \in Nat /\ Len(u) \in Nat
      /\ \A i \in 1 .. Len(s) + Len(u) : (s \o u)[i] = IF i <= Len(s) THEN s[i] ELSE u[i - Len(s)]
  BY ConcatProperties, LenProperties
<1>2. ASSUME NEW i \in 1 .. Len(s) + Len(u), OpcodeLine((s \o u)[i]) PROVE (s \o u)[i].comment = "none"
  <2>1. CASE i <= Len(s)
    <3>1. i \in 1 .. Len(s) /\ (s \o u)[i] = s[i]
      BY <1>1, <2>1
    <3> QED
      BY <1>2, <3>1 DEF Bare
  <2>2. CASE ~ (i <= Len(s))
    <3>1. i - Len(s) \in 1 .. Len(u) /\ (s \o u)[i] = u[i - Len(s)]
      BY <1>1, <2>2
    <3> QED
      BY <1>2, <3>1 DEF Bare
  <2> QED
    BY <2>1, <2>2
<1> QED
  BY <1>1, <1>2 DEF Bare

\* What a line of compacted code is: n bytes of code that go out as x.
Codes(l, n, x) ==
    /\ l \in OutputLine /\ OpcodeLine(l) /\ l.comment = "none"
    /\ Len(LineBytes(l)) = n /\ Meaning("amd64", l) = x

\* No line, or one line, of compacted code.
LEMMA OneLine ==
    ASSUME NEW n \in Nat, NEW x \in Seq(Symbol), NEW l, Codes(l, n, x)
    PROVE  /\ <<l>> \in Seq(OutputLine) /\ Len(<<l>>) = 1 /\ <<l>>[1] = l
           /\ Dense(<<l>>) /\ Bare(<<l>>) /\ Stream("amd64", <<l>>) = x
<1> DEFINE s == <<l>>
<1>1. s \in Seq(OutputLine) /\ Len(s) = 1 /\ s[1] = l /\ l \in OutputLine
  BY DEF Codes
<1>2. Stream("amd64", s) = x
  BY <1>1, StreamFacts DEF Codes, Targets
<1> HIDE DEF s
<1>3. Dense(s) /\ Bare(s)
  BY <1>1 DEF Dense, Bare, Codes
<1> QED
  BY <1>1, <1>2, <1>3 DEF s

LEMMA NoLine ==
    /\ <<>> \in Seq(OutputLine) /\ Dense(<<>>) /\ Bare(<<>>) /\ Stream("amd64", <<>>) = <<>>
    /\ Len(<<>>) = 0
<1>1. <<>> \in Seq(OutputLine) /\ Len(<<>>) = 0
  BY EmptySeq
<1>2. Stream("amd64", <<>>) = <<>>
  BY StreamFacts DEF Targets
<1> QED
  BY <1>1, <1>2 DEF Dense, Bare

\* The lines of sixteen bytes.
Full(b) ==
    [k \in 1 .. (Len(b) \div 16) |-> CodeLine(SubSeq(b, 16 * (k - 1) + 1, Len(b)), <<"QUAD", "QUAD">>)]

LEMMA FullFacts ==
    ASSUME NEW b \in Seq(Byte)
    PROVE  /\ Full(b) \in Seq(OutputLine) /\ Len(Full(b)) = Len(b) \div 16
           /\ \A k \in 1 .. (Len(b) \div 16) : Len(LineBytes(Full(b)[k])) = 16
           /\ Dense(Full(b)) /\ Bare(Full(b))
           /\ Stream("amd64", Full(b)) = Sent(SubSeq(b, 1, 16 * (Len(b) \div 16)))
<1> DEFINE q == Len(b) \div 16
           f == Full(b)
           c == [k \in 1 .. q + 1 |-> 16 * (k - 1)]
           ss == Pieces(b, c, q)
<1>1. Len(b) \in Nat /\ q \in Nat /\ 16 * q <= Len(b)
  <2>1. Len(b) \in Nat
    BY LenProperties
  <2> QED
    BY <2>1
<1>2. <<"QUAD", "QUAD">> \in Seq(Ops) /\ <<"QUAD", "QUAD">> # <<>> /\ Total(<<"QUAD", "QUAD">>) = 16
  <2>1. "QUAD" \in Ops /\ Width["QUAD"] = 8
    BY DEF Ops, Width
  <2> QED
    BY <2>1, TotalFacts
<1> HIDE DEF q
<1>3. ASSUME NEW k \in 1 .. q
      PROVE  Codes(f[k], 16, Sent(ss[k]))
  <2>1. /\ 16 * (k - 1) \in 0 .. Len(b) /\ 16 * (k - 1) + 16 <= Len(b) /\ 16 * (k - 1) + 16 = 16 * k
        /\ k \in 1 .. q + 1 /\ k + 1 \in 1 .. q + 1 /\ 16 * ((k + 1) - 1) = 16 * k
    BY <1>1
  <2>2. f[k] = CodeLine(SubSeq(b, 16 * (k - 1) + 1, Len(b)), <<"QUAD", "QUAD">>)
    BY DEF Full, q
  <2>3. Codes(f[k], 16, Sent(SubSeq(b, 16 * (k - 1) + 1, 16 * (k - 1) + 16)))
    <3> DEFINE i == 16 * (k - 1)
               o == <<"QUAD", "QUAD">>
    <3>1. /\ i \in 0 .. Len(b) /\ o \in Seq(Ops) /\ o # <<>> /\ Total(o) \in Nat \ {0}
          /\ i + Total(o) <= Len(b) /\ Total(o) = 16
      BY <1>2, <2>1
    <3> HIDE DEF i, o
    <3>2. /\ CodeLine(SubSeq(b, i + 1, Len(b)), o) \in OutputLine
          /\ OpcodeLine(CodeLine(SubSeq(b, i + 1, Len(b)), o))
          /\ CodeLine(SubSeq(b, i + 1, Len(b)), o).comment = "none"
          /\ Len(LineBytes(CodeLine(SubSeq(b, i + 1, Len(b)), o))) = Total(o)
          /\ Meaning("amd64", CodeLine(SubSeq(b, i + 1, Len(b)), o)) = Sent(SubSeq(b, i + 1, i + Total(o)))
      BY <3>1, CodeLineAt
    <3> QED
      BY <2>2, <3>1, <3>2 DEF Codes, i, o
  <2>4. ss[k] = SubSeq(b, 16 * (k - 1) + 1, 16 * k)
    BY <2>1 DEF Pieces
  <2> QED
    BY <2>1, <2>3, <2>4
<1>4. /\ FlattenSeq(ss) = SubSeq(b, 1, 16 * q) /\ ss \in Seq(Seq(Byte)) /\ Len(ss) = q
  <2>1. c \in [1 .. q + 1 -> 0 .. Len(b)] /\ c[1] = 0 /\ c[q + 1] = 16 * q
    BY <1>1
  <2>2. \A i \in 1 .. q : c[i] <= c[i + 1]
    BY <1>1
  <2> HIDE DEF c
  <2>3. FlattenSeq(ss) = SubSeq(b, c[1] + 1, c[q + 1]) /\ ss \in Seq(Seq(Byte))
    BY ONLY b \in Seq(Byte), <1>1, <2>1, <2>2, CutsJoin
  <2>4. c[1] + 1 = 1
    BY <2>1
  <2>5. Len(ss) = q
    BY <1>1 DEF Pieces
  <2> HIDE DEF ss
  <2> QED
    BY <2>1, <2>3, <2>4, <2>5
<1> HIDE DEF ss, c
<1>5. f \in Seq(OutputLine) /\ Len(f) = q
  <2>1. DOMAIN f = 1 .. q /\ f = [k \in 1 .. q |-> f[k]]
    BY DEF Full, q
  <2>2. \A k \in 1 .. q : f[k] \in OutputLine
    BY <1>3 DEF Codes
  <2> HIDE DEF f
  <2>3. f \in [1 .. q -> OutputLine]
    BY <2>1, <2>2
  <2> QED
    BY <1>1, <2>3
<1> HIDE DEF f
<1>6. Dense(f) /\ Bare(f) /\ \A k \in 1 .. q : Len(LineBytes(f[k])) = 16
  BY <1>1, <1>3, <1>5 DEF Dense, Bare, Codes
<1>7. Meanings("amd64", f) = SentEach(ss)
  BY <1>3, <1>4, <1>5 DEF Meanings, SentEach, Codes
<1>8. Stream("amd64", f) = Sent(SubSeq(b, 1, 16 * q))
  <2>1. Stream("amd64", f) = FlattenSeq(Meanings("amd64", f))
    BY <1>5, StreamFacts DEF Targets
  <2> QED
    BY <1>4, <1>7, <2>1, SentFlatten
<1> QED
  BY <1>5, <1>6, <1>8 DEF f, q

\* compactByteArray keeps the bytes, in lines that fill up before a new one begins.
LEMMA CompactedFacts ==
    ASSUME NEW b \in Seq(Byte)
    PROVE  /\ Compacted(b) \in Seq(OutputLine) /\ Dense(Compacted(b)) /\ Bare(Compacted(b))
           /\ Stream("amd64", Compacted(b)) = Sent(b)
<1> DEFINE n == Len(b)
           q == n \div 16
           e == n - (n % 8)
           F == Full(b)
           l8 == CodeLine(SubSeq(b, (n - (n % 16)) + 1, n), <<"QUAD">>)
           lt == CodeLine(SubSeq(b, e + 1, n), Tail8(n))
           E == IF n % 16 >= 8 THEN <<l8>> ELSE <<>>
           T == IF n % 8 > 0 THEN <<lt>> ELSE <<>>
<1>1. Compacted(b) = F \o E \o T
  BY DEF Compacted, Full
<1>2. /\ n \in Nat /\ q \in Nat /\ e \in Nat /\ 16 * q = n - (n % 16) /\ 16 * q <= e /\ e <= n
      /\ (n % 16 >= 8 => e = 16 * q + 8) /\ (~ (n % 16 >= 8) => e = 16 * q)
      /\ n % 8 \in 0 .. 7 /\ e + (n % 8) = n /\ 16 * q \in Nat
  <2>1. n \in Nat
    BY LenProperties
  <2> HIDE DEF n
  <2> QED
    BY <2>1
<1>3. /\ F \in Seq(OutputLine) /\ Len(F) = q
      /\ \A k \in 1 .. q : Len(LineBytes(F[k])) = 16
      /\ Dense(F) /\ Bare(F) /\ Stream("amd64", F) = Sent(SubSeq(b, 1, 16 * q))
  BY FullFacts
<1>4. ASSUME n % 16 >= 8 PROVE Codes(l8, 8, Sent(SubSeq(b, 16 * q + 1, e)))
  <2> DEFINE o == <<"QUAD">>
             i == n - (n % 16)
  <2>1. "QUAD" \in Ops /\ Width["QUAD"] = 8
    BY DEF Ops, Width
  <2>2. o \in Seq(Ops) /\ o # <<>> /\ Total(o) = 8
    BY <2>1, TotalFacts
  <2>3. i \in 0 .. Len(b) /\ i + 8 <= Len(b) /\ i = 16 * q /\ e = i + 8
    BY <1>2, <1>4
  <2>4. l8 = CodeLine(SubSeq(b, i + 1, Len(b)), o)
    OBVIOUS
  <2> HIDE DEF l8, o, i, e, n, q
  <2>5. /\ CodeLine(SubSeq(b, i + 1, Len(b)), o) \in OutputLine
        /\ OpcodeLine(CodeLine(SubSeq(b, i + 1, Len(b)), o))
        /\ CodeLine(SubSeq(b, i + 1, Len(b)), o).comment = "none"
        /\ Len(LineBytes(CodeLine(SubSeq(b, i + 1, Len(b)), o))) = Total(o)
        /\ Meaning("amd64", CodeLine(SubSeq(b, i + 1, Len(b)), o)) = Sent(SubSeq(b, i + 1, i + Total(o)))
    <3>1. Total(o) \in Nat \ {0} /\ i + Total(o) <= Len(b)
      BY <2>2, <2>3
    <3> QED
      BY <2>2, <2>3, <3>1, CodeLineAt
  <2> QED
    BY <2>2, <2>3, <2>4, <2>5 DEF Codes
<1>5. ASSUME n % 8 > 0 PROVE Codes(lt, n % 8, Sent(SubSeq(b, e + 1, n)))
  <2> DEFINE o == Tail8(n)
  <2>1. o \in Seq(Ops) /\ o # <<>> /\ Total(o) = n % 8 /\ Total(o) \in Nat \ {0}
    BY <1>2, <1>5, TailFacts
  <2>2. e \in 0 .. Len(b) /\ e + Total(o) <= Len(b) /\ e + Total(o) = n
    BY <1>2, <2>1
  <2>3. lt = CodeLine(SubSeq(b, e + 1, Len(b)), o)
    OBVIOUS
  <2> HIDE DEF lt, o, e, q
  <2>4. /\ CodeLine(SubSeq(b, e + 1, Len(b)), o) \in OutputLine
        /\ OpcodeLine(CodeLine(SubSeq(b, e + 1, Len(b)), o))
        /\ CodeLine(SubSeq(b, e + 1, Len(b)), o).comment = "none"
        /\ Len(LineBytes(CodeLine(SubSeq(b, e + 1, Len(b)), o))) = Total(o)
        /\ Meaning("amd64", CodeLine(SubSeq(b, e + 1, Len(b)), o)) = Sent(SubSeq(b, e + 1, e + Total(o)))
    BY <2>1, <2>2, CodeLineAt
  <2> QED
    BY <2>1, <2>2, <2>3, <2>4 DEF Codes
<1>6. /\ SubSeq(b, 1, 16 * q) \in Seq(Byte) /\ SubSeq(b, 16 * q + 1, e) \in Seq(Byte)
      /\ SubSeq(b, e + 1, n) \in Seq(Byte) /\ SubSeq(b, 1, e) \in Seq(Byte)
  <2> DEFINE m == 16 * q
  <2>1. m \in Nat /\ e \in Nat /\ n \in Nat /\ m <= e /\ e <= n /\ n = Len(b)
    BY <1>2
  <2> HIDE DEF m, e, n
  <2>2. /\ 1 \in 1 .. Len(b) + 1 /\ m + 1 \in 1 .. Len(b) + 1 /\ e + 1 \in 1 .. Len(b) + 1
        /\ m \in 1 - 1 .. Len(b) /\ e \in (m + 1) - 1 .. Len(b) /\ n \in (e + 1) - 1 .. Len(b)
        /\ e \in 1 - 1 .. Len(b)
    BY <2>1
  <2>3. /\ SubSeq(b, 1, m) \in Seq(Byte) /\ SubSeq(b, m + 1, e) \in Seq(Byte)
        /\ SubSeq(b, e + 1, n) \in Seq(Byte) /\ SubSeq(b, 1, e) \in Seq(Byte)
    BY <2>2, SentSub
  <2> QED
    BY <2>3 DEF m
<1>7. /\ E \in Seq(OutputLine) /\ Dense(E) /\ Bare(E)
      /\ Stream("amd64", E) = Sent(SubSeq(b, 16 * q + 1, e))
      /\ E # <<>> => Len(E) = 1 /\ Len(LineBytes(E[1])) = 8
  <2>1. CASE n % 16 >= 8
    <3>1. E = <<l8>> /\ Codes(l8, 8, Sent(SubSeq(b, 16 * q + 1, e)))
      BY <1>4, <2>1
    <3>2. Sent(SubSeq(b, 16 * q + 1, e)) \in Seq(Symbol)
      BY <1>6, SentFacts
    <3> HIDE DEF l8, E, e, q, n
    <3>3. /\ <<l8>> \in Seq(OutputLine) /\ Len(<<l8>>) = 1 /\ <<l8>>[1] = l8
          /\ Dense(<<l8>>) /\ Bare(<<l8>>) /\ Stream("amd64", <<l8>>) = Sent(SubSeq(b, 16 * q + 1, e))
      BY <3>1, <3>2, OneLine
    <3> QED
      BY <3>1, <3>3 DEF Codes
  <2>2. CASE ~ (n % 16 >= 8)
    <3>1. E = <<>> /\ e = 16 * q /\ e \in Nat
      BY <1>2, <2>2
    <3> HIDE DEF E, e, q, n
    <3>2. SubSeq(b, 16 * q + 1, e) = <<>>
      BY <3>1, SubSeqEmpty
    <3>3. Sent(<<>>) = <<>>
      BY EmptySeq DEF Sent
    <3> QED
      BY <3>1, <3>2, <3>3, NoLine
  <2> QED
    BY <2>1, <2>2
<1>8. /\ T \in Seq(OutputLine) /\ Dense(T) /\ Bare(T)
      /\ Stream("amd64", T) = Sent(SubSeq(b, e + 1, n))
      /\ T # <<>> => Len(LineBytes(T[1])) < 8
  <2>1. CASE n % 8 > 0
    <3>1. T = <<lt>> /\ Codes(lt, n % 8, Sent(SubSeq(b, e + 1, n))) /\ n % 8 \in Nat /\ n % 8 < 8
      BY <1>2, <1>5, <2>1
    <3>2. Sent(SubSeq(b, e + 1, n)) \in Seq(Symbol)
      BY <1>6, SentFacts
    <3> HIDE DEF lt, T, e, n
    <3>3. /\ <<lt>> \in Seq(OutputLine) /\ Len(<<lt>>) = 1 /\ <<lt>>[1] = lt
          /\ Dense(<<lt>>) /\ Bare(<<lt>>) /\ Stream("amd64", <<lt>>) = Sent(SubSeq(b, e + 1, n))
      BY <3>1, <3>2, OneLine
    <3> QED
      BY <3>1, <3>3 DEF Codes
  <2>2. CASE ~ (n % 8 > 0)
    <3>1. T = <<>> /\ e = n /\ n \in Nat
      BY <1>2, <2>2
    <3> HIDE DEF T, e, n
    <3>2. SubSeq(b, e + 1, n) = <<>>
      BY <3>1, SubSeqEmpty
    <3>3. Sent(<<>>) = <<>>
      BY EmptySeq DEF Sent
    <3> QED
      BY <3>1, <3>2, <3>3, NoLine
  <2> QED
    BY <2>1, <2>2
<1> HIDE DEF F, E, T, e, q, l8, lt
<1>9. F \o E \in Seq(OutputLine) /\ Dense(F \o E) /\ Bare(F \o E)
      /\ Stream("amd64", F \o E) = Sent(SubSeq(b, 1, e))
  <2>1. F \o E \in Seq(OutputLine)
    BY <1>3, <1>7, ConcatProperties
  <2>2. F # <<>> => Len(LineBytes(F[Len(F)])) = 16
    <3>1. F # <<>> => Len(F) \in 1 .. q
      BY <1>2, <1>3, EmptySeq
    <3> QED
      BY <1>3, <3>1
  <2>3. Dense(F \o E)
    BY <1>3, <1>7, <2>2, DenseConcat DEF Fits
  <2>4. Bare(F \o E)
    BY <1>3, <1>7, BareConcat
  <2>5. Stream("amd64", F \o E) = Sent(SubSeq(b, 1, 16 * q)) \o Sent(SubSeq(b, 16 * q + 1, e))
    BY <1>3, <1>7, StreamConcat DEF Targets
  <2>6. SubSeq(b, 1, 16 * q) \o SubSeq(b, 16 * q + 1, e) = SubSeq(b, 1, e)
    <3> DEFINE m == 16 * q
    <3>1. 1 \in 1 .. Len(b) + 1 /\ m \in 1 - 1 .. Len(b) /\ e \in m .. Len(b)
      BY <1>2 DEF n
    <3> HIDE DEF m
    <3>2. SubSeq(b, 1, m) \o SubSeq(b, m + 1, e) = SubSeq(b, 1, e)
      BY <3>1, ConcatAdjacentSubSeq
    <3> QED
      BY <3>2 DEF m
  <2> QED
    BY <1>6, <2>1, <2>3, <2>4, <2>5, <2>6, SentConcat
<1>10. ASSUME F \o E # <<>>, T # <<>> PROVE Fits((F \o E)[Len(F \o E)], T[1])
  <2>1. /\ Len(F \o E) = Len(F) + Len(E) /\ Len(F) \in Nat /\ Len(E) \in Nat
        /\ \A i \in 1 .. Len(F) + Len(E) : (F \o E)[i] = IF i <= Len(F) THEN F[i] ELSE E[i - Len(F)]
    BY <1>3, <1>7, ConcatProperties, LenProperties
  <2>2. Len(F) + Len(E) \in 1 .. Len(F) + Len(E)
    <3>1. Len(F \o E) # 0
      BY <1>9, <1>10, EmptySeq
    <3> QED
      BY <2>1, <3>1
  <2>3. CASE E = <<>>
    <3>1. Len(E) = 0
      BY <2>3, EmptySeq
    <3>2. (F \o E)[Len(F \o E)] = F[Len(F)] /\ Len(F) \in 1 .. q
      BY <1>2, <1>3, <2>1, <2>2, <3>1
    <3> QED
      BY <1>3, <3>2 DEF Fits
  <2>4. CASE E # <<>>
    <3>1. Len(E) = 1 /\ Len(LineBytes(E[1])) = 8 /\ Len(LineBytes(T[1])) < 8
      BY <1>7, <1>8, <1>10, <2>4
    <3>2. (F \o E)[Len(F \o E)] = E[1]
      BY <2>1, <2>2, <3>1
    <3> QED
      BY <3>1, <3>2 DEF Fits
  <2> QED
    BY <2>3, <2>4
<1>11. /\ F \o E \o T \in Seq(OutputLine) /\ Dense(F \o E \o T) /\ Bare(F \o E \o T)
       /\ Stream("amd64", F \o E \o T) = Sent(b)
  <2> DEFINE G == F \o E
  <2>1. G \in Seq(OutputLine) /\ Dense(G) /\ Bare(G) /\ Stream("amd64", G) = Sent(SubSeq(b, 1, e))
    BY <1>9
  <2>2. G # <<>> /\ T # <<>> => Fits(G[Len(G)], T[1])
    BY <1>10
  <2> HIDE DEF G
  <2>3. G \o T \in Seq(OutputLine) /\ Dense(G \o T) /\ Bare(G \o T)
    BY <1>8, <2>1, <2>2, ConcatProperties, DenseConcat, BareConcat
  <2>4. Stream("amd64", G \o T) = Sent(SubSeq(b, 1, e)) \o Sent(SubSeq(b, e + 1, n))
    BY <1>8, <2>1, StreamConcat DEF Targets
  <2>5. SubSeq(b, 1, e) \o SubSeq(b, e + 1, n) = b
    <3>1. 1 \in 1 .. Len(b) + 1 /\ e \in 1 - 1 .. Len(b) /\ n \in e .. Len(b) /\ n = Len(b)
      BY <1>2
    <3> HIDE DEF n
    <3>2. SubSeq(b, 1, e) \o SubSeq(b, e + 1, n) = SubSeq(b, 1, n)
      BY <3>1, ConcatAdjacentSubSeq
    <3> QED
      BY <3>1, <3>2, SubSeqFull
  <2>6. Sent(SubSeq(b, 1, e)) \o Sent(SubSeq(b, e + 1, n)) = Sent(b)
    BY <1>6, <2>5, SentConcat
  <2> QED
    BY <2>3, <2>4, <2>6 DEF G
<1> QED
  BY <1>1, <1>11

\* There is a pass after every pass, and none that was asked for in between.
LEMMA AfterFacts ==
    ASSUME command \in Commands, NEW p \in {"run"} \cup command.options
    PROVE  /\ After(p) \in command.options \cup {"end"} /\ Order[After(p)] > Order[p]
           /\ \A r \in command.options : Order[r] > Order[p] => Order[r] >= Order[After(p)]
<1> DEFINE O == command.options
           Next1(q) == /\ Order[q] > Order[p]
                       /\ \A r \in O : Order[r] > Order[p] => Order[r] >= Order[q]
<1>1. O \subseteq Options /\ p \in {"run"} \cup Options
  BY CommandsAssumption DEF Options
<1>2. /\ Order["run"] = 0 /\ Order["strip"] = 1 /\ Order["compact"] = 2
      /\ Order["format"] = 3 /\ Order["end"] = 4
  BY DEF Order
<1>3. \E q \in O \cup {"end"} : Next1(q)
  <2>1. CASE "strip" \in O /\ p = "run"
    BY <1>1, <1>2, <2>1 DEF Options
  <2>2. CASE "compact" \in O /\ (p = "strip" \/ (p = "run" /\ "strip" \notin O))
    BY <1>1, <1>2, <2>2 DEF Options
  <2>3. CASE /\ "format" \in O
             /\ \/ p = "compact" \/ (p = "strip" /\ "compact" \notin O)
                \/ (p = "run" /\ {"strip", "compact"} \cap O = {})
    BY <1>1, <1>2, <2>3 DEF Options
  <2>4. CASE \A r \in O : ~ (Order[r] > Order[p])
    BY <1>1, <1>2, <2>4 DEF Options
  <2> QED
    BY <1>1, <1>2, <2>1, <2>2, <2>3, <2>4 DEF Options
<1>4. After(p) = CHOOSE q \in O \cup {"end"} : Next1(q)
  BY DEF After
<1> HIDE DEF Next1
<1>5. Next1(After(p)) /\ After(p) \in O \cup {"end"}
  BY <1>3, <1>4
<1> QED
  BY <1>5 DEF Next1

LEMMA CommandFacts ==
    ASSUME NEW c \in Commands
    PROVE  /\ c.target \in Targets /\ c.options \subseteq Options
           /\ Output(c) \in Seq(OutputLine) /\ Done(c, Output(c), 0)
<1>1. /\ c.target \in Targets /\ c.options \subseteq Options
      /\ Output(c) \in Seq(OutputLine) /\ \A k \in DOMAIN Output(c) : AsWritten(c.target, Output(c)[k])
  BY CommandsAssumption DEF Targets, Options, Output
<1>2. Originals(c, Output(c)) /\ Trimmed(c, Output(c))
  BY <1>1, LenProperties DEF Originals, Trimmed
<1> QED
  BY <1>1, <1>2 DEF Done

\* The work of the passes so far is all that the next one may count on.
LEMMA DoneNext ==
    ASSUME command \in Commands, NEW p \in {"run"} \cup command.options, NEW lines,
           Done(command, lines, Order[p])
    PROVE  Done(command, lines, Order[After(p)] - 1)
<1>1. /\ After(p) \in command.options \cup {"end"} /\ Order[After(p)] > Order[p]
      /\ \A r \in command.options : Order[r] > Order[p] => Order[r] >= Order[After(p)]
      /\ command.options \subseteq Options
  BY AfterFacts, CommandFacts
<1>2. /\ Order["run"] = 0 /\ Order["strip"] = 1 /\ Order["compact"] = 2
      /\ Order["format"] = 3 /\ Order["end"] = 4
  BY DEF Order
<1>3. Order[p] \in 0 .. 3 /\ Order[After(p)] \in 1 .. 4
  BY <1>1, <1>2 DEF Options
<1>4. /\ Order[After(p)] - 1 = 0 => Order[p] = 0
      /\ "compact" \in command.options => (Order[After(p)] - 1 >= 2 <=> Order[p] >= 2)
  BY <1>1, <1>2, <1>3
<1> QED
  BY <1>4 DEF Done

\* A comment has no meaning to the assembler.
LEMMA StrippedMeaning ==
    ASSUME NEW l \in OutputLine, NEW target
    PROVE  /\ Stripped(l) \in OutputLine
           /\ Meaning(target, Stripped(l)) = Meaning(target, l)
           /\ AsWritten(target, l) => AsWritten(target, Stripped(l))
           /\ Stripped(l) = l \/ (Instruction(l) /\ Stripped(l) = Uncommented(l))
<1>1. Uncommented(l) \in OutputLine /\ Uncommented(l).parts = l.parts /\ Uncommented(l).text = l.text
  BY DEF OutputLine, Uncommented
<1>2. Stripped(l) = l \/ (Instruction(l) /\ Stripped(l) = Uncommented(l))
  BY DEF Stripped
<1>3. Stripped(l) \in OutputLine /\ Stripped(l).parts = l.parts /\ Stripped(l).text = l.text
  BY <1>1, <1>2
<1> QED
  BY <1>2, <1>3 DEF Meaning, AsWritten

\* Stripping comments leaves the machine code.
LEMMA StripFacts ==
    ASSUME NEW c \in Commands, "strip" \in c.options, NEW s \in Seq(OutputLine), Done(c, s, 0)
    PROVE  /\ [k \in DOMAIN s |-> Stripped(s[k])] \in Seq(OutputLine)
           /\ Done(c, [k \in DOMAIN s |-> Stripped(s[k])], 1)
<1> DEFINE u == [k \in DOMAIN s |-> Stripped(s[k])]
<1>1. DOMAIN s = 1 .. Len(s) /\ Len(s) \in Nat /\ \A k \in DOMAIN s : s[k] \in OutputLine
  BY LenProperties, ElementOfSeq
<1>2. \A k \in 1 .. Len(s) : u[k] = Stripped(s[k]) /\ u[k] \in OutputLine
  BY <1>1, StrippedMeaning
<1>3. u \in Seq(OutputLine) /\ Len(u) = Len(s)
  <2>1. u \in [1 .. Len(s) -> OutputLine]
    BY <1>1, <1>2
  <2> HIDE DEF u
  <2> QED
    BY <1>1, <2>1
<1> HIDE DEF u
<1>4. \A k \in 1 .. Len(s) : Meaning(c.target, u[k]) = Meaning(c.target, s[k])
  BY <1>1, <1>2, StrippedMeaning
<1>5. Meanings(c.target, u) = Meanings(c.target, s)
  BY <1>3, <1>4 DEF Meanings
<1>6. Stream(c.target, u) = Stream(c.target, s)
  BY <1>3, <1>5, StreamFacts, CommandFacts
<1>7. s = Output(c) /\ Originals(c, s)
  BY DEF Done
<1>8. Originals(c, u)
  BY <1>1, <1>2, <1>3, <1>7, StrippedMeaning DEF Originals
<1>9. Trimmed(c, u)
  <2> SUFFICES ASSUME NEW k \in 1 .. Len(s)
               PROVE  u[k] = s[k] \/ (Instruction(s[k]) /\ u[k] = Uncommented(s[k]))
    BY <1>3, <1>7 DEF Trimmed
  <2> QED
    BY <1>1, <1>2, StrippedMeaning
<1>10. Stream(c.target, s) = Stream(c.target, Output(c))
  BY <1>7
<1>11. Done(c, u, 1)
  BY <1>6, <1>8, <1>9, <1>10 DEF Done
<1> QED
  BY <1>3, <1>11 DEF u

-----------------------------------------------------------------------------
(***************************************************************************)
(* Compaction.                                                             *)
(***************************************************************************)
\* The bytes held back are written out.
LEMMA FlushFacts ==
    ASSUME NEW target \in Targets, NEW s \in Seq(OutputLine), NEW b \in Seq(Byte),
           NEW r \in Seq(OutputLine), Stands(target, s, b, r)
    PROVE  /\ s \o Compacted(b) \in Seq(OutputLine)
           /\ Stream(target, s \o Compacted(b)) = Stream(target, r)
           /\ Dense(s \o Compacted(b)) /\ Bare(s \o Compacted(b))
<1> DEFINE t == Compacted(b)
<1>1. t \in Seq(OutputLine) /\ Dense(t) /\ Bare(t) /\ Stream("amd64", t) = Sent(b)
  BY CompactedFacts
<1>2. Stream(target, t) = Sent(b)
  <2>1. CASE target = "amd64"
    BY <1>1, <2>1
  <2>2. CASE target # "amd64"
    <3>1. b = <<>>
      BY <2>2 DEF Stands
    <3>2. Sent(b) = <<>>
      BY <3>1, EmptySeq DEF Sent
    <3>3. t = <<>>
      <4>1. Len(b) = 0 /\ Len(b) \div 16 = 0 /\ ~ (Len(b) % 16 >= 8) /\ ~ (Len(b) % 8 > 0)
        BY <3>1
      <4>2. [k \in 1 .. Len(b) \div 16 |-> CodeLine(SubSeq(b, 16 * (k - 1) + 1, Len(b)), <<"QUAD", "QUAD">>)]
              = <<>>
        BY <4>1
      <4>3. t = <<>> \o <<>> \o <<>>
        BY <4>1, <4>2 DEF Compacted
      <4>4. \A x \in Seq(OutputLine) : x \o <<>> = x
        BY ConcatEmptySeq
      <4> HIDE DEF t
      <4> QED
        BY <4>3, <4>4, NoLine
    <3> HIDE DEF t
    <3> QED
      BY <3>2, <3>3, StreamFacts
  <2> QED
    BY <2>1, <2>2
<1> HIDE DEF t
<1>3. s \o t \in Seq(OutputLine) /\ Bare(s \o t)
  BY <1>1, ConcatProperties, BareConcat DEF Stands
<1>4. Dense(s \o t)
  BY <1>1, DenseConcat DEF Stands, Fits
<1>5. Stream(target, s \o t) = Stream(target, s) \o Sent(b)
  BY <1>1, <1>2, StreamConcat
<1> QED
  BY <1>3, <1>4, <1>5 DEF Stands, t

\* A text follows what was held back.
LEMMA TextFacts ==
    ASSUME NEW target \in Targets, NEW s \in Seq(OutputLine), NEW b \in Seq(Byte),
           NEW r \in Seq(OutputLine), Stands(target, s, b, r), NEW l \in OutputLine, ~ OpcodeLine(l)
    PROVE  /\ Append(s \o Compacted(b), l) \in Seq(OutputLine)
           /\ Stands(target, Append(s \o Compacted(b), l), <<>>, r \o <<l>>)
<1> DEFINE a == s \o Compacted(b)
           u == a \o <<l>>
<1>1. /\ a \in Seq(OutputLine) /\ Stream(target, a) = Stream(target, r) /\ Dense(a) /\ Bare(a)
  BY FlushFacts
<1> HIDE DEF a
<1>2. <<l>> \in Seq(OutputLine) /\ Len(<<l>>) = 1 /\ <<l>>[1] = l
  OBVIOUS
<1>3. Dense(<<l>>) /\ Bare(<<l>>)
  <2> DEFINE o == <<l>>
  <2>1. Len(o) = 1 /\ o[1] = l
    BY <1>2
  <2> HIDE DEF o
  <2>2. Dense(o) /\ Bare(o)
    BY <2>1 DEF Dense, Bare
  <2> QED
    BY <2>2 DEF o
<1>4. Append(a, l) = u /\ Append(a, l) \in Seq(OutputLine) /\ Append(a, l) # <<>>
      /\ Append(a, l)[Len(a) + 1] = l /\ Len(Append(a, l)) = Len(a) + 1
  BY <1>1, AppendProperties, AppendIsConcat
<1>5. Dense(u) /\ Bare(u)
  <2> DEFINE o == <<l>>
  <2>1. o \in Seq(OutputLine) /\ o[1] = l /\ Dense(o) /\ Bare(o)
    BY <1>2, <1>3
  <2> HIDE DEF o
  <2>2. Dense(a \o o) /\ Bare(a \o o)
    BY <1>1, <2>1, DenseConcat, BareConcat DEF Fits
  <2> QED
    BY <2>2 DEF o
<1>6. Stream(target, u) = Stream(target, r \o <<l>>)
  <2> DEFINE o == <<l>>
  <2>1. o \in Seq(OutputLine)
    BY <1>2
  <2> HIDE DEF o
  <2>2. Stream(target, a \o o) = Stream(target, a) \o Stream(target, o)
    BY <1>1, <2>1, StreamConcat
  <2>3. Stream(target, r \o o) = Stream(target, r) \o Stream(target, o)
    BY <2>1, StreamConcat
  <2> QED
    BY <1>1, <2>2, <2>3 DEF o
<1>7. Stream(target, u) \o Sent(<<>>) = Stream(target, u)
  <2>1. Sent(<<>>) = <<>>
    BY EmptySeq DEF Sent
  <2>2. Stream(target, u) \in Seq(Symbol)
    BY <1>4, StreamFacts
  <2> QED
    BY <2>1, <2>2, ConcatEmptySeq
<1> HIDE DEF u
<1>8. Stands(target, Append(a, l), <<>>, r \o <<l>>)
  BY <1>4, <1>5, <1>6, <1>7 DEF Stands
<1> QED
  BY <1>4, <1>8 DEF a

\* The bytes of a line of code are held back: on arm64 there is no such line.
LEMMA CodeFacts ==
    ASSUME NEW target \in Targets, NEW s \in Seq(OutputLine), NEW b \in Seq(Byte),
           NEW r \in Seq(OutputLine), Stands(target, s, b, r),
           NEW l \in OutputLine, OpcodeLine(l), Parses(l), AsWritten(target, l)
    PROVE  /\ b \o LineBytes(l) \in Seq(Byte)
           /\ Stands(target, s, b \o LineBytes(l), r \o <<l>>)
<1> DEFINE d == LineBytes(l)
<1>1. d \in Seq(Byte) /\ Meaning(target, l) = Sent(d)
  BY MeaningFacts
<1>2. target = "amd64"
  <2> SUFFICES ASSUME target = "arm64" PROVE FALSE
    BY DEF Targets
  <2>1. PICK k \in DOMAIN l.parts : TRUE
    <3>1. l.parts \in Seq(Literal) /\ l.parts # <<>>
      BY DEF OutputLine, OpcodeLine
    <3>2. Len(l.parts) \in Nat \ {0} /\ DOMAIN l.parts = 1 .. Len(l.parts)
      BY <3>1, EmptySeq, LenProperties
    <3>3. 1 \in DOMAIN l.parts
      BY <3>2
    <3> QED
      BY <3>3
  <2>2. /\ l.parts[k].op = "WORD" /\ Len(l.parts[k].digits) = FullWidth("arm64")["WORD"]
        /\ Len(l.parts[k].digits) <= Width["WORD"]
    BY <2>1 DEF AsWritten, Parses
  <2>3. FullWidth("arm64")["WORD"] = 4 /\ Width["WORD"] = 2
    BY DEF FullWidth, Width
  <2> QED
    BY <2>2, <2>3
<1> HIDE DEF d
<1>3. b \o d \in Seq(Byte) /\ Sent(b \o d) = Sent(b) \o Sent(d)
  BY <1>1, ConcatProperties, SentConcat
<1>4. Stream(target, s) \o Sent(b \o d) = Stream(target, r \o <<l>>)
  <2> DEFINE o == <<l>>
             x == Stream(target, s)
             y == Sent(b)
             z == Sent(d)
  <2>1. o \in Seq(OutputLine) /\ Stream(target, o) = z
    BY <1>1, StreamFacts
  <2>2. x \in Seq(Symbol) /\ y \in Seq(Symbol) /\ z \in Seq(Symbol)
    BY <1>1, StreamFacts, SentFacts
  <2>3. x \o y = Stream(target, r)
    BY DEF Stands
  <2> HIDE DEF o
  <2>4. Stream(target, r \o o) = Stream(target, r) \o z
    BY <2>1, StreamConcat, ZenonT(40)
  <2> HIDE DEF x, y, z
  <2>5. (x \o y) \o z = x \o (y \o z)
    BY ONLY <2>2
  <2> QED
    BY <1>3, <2>3, <2>4, <2>5 DEF o, x, y, z
<1> QED
  BY <1>2, <1>3, <1>4 DEF Stands, d

\* At the end all lines have been read.
LEMMA EndFacts ==
    ASSUME NEW c \in Commands, "compact" \in c.options, NEW f \in Seq(OutputLine), Done(c, f, 1),
           NEW s \in Seq(OutputLine), NEW b \in Seq(Byte), Stands(c.target, s, b, f)
    PROVE  s \o Compacted(b) \in Seq(OutputLine) /\ Done(c, s \o Compacted(b), 2)
<1> DEFINE u == s \o Compacted(b)
<1>1. /\ u \in Seq(OutputLine) /\ Stream(c.target, u) = Stream(c.target, f) /\ Dense(u) /\ Bare(u)
  BY CommandFacts, FlushFacts
<1> HIDE DEF u
<1>2. Done(c, u, 2)
  BY <1>1 DEF Done
<1> QED
  BY <1>1, <1>2 DEF u

\* One more line has been read.
LEMMA ReadFacts ==
    ASSUME NEW f \in Seq(OutputLine), NEW n \in 1 .. Len(f)
    PROVE  /\ SubSeq(f, 1, (n + 1) - 1) = SubSeq(f, 1, n - 1) \o <<f[n]>>
           /\ SubSeq(f, 1, n - 1) \in Seq(OutputLine) /\ f[n] \in OutputLine
           /\ n + 1 \in 1 .. Len(f) + 1
<1>1. Len(f) \in Nat /\ n \in Nat /\ 1 <= n /\ n <= Len(f) /\ (n + 1) - 1 = n
  BY LenProperties
<1>2. 1 \in 1 .. Len(f) /\ n \in 1 .. Len(f)
  BY <1>1
<1>3. SubSeq(f, 1, n) = SubSeq(f, 1, n - 1) \o <<f[n]>>
  BY <1>2, SubSeqRecursiveSecond
<1>4. \A i \in 1 .. n - 1 : f[i] \in OutputLine
  BY <1>1, ElementOfSeq
<1>5. SubSeq(f, 1, n - 1) \in Seq(OutputLine)
  BY <1>1, <1>4, SubSeqProperties
<1>6. f[n] \in OutputLine
  BY <1>2, ElementOfSeq
<1> QED
  BY <1>1, <1>3, <1>5, <1>6

-----------------------------------------------------------------------------
(***************************************************************************)
(* The steps.                                                              *)
(***************************************************************************)
\* A run that ends in failure leaves everything.
LEMMA FailKeeps ==
    ASSUME IInv, Refuse \/ ReadFails \/ RejectCode \/ FormatFails
    PROVE  IInv'
<1>1. UNCHANGED <<command, old, file, whole, tries, pass>> /\ pc' = "failed"
  BY DEF Refuse, ReadFails, RejectCode, FormatFails, Fail
<1>2. UNCHANGED <<content, line, pending>>
  BY DEF Refuse, ReadFails, RejectCode, FormatFails, Fail, loop
<1>3. pc = "work"
  BY DEF Refuse, ReadFails, RejectCode, FormatFails, At
<1>4. Types'
  BY <1>1, <1>2 DEF IInv, Types
<1>5. Phase'
  BY <1>1, <1>2 DEF IInv, Phase
<1>6. Refused'
  BY <1>1 DEF IInv, Refused
<1>7. Kept'
  BY <1>1 DEF IInv, Kept, Faithful
<1>8. Compacting'
  BY <1>1 DEF Compacting
<1> QED
  BY <1>4, <1>5, <1>6, <1>7, <1>8 DEF IInv

\* What the passes before it have done is all there is to do when the lines are
\* formatted.
LEMMA FormatDone ==
    ASSUME IInv, pc = "work", pass = "format"
    PROVE  whole /\ Done(command, file, Order["format"])
<1>1. whole /\ Done(command, file, Order["format"] - 1)
  BY DEF IInv, Kept
<1>2. Order["format"] = 3
  BY DEF Order
<1> QED
  BY <1>1, <1>2 DEF Done

\* The output of the conversion, the stripped, the compacted and the formatted
\* lines go on to be written.
LEMMA SaveKeeps ==
    ASSUME IInv, Accept \/ Strip \/ EndCompact \/ Format
    PROVE  IInv'
<1>1. /\ UNCHANGED <<command, old, file, whole, tries, pass>> /\ UNCHANGED <<line, pending>>
      /\ pc' = "open" /\ pc = "work" /\ pass \in {"run", "strip", "compact", "format"}
      /\ pass = "run" => command.accepted
  BY DEF Accept, Strip, EndCompact, Format, Save, At
<1>2. Types /\ Phase /\ Refused /\ Kept /\ Compacting
  BY DEF IInv
<1>3. command \in Commands /\ Order["run"] = 0 /\ Order["strip"] = 1 /\ Order["compact"] = 2
      /\ Order["format"] = 3
  BY <1>2 DEF Types, Order
<1>4. command.accepted
  BY <1>1, <1>2 DEF Refused
<1>5. content' \in Seq(OutputLine) /\ Done(command, content', Order[pass])
  <2>1. CASE Accept
    <3>1. content' = Output(command) /\ pass = "run"
      BY <2>1 DEF Accept, Save, At, Output
    <3> QED
      BY <1>3, <3>1, CommandFacts
  <2>2. CASE Strip
    <3>1. content' = [k \in DOMAIN file |-> Stripped(file[k])] /\ pass = "strip"
      BY <2>2 DEF Strip, Save, At
    <3>2. "strip" \in command.options /\ file \in Seq(OutputLine)
      BY <1>2, <3>1 DEF Types
    <3>3. Done(command, file, 0)
      <4>1. Done(command, file, Order[pass] - 1)
        BY <1>1, <1>2, <3>1 DEF Kept
      <4>2. Order[pass] - 1 = 0
        BY <1>3, <3>1
      <4> QED
        BY <4>1, <4>2
    <3> QED
      BY <1>3, <3>1, <3>2, <3>3, StripFacts
  <2>3. CASE EndCompact
    <3>1. content' = content \o Compacted(pending) /\ pass = "compact" /\ line > Len(file)
      BY <2>3 DEF EndCompact, Save, At
    <3>2. /\ "compact" \in command.options /\ file \in Seq(OutputLine)
          /\ content \in Seq(OutputLine) /\ pending \in Seq(Byte)
      BY <1>2, <3>1 DEF Types
    <3>3. Done(command, file, 1)
      <4>1. Done(command, file, Order[pass] - 1)
        BY <1>1, <1>2, <3>1 DEF Kept
      <4>2. Order[pass] - 1 = 1
        BY <1>3, <3>1
      <4> QED
        BY <4>1, <4>2
    <3>4. line - 1 = Len(file)
      <4>1. line \in 1 .. Len(file) + 1 /\ Len(file) \in Nat
        BY <1>1, <1>2, <3>1, <3>2, LenProperties DEF Compacting
      <4> QED
        BY <3>1, <4>1
    <3>5. Stands(command.target, content, pending, file)
      BY <1>1, <1>2, <3>1, <3>2, <3>4, SubSeqFull DEF Compacting
    <3> QED
      BY <1>3, <3>1, <3>2, <3>3, <3>5, EndFacts
  <2>4. CASE Format
    <3>1. content' = file /\ pass = "format" /\ pc = "work"
      BY <2>4 DEF Format, Save, At
    <3> QED
      BY <1>2, <3>1, FormatDone DEF Types
  <2> QED
    BY <2>1, <2>2, <2>3, <2>4
<1>6. Types'
  BY <1>1, <1>2, <1>5 DEF Types
<1>7. Phase'
  BY <1>1, <1>2 DEF Phase
<1>8. Refused'
  BY <1>1, <1>4 DEF Refused
<1>9. Kept'
  BY <1>1, <1>2, <1>5 DEF Kept, Faithful
<1>10. Compacting'
  BY <1>1 DEF Compacting
<1> QED
  BY <1>6, <1>7, <1>8, <1>9, <1>10 DEF IInv

\* A file that is opened is empty until it is written.
LEMMA TruncateKeeps ==
    ASSUME IInv, Truncate
    PROVE  IInv'
<1>1. /\ UNCHANGED <<command, old, tries, pass>> /\ UNCHANGED <<content, line, pending>>
      /\ pc = "open" /\ pc' = "write" /\ whole' = FALSE /\ file' = <<>>
  BY DEF Truncate, loop
<1>2. Types /\ Phase /\ Refused /\ Kept /\ Compacting
  BY DEF IInv
<1>3. Types'
  BY <1>1, <1>2, EmptySeq DEF Types
<1>4. Phase'
  BY <1>1, <1>2 DEF Phase
<1>5. Refused'
  BY <1>1, <1>2 DEF Refused
<1>6. Kept'
  BY <1>1, <1>2 DEF Kept
<1>7. Compacting'
  BY <1>1 DEF Compacting
<1> QED
  BY <1>3, <1>4, <1>5, <1>6, <1>7 DEF IInv

\* Before the first line is read, nothing stands for nothing.
LEMMA NothingStands ==
    ASSUME NEW target \in Targets, NEW f \in Seq(OutputLine)
    PROVE  Stands(target, <<>>, <<>>, SubSeq(f, 1, 1 - 1)) /\ 1 \in 1 .. Len(f) + 1
<1>1. SubSeq(f, 1, 1 - 1) = <<>>
  BY SubSeqEmpty
<1>2. Stream(target, <<>>) = <<>> /\ Sent(<<>>) = <<>>
  BY StreamFacts, EmptySeq DEF Sent
<1>3. <<>> \o <<>> = <<>>
  BY EmptySeq, ConcatEmptySeq
<1>4. Stream(target, <<>>) \o Sent(<<>>) = Stream(target, SubSeq(f, 1, 1 - 1))
  BY <1>1, <1>2, <1>3
<1>5. Stands(target, <<>>, <<>>, SubSeq(f, 1, 1 - 1))
  BY <1>4, NoLine DEF Stands
<1>6. 1 \in 1 .. Len(f) + 1
  <2>1. Len(f) \in Nat
    BY LenProperties
  <2> QED
    BY <2>1
<1> QED
  BY <1>5, <1>6

\* A pass whose output is complete makes way for the next.
LEMMA PassKeeps ==
    ASSUME IInv, Write \/ FormatNothing
    PROVE  IInv'
<1>1. Types /\ Phase /\ Refused /\ Kept /\ Compacting
  BY DEF IInv
<1>2. /\ UNCHANGED <<command, old, tries>> /\ pc' = "work" /\ pass' = After(pass)
      /\ content' = <<>> /\ line' = 1 /\ pending' = <<>>
  <2>1. CASE Write
    BY <2>1 DEF Write
  <2>2. CASE FormatNothing
    <3>1. UNCHANGED <<command, old, tries>> /\ UNCHANGED <<content, line, pending>>
      BY <2>2 DEF FormatNothing, loop
    <3>2. pc = "work" /\ pc' = pc /\ pass' = After(pass) /\ pass = "format"
      BY <2>2 DEF FormatNothing, At
    <3> QED
      BY <1>1, <3>1, <3>2 DEF Phase
  <2> QED
    BY <2>1, <2>2
<1>3. /\ whole' = TRUE /\ pass # "end"
      /\ file' \in Seq(OutputLine) /\ Done(command, file', Order[pass]) /\ command.accepted
  <2>1. CASE Write
    <3>1. pc = "write" /\ file' = content /\ whole' = TRUE
      BY <2>1 DEF Write
    <3> QED
      BY <1>1, <2>1, <3>1 DEF Types, Phase, Kept, Refused
  <2>2. CASE FormatNothing
    <3>1. file' = file /\ whole' = whole /\ pass = "format" /\ pc = "work"
      BY <2>2 DEF FormatNothing, At
    <3>2. whole /\ Done(command, file, Order["format"])
      BY <3>1, FormatDone
    <3> QED
      BY <1>1, <3>1, <3>2 DEF Types, Refused
  <2> QED
    BY <2>1, <2>2
<1>4. whole' = TRUE /\ pass # "end" /\ pass \in {"run"} \cup command.options
  <2>1. pass # "end" /\ whole' = TRUE
    BY <1>1, <1>3 DEF Write, Phase
  <2> QED
    BY <1>1, <2>1 DEF Types
<1>5. /\ After(pass) \in command.options \cup {"end"}
      /\ Done(command, file', Order[After(pass)] - 1)
  BY <1>1, <1>3, <1>4, AfterFacts, DoneNext DEF Types
<1>6. Types'
  BY <1>1, <1>2, <1>3, <1>4, <1>5, EmptySeq DEF Types
<1>7. Phase'
  BY <1>2, <1>4 DEF Phase
<1>8. Refused'
  BY <1>2, <1>3 DEF Refused
<1>9. Kept'
  <2>1. Faithful(file)'
    BY <1>2, <1>3 DEF Faithful, Done, Output
  <2>2. Done(command, file, Order[pass] - 1)'
    BY <1>2, <1>5
  <2> QED
    BY <1>2, <1>3, <1>4, <2>1, <2>2 DEF Kept
<1>10. Compacting'
  BY <1>1, <1>2, <1>3, NothingStands, CommandFacts DEF Compacting, Types
<1> QED
  BY <1>6, <1>7, <1>8, <1>9, <1>10 DEF IInv

\* A write that fails, or a process that ends, leaves a beginning of what was
\* being written, or the file.
LEMMA CutKeeps ==
    ASSUME IInv, WriteFails \/ Crash
    PROVE  IInv'
<1>1. Types /\ Phase /\ Refused /\ Kept /\ Compacting
  BY DEF IInv
<1>2. /\ UNCHANGED <<command, old, whole, tries, pass>> /\ UNCHANGED <<content, line, pending>>
      /\ pc' \in {"failed", "crashed"} /\ file' \in Written /\ pc \in {"work", "open", "write"}
  BY DEF WriteFails, Crash, Running, loop
<1>3. file' \in Seq(OutputLine)
  <2>1. CASE pc = "write"
    <3>1. PICK n \in 0 .. Len(content) : file' = SubSeq(content, 1, n)
      BY <1>2, <2>1 DEF Written
    <3>2. content \in Seq(OutputLine) /\ Len(content) \in Nat
      BY <1>1, LenProperties DEF Types
    <3>3. \A i \in 1 .. n : content[i] \in OutputLine
      BY <3>2, ElementOfSeq
    <3> QED
      BY <3>1, <3>2, <3>3, SubSeqProperties
  <2>2. CASE pc # "write"
    BY <1>1, <1>2, <2>2 DEF Written, Types
  <2> QED
    BY <2>1, <2>2
<1>4. pc = "write" \/ file' = file
  BY <1>2 DEF Written
<1>5. pc = "write" => ~ whole /\ command.accepted
  BY <1>1 DEF Phase, Refused
<1>6. Types'
  BY <1>1, <1>2, <1>3 DEF Types
<1>7. Phase'
  BY <1>1, <1>2 DEF Phase
<1>8. Refused'
  BY <1>1, <1>2, <1>4, <1>5 DEF Refused
<1>9. Kept'
  BY <1>1, <1>2, <1>4, <1>5 DEF Kept, Faithful
<1>10. Compacting'
  BY <1>2 DEF Compacting
<1> QED
  BY <1>6, <1>7, <1>8, <1>9, <1>10 DEF IInv

\* A line is read by the pass that compacts.
LEMMA ReadKeeps ==
    ASSUME IInv, CompactText \/ CompactCode
    PROVE  IInv'
<1>1. Types /\ Phase /\ Refused /\ Kept /\ Compacting
  BY DEF IInv
<1>2. /\ UNCHANGED <<command, old, file, whole, tries, pass, pc>>
      /\ pc = "work" /\ pass = "compact" /\ line <= Len(file) /\ line' = line + 1
  BY DEF CompactText, CompactCode, At
<1>3. /\ command \in Commands /\ file \in Seq(OutputLine) /\ content \in Seq(OutputLine)
      /\ pending \in Seq(Byte) /\ command.target \in Targets
      /\ line \in 1 .. Len(file) + 1 /\ Len(file) \in Nat
      /\ Stands(command.target, content, pending, SubSeq(file, 1, line - 1))
  BY <1>1, <1>2, CommandFacts, LenProperties DEF Types, Compacting
<1>4. line \in 1 .. Len(file)
  BY <1>2, <1>3
<1>5. /\ SubSeq(file, 1, (line + 1) - 1) = SubSeq(file, 1, line - 1) \o <<file[line]>>
      /\ SubSeq(file, 1, line - 1) \in Seq(OutputLine) /\ file[line] \in OutputLine
      /\ line + 1 \in 1 .. Len(file) + 1
  BY <1>3, <1>4, ReadFacts
<1>6. /\ content' \in Seq(OutputLine) /\ pending' \in Seq(Byte)
      /\ Stands(command.target, content', pending', SubSeq(file, 1, (line + 1) - 1))
  <2>1. CASE CompactText
    <3>1. /\ content' = Append(content \o Compacted(pending), file[line]) /\ pending' = <<>>
          /\ ~ OpcodeLine(file[line])
      BY <2>1 DEF CompactText
    <3> QED
      BY <1>3, <1>5, <3>1, TextFacts, EmptySeq
  <2>2. CASE CompactCode
    <3>1. /\ content' = content /\ pending' = pending \o LineBytes(file[line])
          /\ OpcodeLine(file[line]) /\ Parses(file[line])
      BY <2>2 DEF CompactCode
    <3>2. AsWritten(command.target, file[line])
      <4>1. Done(command, file, Order["compact"] - 1)
        BY <1>1, <1>2 DEF Kept
      <4>2. Order["compact"] = 2
        BY DEF Order
      <4>3. Originals(command, file)
        BY <4>1, <4>2 DEF Done
      <4> QED
        BY <1>4, <4>3 DEF Originals
    <3> QED
      BY <1>3, <1>5, <3>1, <3>2, CodeFacts
  <2> QED
    BY <2>1, <2>2
<1>7. Types'
  BY <1>1, <1>2, <1>6 DEF Types
<1>8. Phase'
  BY <1>1, <1>2 DEF Phase
<1>9. Refused'
  BY <1>1, <1>2 DEF Refused
<1>10. Kept'
  BY <1>1, <1>2 DEF Kept, Faithful
<1>11. Compacting'
  BY <1>2, <1>5, <1>6 DEF Compacting
<1> QED
  BY <1>7, <1>8, <1>9, <1>10, <1>11 DEF IInv

\* The command ends, begins again, or nothing changes.
LEMMA RestKeeps ==
    ASSUME IInv, Finish \/ Again \/ UNCHANGED vars
    PROVE  IInv'
<1>1. Types /\ Phase /\ Refused /\ Kept /\ Compacting
  BY DEF IInv
<1>2. CASE Finish
  <2>1. /\ UNCHANGED <<command, old, file, whole, tries, pass>> /\ UNCHANGED <<content, line, pending>>
        /\ pc = "work" /\ pc' = "ok" /\ pass = "end"
    BY <1>2 DEF Finish, At, loop
  <2>2. Order["end"] - 1 = 3
    BY DEF Order
  <2>3. whole /\ Done(command, file, 3) /\ pending = <<>>
    BY <1>1, <2>1, <2>2 DEF Kept, Phase
  <2>4. Types'
    BY <1>1, <2>1 DEF Types
  <2>5. Phase'
    BY <1>1, <2>1, <2>3 DEF Phase
  <2>6. Refused'
    BY <1>1, <2>1 DEF Refused
  <2>7. Kept'
    BY <1>1, <2>1, <2>3 DEF Kept, Faithful
  <2>8. Compacting'
    BY <2>1 DEF Compacting
  <2> QED
    BY <2>4, <2>5, <2>6, <2>7, <2>8 DEF IInv
<1>3. CASE Again
  <2>1. /\ UNCHANGED <<command, old, file, whole>> /\ tries' = tries + 1 /\ tries < MaxTries
        /\ pc' = "work" /\ pass' = "run" /\ content' = <<>> /\ line' = 1 /\ pending' = <<>>
    BY <1>3 DEF Again
  <2>2. tries' \in 1 .. MaxTries /\ tries' > 1
    BY <1>1, <2>1, CommandsAssumption DEF Types
  <2>3. Types'
    BY <1>1, <2>1, <2>2, EmptySeq DEF Types
  <2>4. Phase'
    BY <2>1, <2>2 DEF Phase
  <2>5. Refused'
    BY <1>1, <2>1 DEF Refused
  <2>6. Kept'
    BY <1>1, <2>1 DEF Kept, Faithful
  <2>7. Compacting'
    BY <2>1 DEF Compacting
  <2> QED
    BY <2>3, <2>4, <2>5, <2>6, <2>7 DEF IInv
<1>4. CASE UNCHANGED vars
  <2>1. /\ UNCHANGED <<command, old, file, whole, tries, pass, pc>>
        /\ UNCHANGED <<content, line, pending>>
    BY <1>4 DEF vars, loop
  <2>2. Types'
    BY <1>1, <2>1 DEF Types
  <2>3. Phase'
    BY <1>1, <2>1 DEF Phase
  <2>4. Refused'
    BY <1>1, <2>1 DEF Refused
  <2>5. Kept'
    BY <1>1, <2>1 DEF Kept, Faithful
  <2>6. Compacting'
    BY <1>1, <2>1 DEF Compacting
  <2> QED
    BY <2>2, <2>3, <2>4, <2>5, <2>6 DEF IInv
<1> QED
  BY <1>2, <1>3, <1>4

\* The strengthened invariant holds through any number of runs.
THEOREM Invariance == Spec => []IInv
<1>1. Init => IInv
  <2> SUFFICES ASSUME Init PROVE IInv
    OBVIOUS
  <2>1. /\ command \in Commands /\ old \in Previous /\ file = old /\ whole = TRUE /\ tries = 1
        /\ pass = "run" /\ pc = "work" /\ content = <<>> /\ line = 1 /\ pending = <<>>
    BY DEF Init
  <2>2. old \in Seq(OutputLine) /\ tries \in 1 .. MaxTries
    BY <2>1, CommandsAssumption
  <2>3. Types
    BY <2>1, <2>2, EmptySeq DEF Types
  <2> QED
    BY <2>1, <2>3 DEF IInv, Phase, Refused, Kept, Compacting
<1>2. IInv /\ [Next]_vars => IInv'
  BY FailKeeps, SaveKeeps, TruncateKeeps, PassKeeps, CutKeeps, ReadKeeps, RestKeeps DEF Next
<1> QED
  BY <1>1, <1>2, PTL DEF Spec

\* The pass at work, the line it is at, the bytes it holds back and the number
\* of the run are what they may be, and a torn file is one that is being
\* written, one that a run has left behind, or one an earlier run has left.
THEOREM ConvertTypes == Spec => []TypeOK
<1>1. IInv => TypeOK
  <2> SUFFICES ASSUME IInv PROVE TypeOK
    OBVIOUS
  <2>1. Len(file) \in Nat
    BY LenProperties DEF IInv, Types
  <2>2. line \in 1 .. Len(file) + 1 \/ pc # "work"
    BY <2>1 DEF IInv, Phase, Compacting
  <2> QED
    BY <2>2 DEF IInv, Types, Phase, TypeOK
<1> QED
  BY <1>1, Invariance, PTL

\* A command whose arguments, companion or source are refused leaves the
\* destination as it was, however often it is run and wherever a run is cut.
THEOREM RefusedKeepsFile == Spec => []RefusalLeavesFile
<1>1. IInv => RefusalLeavesFile
  BY DEF IInv, Refused, RefusalLeavesFile
<1> QED
  BY <1>1, Invariance, PTL

\* Whatever was there before, whichever passes have run and however earlier
\* runs ended, a complete file is the old one or has the machine code of the
\* conversion, byte for byte and on the same side of each label.
THEOREM CodeKept == Spec => []MachineCodeKept
<1>1. IInv => MachineCodeKept
  BY DEF IInv, Kept, MachineCodeKept
<1> QED
  BY <1>1, Invariance, PTL

\* A run that reports success has left the whole conversion, compacted and
\* without comments on the code, or line for line but for comments of
\* instructions that -s has taken, whatever was there before and however often
\* earlier runs of the command have ended wherever they did.
THEOREM SuccessMeans == Spec => []SuccessComplete
<1>1. IInv => SuccessComplete
  <2> SUFFICES ASSUME IInv, pc = "ok"
               PROVE  SuccessComplete
    BY DEF SuccessComplete
  <2>1. /\ whole /\ Done(command, file, 3) /\ DOMAIN file = 1 .. Len(file)
        /\ Faithful(file)
    BY LenProperties DEF IInv, Kept, Types, Done, Faithful, Output
  <2>2. "compact" \in command.options => Dense(file) /\ Bare(file)
    BY <2>1 DEF Done
  <2>3. "compact" \notin command.options => Trimmed(command, file)
    BY <2>1 DEF Done
  <2> QED
    BY <2>1, <2>2, <2>3 DEF SuccessComplete, Bare, Trimmed, Output
<1> QED
  BY <1>1, Invariance, PTL
=============================================================================
