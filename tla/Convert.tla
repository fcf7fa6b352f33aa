-------------------------------- MODULE Convert --------------------------------
(***************************************************************************)
(* The command line: Run of cmd/c2goasm/main.go, from the result of        *)
(* Process to the destination file.                                        *)
(*                                                                         *)
(* The output is written first and then read, rewritten and written again  *)
(* by each pass that an option asks for.  A write empties the file before  *)
(* it fills it.  It may fail or the process may end in between, and the    *)
(* command may be run again.                                               *)
(***************************************************************************)
EXTENDS Integers, SequencesExt

CONSTANTS
    Commands,   \* what may be asked for
    Header,     \* the lines that every output begins with
    Previous,   \* what the destination may hold before
    MaxTries    \* bound on the runs of one command

(***************************************************************************)
(* A line is [parts, text, comment]: literals of machine code, or a text,  *)
(* or neither, and whether it ends in a comment: none, plain, or width for *)
(* one that has LONG, WORD or BYTE in it.  A literal is [op, digits], its  *)
(* bytes in the order written.  A command is [target, options, accepted,   *)
(* lines]: the options are among strip, compact and format; lines is what  *)
(* Process returns if the arguments and the source are accepted.           *)
(***************************************************************************)
Width == [BYTE |-> 1, WORD |-> 2, LONG |-> 4, QUAD |-> 8]

\* WORD is what the assembler of the target calls four bytes on arm64 and two
\* on amd64.
FullWidth(target) == [Width EXCEPT !.WORD = IF target = "arm64" THEN 4 ELSE 2]

Literal == [op : {"BYTE", "WORD", "LONG", "QUAD"}, digits : Seq(0 .. 255)]
OutputLine ==
    [parts : Seq(Literal), text : STRING \cup {""}, comment : {"none", "plain", "width"}]

\* What rawBytesLine writes of instructions, which have four bytes on arm64,
\* has every digit.
AsWritten(target, l) ==
    /\ l.parts # <<>> => l.text = ""
    /\ \A k \in DOMAIN l.parts :
         /\ Len(l.parts[k].digits) = FullWidth(target)[l.parts[k].op]
         /\ target = "arm64" => l.parts[k].op = "WORD"

ASSUME CommandsAssumption ==
    /\ \A c \in Commands :
         /\ c.target \in {"amd64", "arm64"}
         /\ c.options \subseteq {"strip", "compact", "format"}
         /\ Header \o c.lines \in Seq(OutputLine)
         /\ \A k \in DOMAIN (Header \o c.lines) : AsWritten(c.target, (Header \o c.lines)[k])
    /\ \A o \in Previous : o \in Seq(OutputLine)
    /\ MaxTries \in Nat \ {0}

VARIABLES
    command,
    old,        \* the destination before
    file,       \* the destination
    whole,      \* whether its last write has ended
    tries,      \* runs of the command so far
    pass,       \* the pass at work: run, strip, compact, format or end
    pc,         \* work, open and write, or ok, failed and crashed
    content,    \* what the pass is going to write
    line,       \* the line compactOpcodes is at
    pending     \* the bytes it has not written

loop == <<content, line, pending>>
vars == <<command, old, file, whole, tries, pass, pc, loop>>

-----------------------------------------------------------------------------
(***************************************************************************)
(* Machine code as text.                                                   *)
(***************************************************************************)
\* Where each group of bytes begins, and where the last one ends.
Offsets(ops, size) ==
    LET at[k \in 1 .. Len(ops) + 1] == IF k = 1 THEN 0 ELSE at[k - 1] + size[ops[k - 1]] IN at

\* Groups of bytes of the given widths, each under the name for its width.
Slices(bytes, ops, size) ==
    [k \in DOMAIN ops |->
        [op |-> ops[k],
         digits |-> Reverse(SubSeq(bytes, Offsets(ops, size)[k] + 1, Offsets(ops, size)[k + 1]))]]

Tail8(n) ==
    (IF n % 8 >= 4 THEN <<"LONG">> ELSE <<>>) \o (IF n % 4 >= 2 THEN <<"WORD">> ELSE <<>>)
        \o (IF n % 2 = 1 THEN <<"BYTE">> ELSE <<>>)

\* rawBytesLine
Raw(target, bytes, comment) ==
    LET n == Len(bytes)
        parts == IF target = "arm64"
                 THEN Slices(bytes, [k \in 1 .. (n \div 4) |-> "WORD"] \o [k \in 1 .. (n % 4) |-> "BYTE"],
                             FullWidth(target))
                 ELSE Slices(bytes, [k \in 1 .. (n \div 8) |-> "QUAD"] \o Tail8(n), Width)
    IN  [parts |-> parts, text |-> "", comment |-> comment]

OpcodeLine(l) == l.parts # <<>>

\* Not a blank line, nor one that has a comment and nothing else.
Instruction(l) == OpcodeLine(l) \/ l.text # ""

Uncommented(l) == [l EXCEPT !.comment = "none"]

\* Wrong variant: digits beyond the width are dropped.
ParsesCut(l) == TRUE

\* parseOpcodeBytes has no error.
Parses(l) == \A k \in DOMAIN l.parts : Len(l.parts[k].digits) <= Width[l.parts[k].op]

\* A literal's bytes, padded to its width; more of them are not read.
BytesOf(part) ==
    LET w == Width[part.op]
        d == Reverse(part.digits)
    IN  [k \in 1 .. w |-> IF k <= Len(d) THEN d[k] ELSE 0]

LineBytes(l) == FlattenSeq([k \in DOMAIN l.parts |-> BytesOf(l.parts[k])])

CodeLine(bytes, ops) == [parts |-> Slices(bytes, ops, Width), text |-> "", comment |-> "none"]

\* compactByteArray
Compacted(bytes) ==
    LET n == Len(bytes)
        From(k) == SubSeq(bytes, k + 1, n)
    IN  [k \in 1 .. (n \div 16) |-> CodeLine(From(16 * (k - 1)), <<"QUAD", "QUAD">>)]
        \o (IF n % 16 >= 8 THEN <<CodeLine(From(n - (n % 16)), <<"QUAD">>)>> ELSE <<>>)
        \o (IF n % 8 > 0 THEN <<CodeLine(From(n - (n % 8)), Tail8(n))>> ELSE <<>>)

\* stripGoasmComments looks at lines with LONG, WORD or BYTE in them, wherever
\* it is.
Stripped(l) ==
    IF /\ \/ \E k \in DOMAIN l.parts : l.parts[k].op # "QUAD"
          \/ l.comment = "width"
       /\ Instruction(l)
    THEN Uncommented(l) ELSE l

-----------------------------------------------------------------------------
Order == [run |-> 0, strip |-> 1, compact |-> 2, format |-> 3, end |-> 4]

After(p) ==
    CHOOSE q \in command.options \cup {"end"} :
        /\ Order[q] > Order[p]
        /\ \A r \in command.options : Order[r] > Order[p] => Order[r] >= Order[q]

Running == pc \in {"work", "open", "write"}
At(p) == pc = "work" /\ pass = p

Fail ==
    /\ pc' = "failed"
    /\ UNCHANGED <<command, old, file, whole, tries, pass, loop>>

\* The pass goes on to WriteFile.
Save(lines) ==
    /\ content' = lines
    /\ pc' = "open"
    /\ UNCHANGED <<command, old, file, whole, tries, pass, line, pending>>

Init ==
    /\ command \in Commands
    /\ old \in Previous
    /\ file = old
    /\ whole = TRUE
    /\ tries = 1
    /\ pass = "run"
    /\ pc = "work"
    /\ content = <<>>
    /\ line = 1
    /\ pending = <<>>

\* Arguments, companion, source and Process, a panic among them.
Refuse == At("run") /\ ~ command.accepted /\ Fail

\* Wrong variant: the destination is opened before the source is converted.
AcceptAny ==
    /\ At("run")
    /\ content' = Header \o command.lines
    /\ pc' = "open"
    /\ UNCHANGED <<command, old, file, whole, tries, pass, line, pending>>

Accept == At("run") /\ command.accepted /\ Save(Header \o command.lines)

\* os.WriteFile, in two steps.
Truncate ==
    /\ pc = "open"
    /\ file' = <<>>
    /\ whole' = FALSE
    /\ pc' = "write"
    /\ UNCHANGED <<command, old, tries, pass, loop>>

\* Wrong variant: the bytes of the last compaction stay behind.
WriteAndKeep ==
    /\ pc = "write"
    /\ file' = content
    /\ whole' = TRUE
    /\ pass' = After(pass)
    /\ pc' = "work"
    /\ content' = <<>>
    /\ line' = 1
    /\ UNCHANGED <<command, old, tries, pending>>

Write ==
    /\ pc = "write"
    /\ file' = content
    /\ whole' = TRUE
    /\ pass' = After(pass)
    /\ pc' = "work"
    /\ content' = <<>>
    /\ line' = 1
    /\ pending' = <<>>
    /\ UNCHANGED <<command, old, tries>>

\* Part of the content may be in the file.
Written == IF pc = "write" THEN {SubSeq(content, 1, n) : n \in 0 .. Len(content)} ELSE {file}

WriteFails ==
    /\ pc \in {"open", "write"}
    /\ file' \in Written
    /\ pc' = "failed"
    /\ UNCHANGED <<command, old, whole, tries, pass, loop>>

\* A pass cannot read its input.
ReadFails == (At("strip") \/ (At("compact") /\ line = 1)) /\ Fail

Strip == At("strip") /\ Save([k \in DOMAIN file |-> Stripped(file[k])])

-----------------------------------------------------------------------------
CompactText ==
    /\ At("compact") /\ line <= Len(file) /\ ~ OpcodeLine(file[line])
    /\ content' = Append(content \o Compacted(pending), file[line])
    /\ pending' = <<>>
    /\ line' = line + 1
    /\ UNCHANGED <<command, old, file, whole, tries, pass, pc>>

\* Wrong variant: the bytes of a line do not wait for those of the next.
CompactCodeAtOnce ==
    /\ At("compact") /\ line <= Len(file) /\ OpcodeLine(file[line]) /\ Parses(file[line])
    /\ content' = content \o Compacted(LineBytes(file[line]))
    /\ line' = line + 1
    /\ UNCHANGED <<command, old, file, whole, tries, pass, pc, pending>>

CompactCode ==
    /\ At("compact") /\ line <= Len(file) /\ OpcodeLine(file[line]) /\ Parses(file[line])
    /\ pending' = pending \o LineBytes(file[line])
    /\ line' = line + 1
    /\ UNCHANGED <<command, old, file, whole, tries, pass, pc, content>>

RejectCode == At("compact") /\ line <= Len(file) /\ ~ Parses(file[line]) /\ Fail

EndCompact == At("compact") /\ line > Len(file) /\ Save(content \o Compacted(pending))

-----------------------------------------------------------------------------
\* asmfmt -w moves white space only, and writes the file as the passes do.
Format == At("format") /\ Save(file)

\* It writes nothing when there is nothing to move.
FormatNothing ==
    /\ At("format")
    /\ pass' = After(pass)
    /\ UNCHANGED <<command, old, file, whole, tries, pc, loop>>

FormatFails == At("format") /\ Fail

Finish ==
    /\ At("end")
    /\ pc' = "ok"
    /\ UNCHANGED <<command, old, file, whole, tries, pass, loop>>

\* The process ends, at any point.
Crash ==
    /\ Running
    /\ file' \in Written
    /\ pc' = "crashed"
    /\ UNCHANGED <<command, old, whole, tries, pass, loop>>

\* The same command once more.
Again ==
    /\ ~ Running /\ tries < MaxTries
    /\ tries' = tries + 1
    /\ pass' = "run"
    /\ pc' = "work"
    /\ content' = <<>>
    /\ line' = 1
    /\ pending' = <<>>
    /\ UNCHANGED <<command, old, file, whole>>

Next ==
    \/ Refuse \/ Accept \/ Truncate \/ Write \/ WriteFails \/ ReadFails
    \/ Strip \/ CompactText \/ CompactCode \/ RejectCode \/ EndCompact
    \/ Format \/ FormatNothing \/ FormatFails \/ Finish \/ Crash \/ Again

Spec == Init /\ [][Next]_vars
-----------------------------------------------------------------------------
\* Type invariant.
TypeOK ==
    /\ pass \in {"run", "end"} \cup command.options
    /\ pc \in {"work", "open", "write", "ok", "failed", "crashed"}
    /\ tries \in 1 .. MaxTries
    /\ line \in 1 .. Len(file) + 1 \/ pc # "work"
    /\ ~ whole => pc \in {"write", "failed", "crashed"} \/ tries > 1
    /\ pending # <<>> => pass = "compact" /\ pc # "ok"

(***************************************************************************)
(* What an output means to the assembler: bytes and texts in their order.  *)
(***************************************************************************)
Meaning(target, l) ==
    IF l.text # "" THEN <<<<0, l.text>>>>
    ELSE FlattenSeq([k \in DOMAIN l.parts |->
            LET d == Reverse(l.parts[k].digits)
            IN  [b \in 1 .. FullWidth(target)[l.parts[k].op] |-> <<IF b <= Len(d) THEN d[b] ELSE 0, "">>]])

Stream(target, lines) == FlattenSeq([k \in DOMAIN lines |-> Meaning(target, lines[k])])

\* Whether these lines are what the conversion returned, to the assembler.
Faithful(lines) == Stream(command.target, lines) = Stream(command.target, Header \o command.lines)

\* Every complete version of the file has the machine code of the conversion,
\* byte for byte and on the same side of each label, whatever was there before,
\* whichever passes have run, and however earlier runs ended.
MachineCodeKept ==
    whole => file = old \/ (command.accepted /\ Faithful(file))

\* Lines of compacted code fill up before a new one begins.
Dense(lines) ==
    \A k \in 1 .. Len(lines) - 1 :
        OpcodeLine(lines[k]) /\ OpcodeLine(lines[k + 1]) =>
            \/ Len(LineBytes(lines[k])) = 16
            \/ Len(LineBytes(lines[k])) = 8 /\ Len(LineBytes(lines[k + 1])) < 8

\* A run that reports success, whatever the file held before and however
\* earlier runs ended, has left the whole conversion in it: compacted, without
\* comments on the code and with no group that could have been filled up, or
\* else line for line, where -s has taken nothing but comments of instructions.
SuccessComplete ==
    pc = "ok" =>
        LET output == Header \o command.lines
        IN  /\ whole
            /\ Faithful(file)
            /\ "compact" \in command.options =>
                 Dense(file) /\ \A k \in DOMAIN file : OpcodeLine(file[k]) => file[k].comment = "none"
            /\ "compact" \notin command.options =>
                 /\ Len(file) = Len(output)
                 /\ \A k \in DOMAIN file :
                      \/ file[k] = output[k]
                      \/ /\ "strip" \in command.options /\ Instruction(output[k])
                         /\ file[k] = Uncommented(output[k])

\* "-s: strip generated comments" (main.go:21), "Strip generated instruction
\* comments" (README.md:259): after a run with -s no instruction has one.
StripHonoured ==
    pc = "ok" /\ "strip" \in command.options =>
        \A k \in DOMAIN file : Instruction(file[k]) => file[k].comment = "none"

\* When the arguments, the companion or the source are refused the destination
\* stays as it was, in every run of the command.
RefusalLeavesFile == ~ command.accepted => file = old
=============================================================================
