# A TLA+ model of c2goasm

c2goasm turns the assembly that GCC (amd64) or Clang (arm64) writes for a C
file into Go (Plan 9) assembly. These modules model the parts of it whose
correctness is not visible in one function's text, check them with TLC on small
programs and prove the main results with TLAPS for programs of any size.

Paths below are relative to the repository.

## The system

A conversion is one sequential pipeline with a single concurrent part.

| Component | Code | State | Operations |
|---|---|---|---|
| Command line | `cmd/c2goasm/main.go` | the destination file | `Run`: read, `Process`, write, then strip, compact and format the file in place |
| Pipeline | `internal/asm/pipeline.go`, `emit.go` | the IR (`Program`, `Function.Body`), shared and rewritten in place | `Process`: parse, analyze, rewrite, attach direct entries, encode, emit |
| Source parser | `internal/asm/parser.go`, `source.go`, `scanner.go`, `registers.go` | none between lines | text to IR, one instruction per source line |
| Function discovery | `internal/asm/analyze.go` | list of globals and their positions | find functions from `.type`, `.globl`, `Begin function`; bound their bodies |
| Label rewriting | `internal/asm/rewrite.go:44-215` | local label maps, global definitions | rename local labels, resolve cross-function references |
| Constant tables | `internal/asm/constants.go` | tables, labels, alias map, pending relocations | collect data sections, resolve aliases and relocations, emit DATA/GLOBL |
| Address rewriting | `internal/asm/rewrite.go:10-42, 246-881` | the function body, compacted in place pass after pass | RIP-relative references (amd64); ADRP/PAGEOFF/GOT idioms (arm64) |
| Direct entries | `internal/asm/direct.go`, `companion.go` | `Function.direct` | read the Go companion, certify leaves, emit wrappers |
| Encoder | `internal/asm2plan9s` | program batch, per-function batches, indirect lines, known symbols | validate, assemble in batches with a pool of goroutines, encode each instruction |
| cgo entry | `nativecall` | none | call a native address |

The components interact by calls. `Process` owns the IR and hands it from one
pass to the next; the `Encoder` is called back for each instruction by `Emit`.
State is shared in two places: the bodies of functions, which are slices that
the passes rewrite in place, and the encoder's maps, which the goroutines of
`BeginFunctions` fill and `Encode` reads.

What is hard here: the pool (interleaving, loss, deadlock); two levels of
fallback whose errors are dropped; a depth-first walk whose result only the Go
linker judges; rewriting passes that look at code in the order of its lines
while it runs in the order of its jumps; a destination file that is rewritten
after it was first written.

What makes each component correct:

* **Call graph** - the direct native calls that remain form no cycle, and no
  call is made indirect without need.
* **Encoder** - the outcome is a function of the program; every batch is
  filed, once, before anything reads it.
* **Address rewriting** - along every path of the code, each access reaches the
  address it reached before.
* **Label rewriting** - a reference means the same place after renaming.
* **Constant tables** - bytes and relocations tile the table; a label finds
  its byte, whatever the order of a Go map.
* **Function discovery** - bodies partition the code.
* **Direct entries** - a certified leaf makes no call, touches no reserved
  register and returns.
* **Pipeline and command line** - what is refused leaves the destination as it
  was; a write that fails, or the end of the process, may leave it torn, and a
  later run that succeeds has then put the whole conversion there.

## Modules

| Module | Stands for | Depends on |
|---|---|---|
| `Digraphs` | paths, reachability and acyclicity of a relation | - |
| `CallGraph` | `cycleBreakingCallLines`, `directNativeEdge` | `Digraphs` |
| `Encoding` | the input of the encoder and what its assembler answers | - |
| `EncodingSpec` | abstract: one step from the program to its outcome | `Encoding` |
| `BatchEncoder` | `BeginFunctions`, `BeginFunction`, `Encode`, driven by `Process` and `Emit` | `Encoding`, refines `EncodingSpec` |
| `PageRewrite` | the arm64 part of `rewriteFunction`, and the code it rewrites, running | - |
| `DataLines` | `EmitTables` | - |
| `ConstTables` | `collectConstTables`, `resolveConstRelocs`, `rewriteAMD64SymbolReferences` | `DataLines` |
| `Analyze` | `findFunctions`, `analyze` | - |
| `LabelRewrite` | `RewriteLabelsGlobal` | `Analyze` |
| `ControlFlow` | `parseCompanion`, `attachDirectEntries`, the validations, the encoding of calls and jumps, and both programs running | `LabelRewrite` |
| `Convert` | `Run` and the passes over the destination file | - |
| `MC...` | small instances for TLC | the module of that name |
| `...Proofs` | theorems and proofs; `ConstTablesProofs` uses those of `DataLinesProofs` | the module of that name |
| `NumberLemmas` | facts about naturals that several proofs use | - |

Definitions keep the code's names where they have one. A definition whose
comment begins with "Wrong variant" models a plausible mistake in the code next
to it; no specification uses it, and it serves to see that the properties notice.

### CallGraph

`cycleBreakingCallLines` decides which native calls are emitted through a
register. Functions are `NOSPLIT`, so the linker refuses a cycle of direct calls.

| Code | Model |
|---|---|
| `funcs[i].Body` | `body[i + 1]`, a sequence of `[opcode, symbol]` |
| `adjacency[name]`, `state[name]` | functions over `Func` (`byName` is the identity) |
| the recursion of `visit` | `stack` and one `cursor` per function, each iteration an action |
| the loop over instructions (345-362) | `ScanInst`, `ScanNextFunction`; the return without edges is `ScanEnd` |
| the loop over functions (386-390) | `VisitRoot`, `SkipRoot`, `Return` |
| the cases of the inner switch (377-383) | `Descend` (unvisited), `BackEdge` (visiting), `CrossEdge` (visited) |
| `state = visited` (385) | `Leave` |

A source line stands for the instruction on it: the parser makes one
instruction of a line. Names of functions are distinct, as `analyze` makes them.

* `NoDirectCycle` - when the walk has returned, the direct edges that are left
  have no cycle.
* `EveryIndirectionNeeded` - each line made indirect lies on a cycle that is
  direct otherwise.
* `Termination` - the walk returns. Fairness: it is sequential code that goes on
  while it can.

Run `call_graph`: every multigraph of three functions with at most two calls
each (calls to oneself and parallel calls included), and bodies that mix calls
with conditional jumps, external calls and calls of a register. Three functions
are enough for a back edge, a cross edge, a cycle through an already indirect
edge and a second root that meets a visited tree.

### BatchEncoder

One action per step of the main goroutine or a worker that another could see.

| Code (`encoder.go`) | Model |
|---|---|
| the main goroutine | `phase`: begin, dispatch, wait, emit, done, failed |
| validation errors (57-62) | `Reject` |
| `batchEncodeProgram` (67-71) | `BatchProgram`, `BatchNothing`; its error starts the pool |
| `workers`, `wg.Add`, `go` (72-86) | `NumWorkers`, `StartPool` |
| `jobs <- fn` and its receive (87, 98-100) | `HandOver(w)`: the channel is unbuffered |
| `close(jobs)`, `wg.Wait()` (101-102) | `Close`, `Wait` |
| `batchEncodeFunction` (88-91) | `Assemble(w)`: an error or an empty batch goes on to the next job |
| `mu.Lock`, map write, `mu.Unlock` (92-95) | `Lock(w)`, `Store(w)` |
| end of the range, `defer wg.Done()` | `Exit(w)` |
| `BeginFunction` (107-124) | `BeginFunction`, `Selected` |
| `Encode` (444-484) | `EncodeFromBatch`, `EncodeDirect`, `EncodeAlone`, `EncodeError` |

An instruction is one of six `Kind`s, what the encoder and the assembler tell
apart: with a mnemonic, plain, holding a distance to a label, a prefixed branch,
of unknown length, refused. The output keeps for each line the text it was
assembled in, not its bytes.

* `OneMapWriter`, `PoolComplete` - the map has one writer, and holds each batch
  when `Encode` begins to read it without the mutex.
* `Reproducible` - the module implements `EncodingSpec`: what comes out, or that
  nothing does, is a function of the program.
* `Termination` - every conversion ends.

Fairness: the main goroutine keeps running while it can, each worker likewise,
and somebody receives what is sent. That is what the Go scheduler gives to
runnable goroutines; the assembler is taken to end. No fairness is assumed on
which worker receives or gets the mutex.

Run `batch_encoder`: three functions with a body for every way a function can
fare, two workers, so that a worker returns for a second job and one may get
none; programs that are rejected, that assemble in one text, and that do not.
Run `batch_fallback` shows a finding (below).

### PageRewrite

Clang's arm64 code forms an address in two halves that Go assembly cannot
express. Four passes go through the body line by line; control goes through it
jump by jump, and may enter between the halves. The model runs the passes on a
function, then executes the function as it was and as it became side by side.

| Code (`rewrite.go`) | Model |
|---|---|
| `fn.Body`, the loop's index, `out` | `body`, `i`, `out`; `program` stays as it was |
| `nextInst` (489-506) | `NextInst` |
| `rewriteSymbolAddresses` (532-599) | phase "pairs": `RewritePair`, `KeepInPairs` |
| `rewriteGotLoads` (601-675) | phase "loads": `RewriteGOTLoad`, `RewritePageLoad`, `KeepInLoads` |
| `rewriteRemainingPageBases` (677-729) | phase "bases": `RejectBase`, `RewriteGOTBase`, `RewritePageBase`, `KeepInBases` |
| `rewriteRemainingPageOffsets` (731-787) | phase "offsets": `RewriteOffset`, `RewriteGOTOffset`, `KeepInOffsets` |
| `rewritePageBaseUses`, `rewriteRemainingGOTPageUses` | `RewritePageUses`, `RewriteGOTUses` |
| the last loop of `rewriteFunction` (22-42) | `Check` |
| the machine | `Execute`, `End`: line by line, a branch goes either way |

A register holds the page of a symbol, the page of its GOT slot, an address, or
junk. A use of `sym@PAGEOFF` through the page of `sym` is the address; a page
used without PAGEOFF stands for an aligned symbol, as in the table walks of the
comment at 714-715. Comments and blank lines, which every pass skips, and
operands that form no address are left out; a label other than the linker's
stands for every line that ends the search for a partner.

* `SameAddress` - on every path, each access that reached a known address
  reaches the same one afterwards.
* `ControlKept` - no pass loses, adds or reorders a label, branch or jump.
* `OutBehind` - a pass that compacts `fn.Body` in its own array stays behind
  its reader.
* `UnresolvedFails` - no function that forms the address of an unknown symbol
  is converted.

`SameAddress` does not hold of all code: two families of functions break it,
which are findings (below). `Addressed` says of which functions it holds, as
conditions on their lines, jumps and labels:

* `WellFormed`: an ADRP sets a register to the page of a symbol, and jumps lead
  to labels; `GOTApart`: a GOT slot is loaded whole, through its own page, and a
  symbol that has one is not accessed directly; `HalvesMatch`: an access behind
  an ADRP into its base has the ADRP's symbol. A compiler keeps to these.
* `PagesUnshared`: a page that an `add` right behind it completes in another
  register is not used again. One family of
  `page_shared` is without it.
* `AddendsCounted`: when a page with an addend, completed nowhere, may reach an
  access, the scan over lines counts the addend where the access needs it. `Sees`
  is what the scan sees, `Finds` what control may reach; they differ in the
  other family of `page_shared`.

Run `page_rewrite`: functions of four to eight lines over two registers, a table, a
function symbol and an unknown one, in five shapes (straight, loop, diamond, a
block laid out before the one that sets up its base, dead code): the 68447 of
the 86796 that are `Addressed`, most of which compute addresses no compiler
would. Of the 4755 in which every access finds its page or an address, 4383 are
among them, and all the others are of the two families. Two registers are
what a scan must tell apart; offsets 0 and 1 tell a lost addend from one counted
twice. `page_shared` runs functions of the 4755 that are of either family, none
of both (`SharedBasePrograms`, `AddendPrograms`): each set alone breaks
`SameAddress`.

### DataLines and ConstTables

`collectConstTables` reads the source once. What lies in data sections goes into
tables of bytes with labels and references. Aliases and references between
tables are resolved afterwards, then those of amd64 code, and `EmitTables`
writes the tables out as DATA and GLOBL lines.

| Code (`constants.go`) | Model |
|---|---|
| `cur`, `inData`, `tables` | the same; `cur` is a sequence of at most one table |
| the switch over nodes (49-161) | `DataSection`, `RejectSection`, `TextSection`, `Common`, `SetAlias`, `PutBytes`, `PutReloc`, `RejectData`, `Label`, `Skip` |
| the rounds over `aliases` (163-187) | `rounds`, `todo`, `progress`; `SkipAlias`, `ResolveAlias`, `RejectAlias`, `NextRound` |
| `range` over a map | any order of aliases; any of the labels that match (`Locations`) |
| `resolveConstRelocs` | `WriteDifference`, `KeepReloc`, `RejectReloc` |
| `rewriteAMD64SymbolReferences` (`rewrite.go`) | `RewriteReference`, `RejectReference`, `SkipLine` |
| `EmitTables` | `EmitReloc`, `EmitBytes`, `EmitGlobl` |

A table also remembers, in `from`, the source line of each byte; only properties
look at it. Numbers, strings and expressions are taken as parsed; a number is
its bytes in little-endian order. The order in which `resolveConstRelocs` visits
the references does not follow the code's: any order is allowed.

* `BytesKept` - the bytes of a data line are in one table, once, together and
  writable if they must be.
* `LabelsStand` - a label that is defined once stands at the first of the bytes
  that follow it, and a common at its own.
* `AliasesResolved` - whatever the order of the map, an alias of an alias of
  data stands at the right distance.
* `ReferencesKept` - a reference leads to the label it is spelled with.
* `CodeStaysCode` - the address of code is never a place in a table.
* `TablesEmittable` - what reaches `EmitTables` is what its proof assumes.
* `Tiled` - the lines of a table follow each other up to its padded size, and
  each reference has its own.
* `Terminates` - collection ends, also with cyclic aliases. Fairness: it is
  sequential code that goes on while it can (`WF_vars(Next)`).

Run `const_tables`: sources of up to eleven lines. Two data sections of any kinds
with a label, data of every kind and a second label each, so that tables merge
or split and references go both ways within and between them; commons in each
kind of section; three aliases that chain, fork, form a cycle or lead nowhere;
each kind of amd64 operand. Two tables and two labels tell a right target from a wrong
one; references beside odd numbers of bytes reach every width of a DATA line. In the sources of `const_text`
code follows a `.comm` or lies in `.text.f.constprop`; in those of `const_twin`
a table has labels `x` and `_x`. Among those of `const_tables` are some in which a
data section is opened by a directive without arguments (`BareSections`), which
`RejectSection` ends with a panic.

### Analyze, LabelRewrite and ControlFlow

These follow the functions of a source, and the control that goes through them,
from the first line to the emitted text, which then runs next to the source.
`Analyze` finds functions and bounds their bodies, `LabelRewrite` renames labels
in these bodies, `ControlFlow` reads the companion file before and does the rest
after.

| Code | Model |
|---|---|
| `prog.Nodes`; `Function.Body` is a slice of it | `nodes`; a body is a range of its lines, so overlapping bodies share them |
| `findFunctions`, first loop (107-133) | phase "scan": `ScanGlobl`, `ScanSize`, `ScanBegin`, `ScanOther`, with `Add` |
| second loop (134-160), `findLabelIndex` | phase "bounds": `FindBounds` |
| `analyze`, `functionEnd`, `sliceBetween` | phase "analyze": `MakeFunction`, `RejectName` |
| `RewriteLabelsGlobal`, first and second loop | phases "define" and "rename": one action per node |
| `definitions`, `resolve` | `Definitions`, `Resolve`, `Ambiguous` |
| `parseCompanion` | phase "companion": `DeclareEntry`, `IgnoreDeclaration`, `RejectDeclaration` |
| `attachDirectEntries`, `certifyDirectLeaf` | phase "renamed": `Certify`, `RejectEntry`, `Attach`; `Certified` |
| `validateReservedScratch`, `validateNativeControlFlow` | `AcceptScratch`, `RejectScratch`, `AcceptControl`, `RejectControl` |
| `Emit`, `Encode`, `encodeDirect`, `encodeCall`, ... | phase "encode": `EncodeCode`, `EncodeError`, `EmitLabel`, `EmitNothing` |
| a processor | `SrcStep` on the lines, `DstStep` on the items of the output |

An instruction is its kind (call, jump, conditional jump, return, something a
leaf may not do, plain), its operand, the registers it names and whether it
writes R11. The classes of registers are parameters. Entries are certified in
any order; the code sorts them by name. Which calls become indirect is the matter
of `CallGraph`: here any may. An instruction that belongs to a batch and one that
is encoded alone are both possible for every function, since a batch can fail. The passes
over addresses and tables, which sit between label rewriting and the entries, are left to
their own modules; `Emit`'s second test for labels of tables with them.

* `BodiesOwnTheirCode` - every function has a body, which its names lead to; a
  body has lines of its function alone and all instructions of it; and `.globl`
  exports the function it names.
* `NamesAgree` - after renaming a reference, in code or data, still spells the
  label it meant and none of its body that it did not mean, and no body has two
  labels of one name.
* `EntriesAllOrNone` - wrappers are made for all entries or for none, for
  exported and certified functions.
* `LeafContained` - a leaf that Go entered calls nothing, stays in its body, and
  names no reserved register, on every path.
* `SameControl` - the output executes the source's instructions in the
  source's order through every call, jump, lowered jump and return.
* `ScratchKept` - who reads R11 finds what the source left there.

Run `control_flow`: pairs of functions in the layouts of GCC, of Clang on ELF
(with `.size` and comments) and on Mach-O (with comments and pool labels), with
bodies of up to five lines that call, jump, return, use R11 or do what
a check must refuse; companion files that are accepted and refused. Two functions
with two labels suffice for a reference to be resolved in the wrong one, a third
makes a label ambiguous; `MaxDepth = 2` open calls reach a return into a caller
that was itself called. Left out of these sources, because the properties do not
hold or do not apply: functions whose names differ by an underscore, and labels
that get the name of a function (both in `control_twins`); jumps into another
function's body, which README.md:271 excludes and Go's assembler refuses; bodies that run off
their end; and references in data to a label that stands before a directive
which the list in `isDataLabelAt` does not know. Labels of data inside a body, as
Mach-O has them, are referred to from data where the list knows the directive,
and from the code of their own and of another function where it does not.

### Convert

`Run` writes the destination, then each of `-s`, `-c`, `-f` reads it, rewrites
its lines and writes it again.

| Code (`main.go`) | Model |
|---|---|
| what `Process` returns, or why it fails | `command.lines`, `command.accepted` |
| `os.WriteFile` | `Truncate`, then `Write`, `WriteFails` or `Crash` with any prefix written |
| `stripGoasmComments`, `containsAny` | `Strip`, `Stripped` |
| `compactOpcodes`, `parseOpcodeBytes` | `CompactText`, `CompactCode`, `RejectCode`, `EndCompact` |
| `compactByteArray` | `Compacted` |
| `formatAssembly` | `Format`, `FormatNothing`, `FormatFails` |
| `rawBytesLine` (`assemble.go`) | `Raw`, which makes the lines of the instances |

A line of code is its literals, each with the bytes of its digits in order; a
text is a value. `whole` says whether the last write of the file ended. asmfmt
moves white space only; with `-w` it writes the file in place, in the two steps
of any other write, unless there is nothing to move. It is taken to end with the
command. Code, and on arm64 decoded instructions, have the source's
line as a comment; whether one of the words that `stripGoasmComments` looks for
is in that comment (`DWORD PTR`) is part of the line.

* `MachineCodeKept` - a complete file is the old one or has the machine code of
  the conversion, byte for byte and on the same side of each label.
* `SuccessComplete` - a run that reports success has left the whole conversion,
  whatever was there before and however earlier runs ended: compacted, with no
  comment on the code and no two lines that could be one, or else line for line,
  where `-s` has taken nothing but comments of instructions.
* `RefusalLeavesFile` - what is refused never touches the file.

Run `convert`: every combination of options over functions of up to three lines
of 1 to 12 bytes with labels between them, which reach every group of
`compactByteArray` (16, 8, and a tail of 4, 2 and 1), on both targets; a crash or
a failing write at every point, and a second run of the command (`MaxTries = 2`)
on what the first one left. A third run starts from the same files as the second.
`convert_strip` states what is said of `-s` and shows that the code does not do
it (below).

No fairness is assumed in `ControlFlow` and `Convert`; they state safety only.
`CHECK_DEADLOCK FALSE` is given where a conversion ends, with a result or an
error.

## Findings

* `batch_fallback`: when one instruction of a function has a length that
  `instLen` cannot tell, the function's batch is dropped and its instructions
  are assembled one by one; one that holds the distance to a label then comes
  out with a placeholder, without an error (`assemble.go:75-93`).
* `page_shared`, one family: `adrp x1, s@PAGE; add x2, x1, s@PAGEOFF` followed by an
  access through `x1` loses `x1` (`rewrite.go:558-594`).
* `page_shared`, the other: an ADRP with an addend whose uses are reached by a
  jump, not by the linear scan, has its addend counted twice (`rewrite.go:713-721`).
* `const_text`: a `.comm` in a text section, or a text section with `const` in
  its name, turns the labels that follow into data (`constants.go:91-95`, `197`).
* `const_twin`: with `x` and `_x` in one table the order of a Go map decides
  where a reference leads (`constants.go:438`).
* `control_twins`: C functions `f` and `_f` become one (`analyze.go:93`), and a
  jump to function `f_L3` becomes one to label `.L3` of `f` (`rewrite.go:78`).
* `convert_strip`: `-s` leaves the comments of instructions that are encoded in
  QUADs alone, and on arm64 those of all that are decoded to a mnemonic
  (`main.go:170`). No property of `convert` states that `-s` takes any comment;
  `SuccessComplete` says what it must not take.

Seen in the models, without a run of their own:

* `-c` fails on every arm64 output that has a `WORD` literal, after the output
  was written: `parseOpcodeBytes` allows four digits where `rawBytesLine` writes
  eight (`main.go:242`; `RejectCode`).
* A table opened by `.const`, `.cstring` or `.rodata` alone ends the conversion
  with a panic (`constants.go:214`; `RejectSection`).

## What is proved

The proofs hold for every value of the constants: any number of functions,
workers and instructions, any program.

**CallGraphProofs** (assuming `N` is a natural number and the programs are
sequences of instructions). `NoDirectCycle` is not inductive: it speaks of the
end only. `IInv` adds what depth-first search relies on. `ScanInv`: adjacency is
exactly the edges scanned. `StackInv`: the functions being visited are those on
the stack, once each. `EdgeInv`: an edge that was looked at and left direct leads
to a visited function, or to the next one on the stack. `PathInv`: the stack is
a path of such edges. `IndirectInv`: an indirect line closes a cycle of them. And the direct edges among visited functions are acyclic. When `Leave` makes a
function visited, all its direct edges lead to visited functions, so it joins an
acyclic set that has no edge back to it (`AcyclicExtend`). The results are
`TypeCorrect`, `Invariance`, `DirectCallsAcyclic`, `IndirectionNeeded`, and
`AcyclicHasNoClosedWalk`, which ties `Acyclic` to walks that return.

**BatchEncoderProofs** (assuming `N` and `Procs` positive). `PoolInv`: the
WaitGroup counts the workers that have not exited (by cardinality of finite
sets). `JobInv`: a function handed over is in one worker's hand or filed.
`LockInv`: the writer holds the mutex. `BatchInv`: which map is in use, and what
the program's holds, follow from the program. `EmitInv`: what is emitted is the outcome up to
`current`. From these follow `MapWritesExclusive`, `PoolDrained`, and by a
step-by-step simulation `Refinement`: every behaviour of the encoder is one of
`EncodingSpec`.

**PageRewriteProofs** (assuming a bound on offsets, numbered lines, and that a
symbol called unknown is neither a table nor a function). `IInv`
says that while a pass runs, the nodes kept and the nodes not yet read together
hold every control node, genuine and in the order of lines. Every action is an
instance of one lemma (`Compacted`): a step that reads positions `i` to
`next - 1` keeps nodes whose lines are among these, and may rewrite the unread
part without touching control.

`UnresolvedFails` has a hypothesis. `rewriteGotLoads` looks up the symbol of the
access behind an ADRP, not that of the ADRP; that both are the same is what
`HalvesMatch` says of a source; all functions of `page_rewrite` satisfy it, being
`Addressed`. `Pending` follows every ADRP of an unknown symbol until a pass
fails on it. The first pass leaves lines where they were behind an ADRP
(`Faithful`), so the partner that the second finds is the one of the source
(`LoadsTogether`).

`SameAddress` is proved for functions that are `Addressed`, in two parts. The
first is about lines. `AInv` gives each node that a pass has (`Left`: kept, or
still to read) its `Fate`: it is its line of the program, that line rewritten on
its own (`Own`), or an ADRP with the line that completed it (`Joint`), which then
is gone. No ADRP, addition or load is dropped unless so (`Accounted`). An ADRP
rewritten on its own has its addend if and only if the accesses it may reach need
it there (`Right`). That is what the scan decides, and it is the hard part: a scan
runs over what earlier steps left, so `AInv` also says that as long as an ADRP is left, so
are the accesses that it sees in the source (`SeesStays`). What an action has to
show for `AInv` is the lemma `CompactStep`.

The second part is about the two executions. `RInv` says of each access that is
left, at every position of control, that it is `Served`: when its base register
holds a page or an address in the source, it holds the matching address in the
rewritten code (`Agree`). There are two exceptions. Between an ADRP and the line
that completed it the source has not got there yet (`Amid`); no jump leads into
the middle, since only the linker's labels are there. And a page may be lost when
it reaches control but not the access (`Excused`): the lines it may get to
are a set closed under control (`Carries`), so what `Finds` says of the access,
by quantifying over such sets, is kept step by step without an induction.

Results: `TypeCorrect`, `CompactionSafe`, `ControlFlowKept`, `UnknownFails`,
`AddressesAreKept`.

**DataLinesProofs** (assuming only that `Strip` is a function on names, and
that the tables are such as `TablesEmittable` states, which `const_tables` checks
of the tables that `ConstTables` hands over). `Tiled` is not inductive: that a reference is
not skipped needs `Ahead`, which says that references without a line lie ahead of
the position and those with one wholly behind it. `End` then stops the bytes at
the nearest reference, which exists since every set of naturals has a least
element, and `Width`, by halving, never reaches past it. Results: `Invariance`, `TablesTiled`.

**ConstTablesProofs** (assuming that sources are sequences of `SourceLine` in
which directives give numbers a width). The tables are those of the collection,
so nothing is assumed of them. The invariant says of each table, the one being
filled included, that its bytes, its sources and its references agree
(`SoundTable`): a reference lies inside the table, apart from the others, on bytes
that are zero. `Collected` bytes are tracked by line: those of the lines before
the position are in one table, once and together, and those of later lines
nowhere; every later change of a table only makes it grow (`Grows`). Likewise for
labels (`LInv`): a label just put is at the end of the open table and the next
byte is that of the next line; from then on labels are only added (`Keeps`), and
one that is defined once is added once.

Aliases and references are about names, and the code looks names up by map
iteration and with the underscore stripped. What it promises it keeps for sources
whose names are `Distinct`: each is defined once, and none is told from another
only by that underscore. The theorems state this hypothesis, `const_tables`
checks it of all its sources (`MCSources`), and the finding of `const_twin` shows
a source without it. Under it every lookup has one answer, that of the name as it
is spelled (`PlainLocations`, `PlainTableFor`). For aliases, `AInv` relates the
rounds left to the aliases left, so that those left at the end are aliases of
nothing in a table (`RoundsSuffice`, for all sources), and `Naming` follows each
alias from its line (`Kept`) to its label (`Settled`), which no later alias moves.
For references, `Held` says that the first byte of each reference line has its
reference, from when it is read, through every later change of a table
(`Refers`), until `resolveConstRelocs` writes the difference there
(`DifferenceAt`), after which no reference that is left touches those bytes;
`LinesRight` and `AddressRight` say the same of what is made from them. For labels
of code there is a second hypothesis, `PlainText`: a label that is read as data,
because of the section's name or a common before it, is data. The finding of
`const_text` shows sources without it.

Results: `ConstTypes`, `TablesAreEmittable`, `DataIsKept`, `LabelsAreRight`,
`RoundsSuffice`, `AliasesAreRight`, `ReferencesAreRight`, `CodeIsCode`, and
`ConversionTiles`, which puts the collection and `TablesTiled` together.

**ControlFlowProofs** (assuming the shapes of lines and declarations, that
`TrimPrefix` undoes `AddPrefix`, and what instructions there are). The
invariant adds to `EntriesAllOrNone` what is known of the functions that were
certified before any wrapper is made, and that entries, functions and
instructions stay as they are from then on. Results: `Invariance`,
`EntriesTogether`, and `ControlFlowTypes`, which follows positions through all
of `Analyze`, `LabelRewrite` and both executions.

The other results are about sources as compilers write them. What that is are
conditions on the lines alone, checked of the sources of `control_flow`
by assumptions that TLC evaluates (`MCLaid`, `MCNamesApart`, `MCControlStays`,
`MCTargetsNamed`, `MCScratchUsed`), which are those of three layouts; the
one source that is not `Laid` gives two functions one Go name and is refused.

* `Laid`: a function has one label and a mark (`.size`, or a comment), types agree with
  sizes, no two symbols are told apart by an underscore alone, and a `.size` ends
  its function. The code learns names and ends from different lines, with and without the
  underscore, and merges what it learns twice. `DInv` says what it knows
  at every step: of the lines read (`Heard`, `Listed`), of the candidates that
  have their labels (`Bounded`), of the functions made (`Made`). Every mark
  leads to one label, whatever its spelling (`MarksLead`), and the line after a
  body is its `.size` or the next label (`EndFacts`); so each body has the lines
  of its function (`BodiesRight`).
* `NamesApart`: new names are new, and local labels share no name with other labels. `NInv`
  says of the lines that each of the two passes has behind it (`Passed`) which
  definitions were collected (`Defines`) and what the lines are now (`Rewrites`).
  The second pass looks at lines the first one saw, some of them renamed since;
  `LocalFacts` says that both passes take the same labels for local ones, since
  what follows a label is looked up within its body only. A label of another body is meant when it
  is the only one of its name; two are refused (`Ambiguous`), which `MeantNames`
  needs.
* `ControlStays`: code does not run off the end of its function.
  `certifyDirectLeaf` looks at lines one by one and at the spelling of a
  jump's target; the proof is that this is enough on every path. `Contained` says
  that a leaf running is at a line of code of its body with nothing open. The
  next line, when it does not jump or return, is in the body since the body has
  all of the function's code (`ReachedInBody`); a jump spells a label of the
  body, hence means one label, and that one (`OneMeaning`), with code of the
  function behind it. `OnlyNames`: renaming leaves the instructions as they were
  certified.

* `TargetsNamed`: calls and jumps say what they mean. No label of the function
  gets a name that is a pool's or a function's (a jump to one would be taken for
  a call); a name that only other functions have as a local label is that of two
  of them, so that the pass over labels refuses it; and a symbol that Go spells
  like a function is that function. Then the processor on the source and the one
  on the output stay `Together`: each is at the item encoded from the other's line
  (`Matched`), and the calls open on both sides pair up (`Pairs`). That they
  go on together needs that the items of a body are its lines in order
  (`Encodes`, kept by `EInv` line by line), and that both come to the same place
  from a reference, be it a label of the body, a function, or what the scratch
  register was loaded with (`Targets`). Both return together.
* `ScratchUsed`: a function knows what it reads in the scratch register. There is
  a set of lines where what the register holds may still be read; what comes
  before one sets the register or is in the set, except that a function called
  by name may have returned it. That is what calling conventions leave to R11: it
  is no argument register, and a call through a pointer leaves nothing in it.
  Functions that name it may pass values in it when they call by name; there
  `validateReservedScratch` matters, which lowers no call through it in
  a function that names it (`ScratchFree`, kept by `SInv`). `Kept` says that in functions
  that name the register both processors have the same in it at the lines of such
  a set, and that no open call returns to one of them (`Spared`).

Results: `BodiesAreRight` (under `Laid`), `NamesAreRight` (with `NamesApart`),
`LeafStays` (with `ControlStays`), `ControlIsKept` (with `TargetsNamed`) and
`ScratchIsKept` (with `ScratchUsed`), each with those before it.

**ConvertProofs** (assuming that commands have the three options, and lines of
code as `rawBytesLine` writes them: every literal with all digits of its width,
`AsWritten`). `IInv` says for each pass what it has already done of its work
(`Done`: line for line the output but for stripped comments, then compacted and dense) and that the bytes written plus those
pending are those of the conversion (`Stands`); a pass reads what was written by
its own run, although an earlier one may have left it torn. The arithmetic is in
lemmas over code of any length: the slices of a line put together are its bytes
(`Slices`, `Offsets`), `Compacted` keeps them and leaves no two lines that could
be one, and the machine code of two texts put together is that of each. Results:
`ConvertTypes`, `RefusedKeepsFile`, `CodeKept` (`MachineCodeKept`, with `-c` and
for code of every length) and `SuccessMeans` (`SuccessComplete`).

**NumberLemmas** has two facts that the library only states with an operator
parameter, over a set instead, so that they can be used: every set of naturals
that is not empty has a least element, and one that has 0 and successors has all
naturals. The inductions over `FlattenSeq` and offsets in `ConvertProofs` are
made with it.

Only checked by TLC: `Termination` and `Terminates` (liveness is out of the
prover's reach), and the findings. Every safety property of a passing run is proved, under the hypotheses
above. No module uses a RECURSIVE operator.

## Plan

Done: `CallGraph`, `BatchEncoder`, `PageRewrite`, `ConstTables`, `Analyze`,
`LabelRewrite`, `ControlFlow`, `Convert`, and the proofs above. Next: one body
through `PageRewrite` and `LabelRewrite` together, since the labels that one moves
around are those the other renames.

## Not modelled

* The source parser and scanner (`parser.go`, `source.go`, `scanner.go`,
  `registers.go`): they keep no state between lines; the models start from the IR.
* Instruction lengths (`instLen`, a decoder from a library) and the bytes the
  assembler returns: taken as given by kind.
* In `LabelRewrite`: labels that share a line with an instruction (`inst.Label`)
  and symbols inside memory operands, which the code treats as it does label
  lines and operands.
* The types in a companion file beyond their count and size; go/parser; the
  text of wrappers.
* `arch`: constant tables. `nativecall`: calls a C address. `scripts`,
  `examples`: drivers of third-party code.
