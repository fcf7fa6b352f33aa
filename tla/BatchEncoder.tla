----------------------------- MODULE BatchEncoder -----------------------------
(***************************************************************************)
(* The Encoder of internal/asm2plan9s/encoder.go as Process drives it:     *)
(* BeginFunctions assembles the program in one text, or, when that fails,  *)
(* hands the functions to a pool of goroutines over an unbuffered channel; *)
(* then each function is begun and its instructions encoded in order.      *)
(* One action per step of the main goroutine or of a worker that others    *)
(* can observe: a channel operation, the mutex, the map, the WaitGroup.    *)
(***************************************************************************)
EXTENDS Encoding

CONSTANT Procs      \* runtime.GOMAXPROCS(0)

ASSUME ProcsAssumption == Procs \in Nat \ {0}

MaxWorkers == 8
Smaller(a, b) == IF b < a THEN b ELSE a
NumWorkers == Smaller(Smaller(Procs, MaxWorkers), N)
Worker == 1 .. NumWorkers

Nobody == 0         \* no worker holds the mutex
NoFunction == 0     \* the worker holds no job

VARIABLES
    program,        \* the program being converted; no step changes it
    phase,          \* where the main goroutine is
    batches,        \* which map is not nil: "none", "program" or "functions"
    programBatch,   \* machine code by line, for the whole program
    batchByFn,      \* the same by function; {} where the map has no entry
    sent,           \* functions handed over so far
    closed,         \* close(jobs)
    wg,             \* the WaitGroup's counter
    mu,             \* the holder of the mutex
    worker,         \* where each worker is
    job,            \* the function each worker has in hand
    current,        \* <<function, instruction>> being encoded
    batch,          \* e.batch: machine code for the function being encoded
    out             \* what has been encoded

pool == <<sent, closed, wg, mu, worker, job>>
emission == <<current, batch, out>>
vars == <<program, phase, batches, programBatch, batchByFn,
          sent, closed, wg, mu, worker, job, current, batch, out>>

-----------------------------------------------------------------------------
Init ==
    /\ program \in Programs
    /\ phase = "begin"
    /\ batches = "none"
    /\ programBatch = {}
    /\ batchByFn = [f \in Func |-> {}]
    /\ sent = 0
    /\ closed = FALSE
    /\ wg = 0
    /\ mu = Nobody
    /\ worker = [w \in Worker |-> "unborn"]
    /\ job = [w \in Worker |-> NoFunction]
    /\ current = <<1, 0>>
    /\ batch = {}
    /\ out = {}

(***************************************************************************)
(* BeginFunctions, before the pool.                                        *)
(***************************************************************************)

\* validateReservedScratch or validateNativeControlFlow fails.
Reject ==
    /\ phase = "begin"
    /\ ~ program.accepted
    /\ phase' = "failed"
    /\ UNCHANGED <<program, batches, programBatch, batchByFn, pool, emission>>

\* There was nothing to assemble: both maps stay nil.
BatchNothing ==
    /\ phase = "begin"
    /\ program.accepted
    /\ NoEntries(program) /\ program.oneText
    /\ phase' = "emit"
    /\ UNCHANGED <<program, batches, programBatch, batchByFn, pool, emission>>

BatchProgram ==
    /\ phase = "begin"
    /\ program.accepted
    /\ ProgramAssembles(program) /\ ~ NoEntries(program)
    /\ phase' = "emit"
    /\ batches' = "program"
    /\ programBatch' = ProgramBatch(program)
    /\ UNCHANGED <<program, batchByFn, pool, emission>>

\* The error of batchEncodeProgram is dropped and the workers are started; the
\* first of them has nothing to receive before the last one runs.
StartPool ==
    /\ phase = "begin"
    /\ program.accepted
    /\ ~ ProgramAssembles(program)
    /\ phase' = "dispatch"
    /\ batches' = "functions"
    /\ wg' = NumWorkers
    /\ worker' = [w \in Worker |-> "receive"]
    /\ UNCHANGED <<program, programBatch, batchByFn, sent, closed, mu, job, emission>>

(***************************************************************************)
(* The main goroutine and the pool.                                        *)
(***************************************************************************)

\* Wrong variant: the loop stops one function short.
AllSentEarly == sent >= N - 1

AllSent == sent = N

\* jobs <- fn and the receive of some worker: the channel is unbuffered.
HandOver(w) ==
    /\ phase = "dispatch"
    /\ ~ AllSent
    /\ worker[w] = "receive"
    /\ sent' = sent + 1
    /\ job' = [job EXCEPT ![w] = sent + 1]
    /\ worker' = [worker EXCEPT ![w] = "assemble"]
    /\ UNCHANGED <<program, phase, batches, programBatch, batchByFn, closed, wg, mu, emission>>

Close ==
    /\ phase = "dispatch"
    /\ AllSent
    /\ closed' = TRUE
    /\ phase' = "wait"
    /\ UNCHANGED <<program, batches, programBatch, batchByFn, sent, wg, mu, worker, job, emission>>

\* Wrong variant: BeginFunctions returns without waiting.
NoWait ==
    /\ phase = "wait"
    /\ phase' = "emit"
    /\ UNCHANGED <<program, batches, programBatch, batchByFn, pool, emission>>

\* wg.Wait()
Wait ==
    /\ phase = "wait"
    /\ wg = 0
    /\ phase' = "emit"
    /\ UNCHANGED <<program, batches, programBatch, batchByFn, pool, emission>>

\* Wrong variant: an error ends the worker (return for continue).
AssembleOrReturn(w) ==
    /\ worker[w] = "assemble"
    /\ worker' = [worker EXCEPT ![w] =
                    IF FunctionBatch(program, job[w]) = {} THEN "exited" ELSE "lock"]
    /\ wg' = IF FunctionBatch(program, job[w]) = {} THEN wg - 1 ELSE wg
    /\ UNCHANGED <<program, phase, batches, programBatch, batchByFn,
                   sent, closed, mu, job, emission>>

\* batchEncodeFunction returns.  An error or an empty batch is passed over.
Assemble(w) ==
    /\ worker[w] = "assemble"
    /\ worker' = [worker EXCEPT ![w] =
                    IF FunctionBatch(program, job[w]) = {} THEN "receive" ELSE "lock"]
    /\ UNCHANGED <<program, phase, batches, programBatch, batchByFn,
                   sent, closed, wg, mu, job, emission>>

\* Wrong variant: the map is written without the mutex.
LockFree(w) ==
    /\ worker[w] = "lock"
    /\ mu' = w
    /\ worker' = [worker EXCEPT ![w] = "write"]
    /\ UNCHANGED <<program, phase, batches, programBatch, batchByFn,
                   sent, closed, wg, job, emission>>

\* mu.Lock()
Lock(w) ==
    /\ worker[w] = "lock"
    /\ mu = Nobody
    /\ mu' = w
    /\ worker' = [worker EXCEPT ![w] = "write"]
    /\ UNCHANGED <<program, phase, batches, programBatch, batchByFn,
                   sent, closed, wg, job, emission>>

\* e.batchByFn[fn.Name] = batch; mu.Unlock()
Store(w) ==
    /\ worker[w] = "write"
    /\ batchByFn' = [batchByFn EXCEPT ![job[w]] = FunctionBatch(program, job[w])]
    /\ mu' = Nobody
    /\ worker' = [worker EXCEPT ![w] = "receive"]
    /\ UNCHANGED <<program, phase, batches, programBatch, sent, closed, wg, job, emission>>

\* Wrong variant: wg.Done is called twice.
ExitTwice(w) ==
    /\ worker[w] = "receive"
    /\ closed
    /\ worker' = [worker EXCEPT ![w] = "exited"]
    /\ wg' = wg - 2
    /\ UNCHANGED <<program, phase, batches, programBatch, batchByFn,
                   sent, closed, mu, job, emission>>

\* The range over the closed channel ends; defer wg.Done().
Exit(w) ==
    /\ worker[w] = "receive"
    /\ closed
    /\ worker' = [worker EXCEPT ![w] = "exited"]
    /\ wg' = wg - 1
    /\ UNCHANGED <<program, phase, batches, programBatch, batchByFn,
                   sent, closed, mu, job, emission>>

(***************************************************************************)
(* BeginFunction and Encode, called by Process and Emit for one function   *)
(* after the other.  current[2] = 0: the function is not begun.            *)
(***************************************************************************)

\* The batch for f: the program's, the pool's entry (nil when it has none), or
\* one made on the spot whose error is dropped.
Selected(f) ==
    CASE batches = "program" -> programBatch
      [] batches = "functions" -> batchByFn[f]
      [] batches = "none" -> FunctionBatch(program, f)

BeginFunction ==
    /\ phase = "emit"
    /\ current[1] <= N
    /\ current[2] = 0
    /\ batch' = Selected(current[1])
    /\ current' = <<current[1], 1>>
    /\ UNCHANGED <<program, phase, batches, programBatch, batchByFn, pool, out>>

AtInst ==
    /\ phase = "emit"
    /\ current[1] <= N
    /\ current[2] \in DOMAIN program.body[current[1]]

KindAt == program.body[current[1]][current[2]]
Found == {c \in batch : c.line = current}

Emit(code) ==
    /\ out' = out \cup code
    /\ current' = <<current[1], current[2] + 1>>
    /\ UNCHANGED <<program, phase, batches, programBatch, batchByFn, pool, batch>>

\* The batch has the line.
EncodeFromBatch ==
    /\ AtInst
    /\ Found # {}
    /\ Emit(Found)

\* encodeDirect renders the mnemonic.
EncodeDirect ==
    /\ AtInst
    /\ Found = {}
    /\ KindAt = "mapped"
    /\ Emit({[line |-> current, text |-> "mnemonic"]})

\* assembleOne succeeds.
EncodeAlone ==
    /\ AtInst
    /\ Found = {}
    /\ KindAt \in {"plain", "relative", "undecodable"}
    /\ Emit({[line |-> current, text |-> "alone"]})

\* encodeDirect or assembleOne returns an error; Process drops its output.
EncodeError ==
    /\ AtInst
    /\ Found = {}
    /\ KindAt \in {"prefixed", "rejected"}
    /\ phase' = "failed"
    /\ UNCHANGED <<program, batches, programBatch, batchByFn, pool, emission>>

EndFunction ==
    /\ phase = "emit"
    /\ current[1] <= N
    /\ current[2] > Len(program.body[current[1]])
    /\ current' = <<current[1] + 1, 0>>
    /\ UNCHANGED <<program, phase, batches, programBatch, batchByFn, pool, batch, out>>

EndProgram ==
    /\ phase = "emit"
    /\ current[1] > N
    /\ phase' = "done"
    /\ UNCHANGED <<program, batches, programBatch, batchByFn, pool, emission>>

-----------------------------------------------------------------------------
EncodeNext ==
    \/ EncodeFromBatch \/ EncodeDirect \/ EncodeAlone \/ EncodeError

Main ==
    \/ Reject \/ BatchNothing \/ BatchProgram \/ StartPool
    \/ Close \/ Wait
    \/ BeginFunction \/ EncodeNext \/ EndFunction \/ EndProgram

Work(w) == Assemble(w) \/ Lock(w) \/ Store(w) \/ Exit(w)

\* Process has returned.
Finished == phase \in {"done", "failed"} /\ UNCHANGED vars

Next ==
    \/ Main
    \/ \E w \in Worker : HandOver(w) \/ Work(w)
    \/ Finished

(***************************************************************************)
(* The Go scheduler runs every goroutine that can go on; the assembler is  *)
(* a process that ends.  Nothing says which worker receives next or gets   *)
(* the mutex.                                                              *)
(***************************************************************************)
Spec ==
    /\ Init /\ [][Next]_vars
    /\ WF_vars(Main)
    /\ WF_vars(\E w \in Worker : HandOver(w))
    /\ \A w \in Worker : WF_vars(Work(w))

-----------------------------------------------------------------------------
TypeOK ==
    /\ program \in Program
    /\ phase \in {"begin", "dispatch", "wait", "emit", "done", "failed"}
    /\ batches \in {"none", "program", "functions"}
    /\ programBatch \in SUBSET Code
    /\ batchByFn \in [Func -> SUBSET Code]
    /\ sent \in 0 .. N
    /\ closed \in BOOLEAN
    /\ wg \in Nat
    /\ mu \in {Nobody} \cup Worker
    /\ worker \in [Worker -> {"unborn", "receive", "assemble", "lock", "write", "exited"}]
    /\ job \in [Worker -> {NoFunction} \cup Func]
    /\ current \in (1 .. N + 1) \X Nat
    /\ batch \in SUBSET Code
    /\ out \in SUBSET Code

\* Two workers never write e.batchByFn at the same time (a concurrent map write
\* ends a Go program at once).
OneMapWriter ==
    \A v, w \in Worker : worker[v] = "write" /\ worker[w] = "write" => v = w

\* When BeginFunctions returns after the pool, no worker runs any more (Encode
\* reads e.batchByFn without the mutex), and the map holds exactly the batch of
\* each function that assembles: none is lost, misfiled or half done.
PoolComplete ==
    phase = "emit" /\ batches = "functions" =>
        /\ \A w \in Worker : worker[w] = "exited"
        /\ \A f \in Func : batchByFn[f] = FunctionBatch(program, f)

\* "PC-relative loads exactly as the source file had them", and "no silent
\* fallback": an instruction that holds the distance to a label is assembled in
\* a text that holds the label, or the conversion fails.
LabelDistancesKept ==
    phase = "done" =>
        \A c \in out :
            program.body[c.line[1]][c.line[2]] = "relative" => c.text # "alone"

\* Every conversion ends, whatever the program: the pool drains, nobody is left
\* waiting for a function, the mutex or the WaitGroup.
Termination == <>(phase \in {"done", "failed"})

\* The outcome as EncodingSpec sees it.
Abstract == INSTANCE EncodingSpec WITH
    result <- [status |-> IF phase \in {"done", "failed"} THEN phase ELSE "pending",
               code   |-> IF phase = "done" THEN out ELSE {}]

\* The encoder implements EncodingSpec: how many workers there are, which of
\* them gets which function and in what order they finish changes nothing in
\* what is emitted ("the same C source and flags always produce the same Plan 9
\* assembly").
Reproducible == Abstract!Spec

=============================================================================
