-------------------------- MODULE BatchEncoderProofs --------------------------
(***************************************************************************)
(* Proofs about BatchEncoder for every number of functions and workers and *)
(* every set of programs: types, the worker pool, and the refinement of    *)
(* EncodingSpec.                                                           *)
(***************************************************************************)
EXTENDS BatchEncoder, FiniteSetTheorems, TLAPS

(***************************************************************************)
(* Constants and pure operators.                                           *)
(***************************************************************************)

\* There are workers, and finitely many.
LEMMA Workers ==
    NumWorkers \in Nat \ {0} /\ IsFiniteSet(Worker) /\ Nobody \notin Worker
<1>1. NumWorkers \in Nat \ {0}
    BY NAssumption, ProcsAssumption DEF NumWorkers, Smaller, MaxWorkers
<1>2. IsFiniteSet(Worker)
    BY <1>1, FS_Interval DEF Worker
<1>3. Nobody \notin Worker
    BY <1>1 DEF Worker, Nobody
<1> QED BY <1>1, <1>2, <1>3

\* What the assembler answers is machine code for lines of the program.
LEMMA BatchTypes ==
    ASSUME NEW p \in Program
    PROVE  /\ ProgramBatch(p) \in SUBSET Code
           /\ \A f \in Func : FunctionBatch(p, f) \in SUBSET Code
<1>1. \A f \in Func : \A i \in Targets(p, f) : <<f, i>> \in Line
    <2> SUFFICES ASSUME NEW f \in Func, NEW i \in Targets(p, f) PROVE <<f, i>> \in Line
        OBVIOUS
    <2>1. p.body[f] \in Seq(Kind)
        BY DEF Program
    <2>2. i \in Nat \ {0}
        BY <2>1 DEF Targets
    <2> QED BY <2>2 DEF Line
<1>2. ProgramBatch(p) \in SUBSET Code
    BY <1>1 DEF ProgramBatch, Code, Text
<1>3. \A f \in Func : FunctionBatch(p, f) \in SUBSET Code
    BY <1>1 DEF FunctionBatch, Code, Text
<1> QED BY <1>2, <1>3

\* The program's batch has one piece of machine code for a line.
LEMMA ProgramBatchLine ==
    ASSUME NEW p \in Program, NEW f \in Func, NEW i,
           NEW c \in ProgramBatch(p), c.line = <<f, i>>
    PROVE  c = [line |-> <<f, i>>, text |-> "program"]
<1>1. PICK g \in Func : \E j \in Targets(p, g) : c = [line |-> <<g, j>>, text |-> "program"]
    BY DEF ProgramBatch
<1> QED BY <1>1

\* The batches that a line can be found in.
LEMMA BatchMembers ==
    ASSUME NEW p \in Program, NEW f \in Func, NEW i
    PROVE  /\ \A c \in ProgramBatch(p) : c.line = <<f, i>>
                => i \in Targets(p, f) /\ c = [line |-> <<f, i>>, text |-> "program"]
           /\ i \in Targets(p, f) => [line |-> <<f, i>>, text |-> "program"] \in ProgramBatch(p)
           /\ \A c \in FunctionBatch(p, f) : c.line = <<f, i>>
                => /\ FunctionAssembles(p, f) /\ i \in Targets(p, f)
                   /\ c = [line |-> <<f, i>>, text |-> "function"]
           /\ FunctionAssembles(p, f) /\ i \in Targets(p, f)
                => [line |-> <<f, i>>, text |-> "function"] \in FunctionBatch(p, f)
<1>1. \A c \in ProgramBatch(p) : c.line = <<f, i>>
          => i \in Targets(p, f) /\ c = [line |-> <<f, i>>, text |-> "program"]
    <2> SUFFICES ASSUME NEW c \in ProgramBatch(p), c.line = <<f, i>>
                 PROVE  i \in Targets(p, f) /\ c = [line |-> <<f, i>>, text |-> "program"]
        OBVIOUS
    <2>1. PICK g \in Func : \E j \in Targets(p, g) : c = [line |-> <<g, j>>, text |-> "program"]
        BY DEF ProgramBatch
    <2> QED BY <2>1
<1>2. i \in Targets(p, f) => [line |-> <<f, i>>, text |-> "program"] \in ProgramBatch(p)
    BY DEF ProgramBatch
<1>3. \A c \in FunctionBatch(p, f) : c.line = <<f, i>>
          => /\ FunctionAssembles(p, f) /\ i \in Targets(p, f)
             /\ c = [line |-> <<f, i>>, text |-> "function"]
    BY DEF FunctionBatch
<1>4. FunctionAssembles(p, f) /\ i \in Targets(p, f)
          => [line |-> <<f, i>>, text |-> "function"] \in FunctionBatch(p, f)
    BY DEF FunctionBatch
<1> QED BY <1>1, <1>2, <1>3, <1>4

(***************************************************************************)
(* The inductive invariant.                                                *)
(***************************************************************************)

Live == {w \in Worker : worker[w] \notin {"unborn", "exited"}}
Busy == {w \in Worker : worker[w] \in {"assemble", "lock", "write"}}

\* The life of the pool.
PoolInv ==
    /\ wg = Cardinality(Live)
    /\ batches = "functions" => \A w \in Worker : worker[w] # "unborn"
    /\ batches # "functions" => \A w \in Worker : worker[w] = "unborn"
    /\ phase = "begin" => batches = "none" /\ sent = 0 /\ ~ closed
    /\ phase \in {"dispatch", "wait"} => batches = "functions"
    /\ phase = "dispatch" => ~ closed
    /\ phase = "wait" => closed
    /\ closed => sent = N
    /\ \A w \in Worker : worker[w] = "exited" => closed
    /\ batches = "functions" /\ phase \notin {"dispatch", "wait"} =>
          closed /\ \A w \in Worker : worker[w] = "exited"

\* A function handed over is in the hands of one worker or has its batch filed.
JobInv ==
    /\ \A w \in Busy : job[w] \in 1 .. sent
    /\ \A v, w \in Busy : job[v] = job[w] => v = w
    /\ \A f \in Func :
          batchByFn[f] = IF f <= sent /\ ~ \E w \in Busy : job[w] = f
                         THEN FunctionBatch(program, f)
                         ELSE {}

\* Only the holder of the mutex writes.
LockInv == \A w \in Worker : worker[w] = "write" <=> mu = w

\* The batches are those of the program.
BatchInv ==
    /\ phase \notin {"begin", "failed"} => program.accepted
    /\ batches = "program" =>
          ProgramAssembles(program) /\ programBatch = ProgramBatch(program)
    /\ batches = "functions" => ~ ProgramAssembles(program)
    /\ batches = "none" /\ phase \notin {"begin", "failed"} => NoEntries(program)
    /\ phase = "failed" => ~ Encodable(program)

\* Instruction i of f has been encoded, and how.
Emitted(f, i) == f < current[1] \/ (f = current[1] /\ i < current[2])
CodeOf(f, i) == [line |-> <<f, i>>, text |-> TextOf(program, f, i)]
OutSoFar ==
    UNION {{CodeOf(f, i) : i \in {j \in DOMAIN program.body[f] : Emitted(f, j)}} : f \in Func}

\* What has been encoded is what EncodingSpec asks for.
EmitInv ==
    /\ phase \in {"begin", "dispatch", "wait"} => current = <<1, 0>>
    /\ current[1] <= N => current[2] <= Len(program.body[current[1]]) + 1
    /\ current[1] = N + 1 => current[2] = 0
    /\ phase = "done" => current[1] = N + 1
    /\ phase = "emit" /\ current[1] <= N /\ current[2] > 0 => batch = Selected(current[1])
    /\ out = OutSoFar
    /\ \A f \in Func : \A i \in DOMAIN program.body[f] :
          Emitted(f, i) /\ TextOf(program, f, i) = "alone"
              => program.body[f][i] \notin {"prefixed", "rejected"}

IInv ==
    /\ TypeOK
    /\ PoolInv
    /\ JobInv
    /\ LockInv
    /\ BatchInv
    /\ EmitInv

(***************************************************************************)
(* The invariant holds initially.                                          *)
(***************************************************************************)

\* No worker lives before the pool, all of them at its start.
LEMMA LiveCount ==
    /\ IsFiniteSet(Live)
    /\ (\A w \in Worker : worker[w] = "unborn") => Cardinality(Live) = 0
    /\ Live = Worker => Cardinality(Live) = NumWorkers
    /\ Cardinality(Live) = 0 => \A w \in Worker : worker[w] \in {"unborn", "exited"}
<1>1. IsFiniteSet(Live)
    BY Workers, FS_Subset DEF Live
<1>2. (\A w \in Worker : worker[w] = "unborn") => Cardinality(Live) = 0
    <2> SUFFICES ASSUME \A w \in Worker : worker[w] = "unborn" PROVE Cardinality(Live) = 0
        OBVIOUS
    <2>1. Live = {}
        BY DEF Live
    <2> QED BY <2>1, FS_EmptySet
<1>3. Live = Worker => Cardinality(Live) = NumWorkers
    BY Workers, FS_Interval DEF Worker
<1>4. Cardinality(Live) = 0 => \A w \in Worker : worker[w] \in {"unborn", "exited"}
    BY <1>1, FS_EmptySet DEF Live
<1> QED BY <1>1, <1>2, <1>3, <1>4

\* The encoder starts in the invariant.
LEMMA InitIInv == Init => IInv
<1> SUFFICES ASSUME Init PROVE IInv
    OBVIOUS
<1> USE DEF Init
<1>1. program \in Program
    BY ProgramsAssumption
<1>2. TypeOK
    <2>1. current \in (1 .. N + 1) \X Nat
        BY NAssumption
    <2>2. sent \in 0 .. N /\ wg \in Nat
        BY NAssumption
    <2>3. worker \in [Worker -> {"unborn", "receive", "assemble", "lock", "write", "exited"}]
        OBVIOUS
    <2>4. job \in [Worker -> {NoFunction} \cup Func]
        OBVIOUS
    <2>5. batchByFn \in [Func -> SUBSET Code]
        OBVIOUS
    <2> QED BY <1>1, <2>1, <2>2, <2>3, <2>4, <2>5 DEF TypeOK
<1>3. PoolInv
    BY LiveCount DEF PoolInv
<1>4. JobInv
    <2>1. Busy = {}
        BY DEF Busy
    <2>2. \A f \in Func : f > sent
        BY NAssumption DEF Func
    <2> QED BY <2>1, <2>2 DEF JobInv, Func
<1>5. LockInv
    BY Workers DEF LockInv
<1>6. BatchInv
    BY DEF BatchInv
<1>7. EmitInv
    <2>1. \A f \in Func : \A i \in DOMAIN program.body[f] : ~ Emitted(f, i)
        <3> SUFFICES ASSUME NEW f \in Func, NEW i \in DOMAIN program.body[f] PROVE ~ Emitted(f, i)
            OBVIOUS
        <3>1. program.body[f] \in Seq(Kind)
            BY <1>1 DEF Program
        <3>2. i \in Nat \ {0}
            BY <3>1
        <3> QED BY <3>2, NAssumption DEF Emitted, Func
    <2>2. OutSoFar = {}
        BY <2>1 DEF OutSoFar
    <2>3. 1 \in Func
        BY NAssumption DEF Func
    <2>4. program.body[1] \in Seq(Kind)
        BY <1>1, <2>3 DEF Program
    <2>5. Len(program.body[1]) \in Nat
        BY <2>4
    <2> QED BY <2>1, <2>2, <2>5, NAssumption DEF EmitInv
<1> QED BY <1>2, <1>3, <1>4, <1>5, <1>6, <1>7 DEF IInv

(***************************************************************************)
(* Every step preserves the types.                                         *)
(***************************************************************************)

\* A worker in the middle of a job is alive, so the counter is positive.
LEMMA LivePositive ==
    ASSUME NEW w \in Live, wg = Cardinality(Live)
    PROVE  wg \in Nat /\ wg - 1 \in Nat /\ wg - 1 = Cardinality(Live \ {w})
<1>1. IsFiniteSet(Live)
    BY LiveCount
<1>2. Cardinality(Live) \in Nat
    BY <1>1, FS_CardinalityType
<1>3. IsFiniteSet(Live \ {w}) /\ Cardinality(Live \ {w}) = Cardinality(Live) - 1
    BY <1>1, FS_RemoveElement
<1>4. Cardinality(Live \ {w}) \in Nat
    BY <1>3, FS_CardinalityType
<1> QED BY <1>2, <1>3, <1>4

\* The text of an instruction is one of the four.
LEMMA SelectedType ==
    ASSUME TypeOK, NEW f \in Func
    PROVE  Selected(f) \in SUBSET Code
<1>1. FunctionBatch(program, f) \in SUBSET Code
    BY BatchTypes DEF TypeOK
<1>2. programBatch \in SUBSET Code /\ batchByFn[f] \in SUBSET Code
    BY DEF TypeOK
<1>3. batches \in {"none", "program", "functions"}
    BY DEF TypeOK
<1>4. CASE batches = "none"
    BY <1>1, <1>4 DEF Selected
<1>5. CASE batches = "program"
    BY <1>2, <1>5 DEF Selected
<1>6. CASE batches = "functions"
    BY <1>2, <1>6 DEF Selected
<1> QED BY <1>3, <1>4, <1>5, <1>6

\* The instruction being encoded is a line of the program.
LEMMA AtInstLine ==
    ASSUME TypeOK, AtInst
    PROVE  /\ current = <<current[1], current[2]>>
           /\ current[1] \in Func
           /\ current[2] \in Nat \ {0}
           /\ current[2] <= Len(program.body[current[1]])
           /\ Len(program.body[current[1]]) \in Nat
           /\ current \in Line
           /\ KindAt \in Kind
<1>1. current \in (1 .. N + 1) \X Nat
    BY DEF TypeOK
<1>2. current = <<current[1], current[2]>> /\ current[1] \in 1 .. N + 1 /\ current[2] \in Nat
    BY <1>1
<1>3. current[1] \in Func
    BY <1>2, NAssumption DEF AtInst, Func
<1>4. program.body[current[1]] \in Seq(Kind)
    BY <1>3 DEF TypeOK, Program
<1>5. current[2] \in 1 .. Len(program.body[current[1]])
    BY <1>4 DEF AtInst
<1>6. Len(program.body[current[1]]) \in Nat
    BY <1>4
<1>7. KindAt \in Kind
    BY <1>4, <1>5 DEF KindAt
<1>8. current[2] \in Nat \ {0} /\ current[2] <= Len(program.body[current[1]])
    BY <1>5, <1>6
<1>9. current \in Line
    BY <1>2, <1>3, <1>8 DEF Line
<1> QED BY <1>2, <1>3, <1>6, <1>7, <1>8, <1>9

\* Emitting machine code keeps the types.
LEMMA EmitTypes ==
    ASSUME TypeOK, AtInst, NEW code \in SUBSET Code, Emit(code)
    PROVE  TypeOK'
<1>1. current' \in (1 .. N + 1) \X Nat
    <2>1. current[1] \in 1 .. N + 1 /\ current[2] + 1 \in Nat
        BY AtInstLine, NAssumption DEF Func
    <2> QED BY <2>1 DEF Emit
<1>2. out' \in SUBSET Code
    BY DEF Emit, TypeOK
<1> QED BY <1>1, <1>2 DEF Emit, TypeOK, pool

\* TypeOK is preserved, given that the counter counts the live workers.
LEMMA NextTypeOK ==
    ASSUME TypeOK, wg = Cardinality(Live), [Next]_vars
    PROVE  TypeOK'
<1>1. CASE Reject \/ BatchNothing \/ Wait \/ Close \/ EndProgram
    BY <1>1 DEF TypeOK, Reject, BatchNothing, Wait, Close, EndProgram, pool, emission
<1>2. CASE BatchProgram
    BY <1>2, BatchTypes DEF TypeOK, BatchProgram, pool, emission
<1>3. CASE StartPool
    BY <1>3, Workers DEF TypeOK, StartPool, pool, emission
<1>4. ASSUME NEW w \in Worker, HandOver(w)
      PROVE  TypeOK'
    <2>1. sent + 1 \in 0 .. N /\ sent + 1 \in Func
        BY <1>4, NAssumption DEF TypeOK, HandOver, AllSent, Func
    <2>2. job' \in [Worker -> {NoFunction} \cup Func]
        BY <1>4, <2>1 DEF TypeOK, HandOver
    <2>3. worker' \in [Worker -> {"unborn", "receive", "assemble", "lock", "write", "exited"}]
        BY <1>4 DEF TypeOK, HandOver
    <2> QED BY <1>4, <2>1, <2>2, <2>3 DEF TypeOK, HandOver, emission
<1>5. ASSUME NEW w \in Worker, Assemble(w)
      PROVE  TypeOK'
    BY <1>5 DEF TypeOK, Assemble, emission
<1>6. ASSUME NEW w \in Worker, Lock(w)
      PROVE  TypeOK'
    BY <1>6 DEF TypeOK, Lock, emission
<1>7. ASSUME NEW w \in Worker, Store(w)
      PROVE  TypeOK'
    <2>1. \A f \in Func : FunctionBatch(program, f) \in SUBSET Code
        BY BatchTypes DEF TypeOK
    <2>2. batchByFn' \in [Func -> SUBSET Code]
        <3>1. batchByFn' = [batchByFn EXCEPT ![job[w]] = FunctionBatch(program, job[w])]
            BY <1>7 DEF Store
        <3>2. batchByFn \in [Func -> SUBSET Code]
            BY DEF TypeOK
        <3> QED BY <2>1, <3>1, <3>2
    <2>3. worker' \in [Worker -> {"unborn", "receive", "assemble", "lock", "write", "exited"}]
        BY <1>7 DEF TypeOK, Store
    <2> QED BY <1>7, <2>2, <2>3 DEF TypeOK, Store, emission
<1>8. ASSUME NEW w \in Worker, Exit(w)
      PROVE  TypeOK'
    <2>1. w \in Live
        BY <1>8 DEF Exit, Live
    <2>2. wg' \in Nat
        BY <1>8, <2>1, LivePositive DEF Exit
    <2>3. worker' \in [Worker -> {"unborn", "receive", "assemble", "lock", "write", "exited"}]
        BY <1>8 DEF TypeOK, Exit
    <2> QED BY <1>8, <2>2, <2>3 DEF TypeOK, Exit, emission
<1>9. CASE BeginFunction
    <2>1. current[1] \in Func
        BY <1>9, NAssumption DEF TypeOK, BeginFunction, Func
    <2>2. current' \in (1 .. N + 1) \X Nat
        BY <1>9, <2>1, NAssumption DEF BeginFunction, Func
    <2>3. batch' \in SUBSET Code
        BY <1>9, <2>1, SelectedType DEF BeginFunction
    <2> QED BY <1>9, <2>2, <2>3 DEF TypeOK, BeginFunction, pool
<1>10. CASE EncodeNext
    <2>1. CASE EncodeFromBatch
        <3>1. Found \in SUBSET Code
            BY DEF Found, TypeOK
        <3> QED BY <2>1, <3>1, EmitTypes DEF EncodeFromBatch
    <2>2. CASE EncodeDirect
        <3>1. {[line |-> current, text |-> "mnemonic"]} \in SUBSET Code
            BY <2>2, AtInstLine DEF EncodeDirect, Code, Text
        <3> QED BY <2>2, <3>1, EmitTypes DEF EncodeDirect
    <2>3. CASE EncodeAlone
        <3>1. {[line |-> current, text |-> "alone"]} \in SUBSET Code
            BY <2>3, AtInstLine DEF EncodeAlone, Code, Text
        <3> QED BY <2>3, <3>1, EmitTypes DEF EncodeAlone
    <2>4. CASE EncodeError
        BY <2>4 DEF TypeOK, EncodeError, pool, emission
    <2> QED BY <1>10, <2>1, <2>2, <2>3, <2>4 DEF EncodeNext
<1>11. CASE EndFunction
    <2>1. current' \in (1 .. N + 1) \X Nat
        BY <1>11, NAssumption DEF TypeOK, EndFunction
    <2> QED BY <1>11, <2>1 DEF TypeOK, EndFunction, pool
<1>12. CASE UNCHANGED vars
    BY <1>12 DEF TypeOK, vars
<1> QED
    BY <1>1, <1>2, <1>3, <1>4, <1>5, <1>6, <1>7, <1>8, <1>9, <1>10, <1>11, <1>12
    DEF Next, Main, Work, Finished

(***************************************************************************)
(* Every step preserves the life of the pool.                              *)
(***************************************************************************)

\* The steps that encode leave the pool and its results alone.
LEMMA EncodingFrame ==
    ASSUME BeginFunction \/ EncodeNext \/ EndFunction \/ EndProgram
    PROVE  /\ phase = "emit" /\ phase' \in {"emit", "done", "failed"}
           /\ UNCHANGED <<program, batches, programBatch, batchByFn>>
           /\ UNCHANGED <<sent, closed, wg, mu, worker, job>>
<1>1. CASE BeginFunction
    BY <1>1 DEF BeginFunction, pool
<1>2. CASE EncodeNext
    BY <1>2 DEF EncodeNext, EncodeFromBatch, EncodeDirect, EncodeAlone, EncodeError,
                Emit, AtInst, pool
<1>3. CASE EndFunction
    BY <1>3 DEF EndFunction, pool
<1>4. CASE EndProgram
    BY <1>4 DEF EndProgram, pool
<1> QED BY <1>1, <1>2, <1>3, <1>4

\* A worker that goes from one live state to another leaves the count alone.
LEMMA StayAlive ==
    ASSUME TypeOK, NEW w \in Live, NEW s \in {"receive", "assemble", "lock", "write"},
           worker' = [worker EXCEPT ![w] = s]
    PROVE  Live' = Live
BY DEF TypeOK, Live

\* Before the end of BeginFunctions a worker that lives has work or waits for it.
LEMMA PoolRunning ==
    ASSUME TypeOK, PoolInv, NEW w \in Live
    PROVE  phase \in {"dispatch", "wait"} /\ batches = "functions"
BY DEF TypeOK, PoolInv, Live

\* Every step preserves PoolInv.
LEMMA NextPool ==
    ASSUME TypeOK, PoolInv, [Next]_vars
    PROVE  PoolInv'
<1>1. CASE Reject \/ BatchNothing \/ BatchProgram
    <2>1. batches = "none" /\ batches' \in {"none", "program"} /\ phase' \in {"failed", "emit"}
        BY <1>1 DEF PoolInv, Reject, BatchNothing, BatchProgram
    <2>2. UNCHANGED <<sent, closed, wg, worker>>
        BY <1>1 DEF Reject, BatchNothing, BatchProgram, pool
    <2> QED BY <2>1, <2>2 DEF PoolInv, Live
<1>2. CASE StartPool
    <2>1. Live' = Worker
        BY <1>2 DEF StartPool, Live
    <2>2. wg' = Cardinality(Live')
        BY <1>2, <2>1, Workers, FS_Interval DEF StartPool, Worker
    <2>3. batches = "none"
        BY <1>2 DEF StartPool, PoolInv
    <2>4. \A w \in Worker : worker[w] = "unborn"
        BY <2>3 DEF PoolInv
    <2>5. \A w \in Worker : worker'[w] = "receive"
        BY <1>2 DEF StartPool
    <2>6. ~ closed
        BY <1>2 DEF StartPool, PoolInv
    <2> QED BY <1>2, <2>2, <2>5, <2>6 DEF PoolInv, StartPool
<1>3. ASSUME NEW w \in Worker, HandOver(w)
      PROVE  PoolInv'
    <2>1. w \in Live
        BY <1>3 DEF HandOver, Live
    <2>2. Live' = Live
        BY <1>3, <2>1, StayAlive DEF HandOver
    <2>3. \A v \in Worker : worker'[v] = IF v = w THEN "assemble" ELSE worker[v]
        BY <1>3 DEF HandOver, TypeOK
    <2>4. phase = "dispatch" /\ phase' = phase /\ batches' = batches /\ closed' = closed /\ wg' = wg
        BY <1>3 DEF HandOver
    <2> QED BY <2>2, <2>3, <2>4 DEF PoolInv
<1>4. ASSUME NEW w \in Worker, Assemble(w) \/ Lock(w) \/ Store(w)
      PROVE  PoolInv'
    <2>1. w \in Live
        BY <1>4 DEF Assemble, Lock, Store, Live
    <2>2. PICK s \in {"receive", "assemble", "lock", "write"} :
              worker' = [worker EXCEPT ![w] = s]
        BY <1>4 DEF Assemble, Lock, Store
    <2>3. Live' = Live
        BY <2>1, <2>2, StayAlive
    <2>4. \A v \in Worker : worker'[v] = IF v = w THEN s ELSE worker[v]
        BY <2>2 DEF TypeOK
    <2>5. UNCHANGED <<phase, batches, closed, wg, sent>>
        BY <1>4 DEF Assemble, Lock, Store
    <2>6. phase \in {"dispatch", "wait"} /\ batches = "functions"
        BY <2>1, PoolRunning
    <2> QED BY <2>3, <2>4, <2>5, <2>6 DEF PoolInv
<1>5. ASSUME NEW w \in Worker, Exit(w)
      PROVE  PoolInv'
    <2>1. w \in Live
        BY <1>5 DEF Exit, Live
    <2>2. \A v \in Worker : worker'[v] = IF v = w THEN "exited" ELSE worker[v]
        BY <1>5 DEF Exit, TypeOK
    <2>3. Live' = Live \ {w}
        BY <2>2 DEF Live
    <2>4. wg' = Cardinality(Live')
        BY <1>5, <2>1, <2>3, LivePositive DEF Exit, PoolInv
    <2>5. UNCHANGED <<phase, batches, closed, sent>> /\ closed
        BY <1>5 DEF Exit
    <2>6. phase \in {"dispatch", "wait"} /\ batches = "functions"
        BY <2>1, PoolRunning
    <2> QED BY <2>2, <2>4, <2>5, <2>6 DEF PoolInv
<1>6. CASE Close
    <2>1. UNCHANGED <<batches, wg, worker, sent>> /\ closed' /\ phase' = "wait" /\ sent = N
        BY <1>6 DEF Close, AllSent
    <2>2. batches = "functions"
        BY <1>6 DEF Close, PoolInv
    <2> QED BY <2>1, <2>2 DEF PoolInv, Live
<1>7. CASE Wait
    <2>1. UNCHANGED <<batches, wg, worker, sent, closed>> /\ phase' = "emit" /\ phase = "wait" /\ wg = 0
        BY <1>7 DEF Wait, pool
    <2>2. batches = "functions" /\ closed
        BY <2>1 DEF PoolInv
    <2>3. \A w \in Worker : worker[w] = "exited"
        BY <2>1, <2>2, LiveCount DEF PoolInv
    <2> QED BY <2>1, <2>2, <2>3 DEF PoolInv, Live
<1>8. CASE BeginFunction \/ EncodeNext \/ EndFunction \/ EndProgram
    <2>1. UNCHANGED <<batches, wg, worker, sent, closed>>
          /\ phase = "emit" /\ phase' \in {"emit", "done", "failed"}
        BY <1>8, EncodingFrame
    <2> QED BY <2>1 DEF PoolInv, Live
<1>9. CASE UNCHANGED vars
    BY <1>9 DEF vars, PoolInv, Live
<1> QED
    BY <1>1, <1>2, <1>3, <1>4, <1>5, <1>6, <1>7, <1>8, <1>9 DEF Next, Main, Work, Finished

(***************************************************************************)
(* Every step preserves what is known of the jobs and of the mutex.        *)
(***************************************************************************)

\* A worker has its job to itself, and nothing is filed for it yet.
LEMMA JobInHand ==
    ASSUME TypeOK, JobInv, NEW w \in Busy
    PROVE  /\ job[w] \in Func /\ job[w] <= sent
           /\ batchByFn[job[w]] = {}
           /\ \A v \in Busy \ {w} : job[v] # job[w]
<1>1. sent \in 0 .. N
    BY DEF TypeOK
<1>2. job[w] \in 1 .. sent
    BY DEF JobInv
<1>3. job[w] \in Func /\ job[w] <= sent
    BY <1>1, <1>2, NAssumption DEF Func
<1>4. batchByFn[job[w]] = {}
    BY <1>3 DEF JobInv
<1>5. \A v \in Busy \ {w} : job[v] # job[w]
    BY DEF JobInv
<1> QED BY <1>3, <1>4, <1>5

\* Every step preserves JobInv.
LEMMA NextJob ==
    ASSUME TypeOK, PoolInv, JobInv, [Next]_vars
    PROVE  JobInv'
<1>1. CASE UNCHANGED <<program, batchByFn, sent, worker, job>>
    BY <1>1 DEF JobInv, Busy
<1>2. CASE StartPool
    <2>1. Busy = {}
        BY <1>2 DEF StartPool, PoolInv, Busy
    <2>2. Busy' = {}
        BY <1>2 DEF StartPool, Busy
    <2>3. UNCHANGED <<program, batchByFn, sent, job>>
        BY <1>2 DEF StartPool
    <2> QED BY <2>1, <2>2, <2>3 DEF JobInv
<1>3. ASSUME NEW w \in Worker, HandOver(w)
      PROVE  JobInv'
    <2>1. sent \in 0 .. N /\ sent' = sent + 1
        BY <1>3 DEF HandOver, TypeOK
    <2>2. w \notin Busy /\ Busy' = Busy \cup {w}
        BY <1>3 DEF HandOver, TypeOK, Busy
    <2>3. \A v \in Worker : job'[v] = IF v = w THEN sent + 1 ELSE job[v]
        BY <1>3 DEF HandOver, TypeOK
    <2>4. UNCHANGED <<program, batchByFn>>
        BY <1>3 DEF HandOver
    <2>5. \A v \in Busy : job[v] \in 1 .. sent
        BY DEF JobInv
    <2>6. \A v \in Busy' : job'[v] \in 1 .. sent'
        BY <2>1, <2>2, <2>3, <2>5 DEF Busy
    <2>7. \A u, v \in Busy' : job'[u] = job'[v] => u = v
        <3>1. \A u, v \in Busy : job[u] = job[v] => u = v
            BY DEF JobInv
        <3>2. \A v \in Busy : job'[v] = job[v] /\ job[v] # sent + 1
            BY <2>1, <2>2, <2>3, <2>5 DEF Busy
        <3>3. job'[w] = sent + 1
            BY <2>3
        <3> QED BY <2>2, <3>1, <3>2, <3>3
    <2>8. ASSUME NEW f \in Func
          PROVE  batchByFn'[f] = IF f <= sent' /\ ~ \E v \in Busy' : job'[v] = f
                                 THEN FunctionBatch(program, f)' ELSE {}
        <3>1. batchByFn[f] = IF f <= sent /\ ~ \E v \in Busy : job[v] = f
                             THEN FunctionBatch(program, f) ELSE {}
            BY DEF JobInv
        <3>2. FunctionBatch(program, f)' = FunctionBatch(program, f)
            BY <2>4
        <3>3. CASE f = sent + 1
            BY <2>1, <2>2, <2>3, <2>4, <3>1, <3>3
        <3>4. CASE f # sent + 1
            <4>1. f <= sent' <=> f <= sent
                BY <2>1, <3>4 DEF Func
            <4>2. (\E v \in Busy' : job'[v] = f) <=> (\E v \in Busy : job[v] = f)
                BY <2>2, <2>3, <3>4 DEF Busy
            <4> QED BY <2>4, <3>1, <3>2, <4>1, <4>2
        <3> QED BY <3>3, <3>4
    <2> QED BY <2>6, <2>7, <2>8 DEF JobInv
<1>4. ASSUME NEW w \in Worker,
             \/ Assemble(w) /\ FunctionBatch(program, job[w]) = {}
             \/ Store(w)
      PROVE  JobInv'
    <2>1. w \in Busy /\ Busy' = Busy \ {w}
        BY <1>4 DEF Assemble, Store, TypeOK, Busy
    <2>2. UNCHANGED <<program, sent, job>>
        BY <1>4 DEF Assemble, Store
    <2>3. job[w] \in Func /\ job[w] <= sent /\ batchByFn[job[w]] = {}
          /\ \A v \in Busy \ {w} : job[v] # job[w]
        BY <2>1, JobInHand
    <2>4. \A f \in Func : batchByFn'[f] = IF f = job[w] THEN FunctionBatch(program, f)
                                                       ELSE batchByFn[f]
        BY <1>4, <2>3 DEF Assemble, Store, TypeOK
    <2>5. ASSUME NEW f \in Func
          PROVE  batchByFn'[f] = IF f <= sent /\ ~ \E v \in Busy \ {w} : job[v] = f
                                 THEN FunctionBatch(program, f) ELSE {}
        <3>1. CASE f = job[w]
            BY <2>3, <2>4, <3>1
        <3>2. CASE f # job[w]
            <4>1. (\E v \in Busy \ {w} : job[v] = f) <=> (\E v \in Busy : job[v] = f)
                BY <3>2
            <4> QED BY <2>4, <3>2, <4>1 DEF JobInv
        <3> QED BY <3>1, <3>2
    <2> QED BY <2>1, <2>2, <2>5 DEF JobInv
<1>5. ASSUME NEW w \in Worker,
             \/ Assemble(w) /\ FunctionBatch(program, job[w]) # {}
             \/ Lock(w)
             \/ Exit(w)
      PROVE  JobInv'
    <2>1. Busy' = Busy
        BY <1>5 DEF Assemble, Lock, Exit, TypeOK, Busy
    <2>2. UNCHANGED <<program, batchByFn, sent, job>>
        BY <1>5 DEF Assemble, Lock, Exit
    <2> QED BY <2>1, <2>2 DEF JobInv
<1>6. CASE Reject \/ BatchNothing \/ BatchProgram \/ Close \/ Wait
    BY <1>1, <1>6 DEF Reject, BatchNothing, BatchProgram, Close, Wait, pool
<1>7. CASE BeginFunction \/ EncodeNext \/ EndFunction \/ EndProgram
    BY <1>1, <1>7, EncodingFrame
<1>8. CASE UNCHANGED vars
    BY <1>1, <1>8 DEF vars
<1> QED
    BY <1>2, <1>3, <1>4, <1>5, <1>6, <1>7, <1>8 DEF Next, Main, Work, Finished

\* Every step preserves LockInv.
LEMMA NextLock ==
    ASSUME TypeOK, PoolInv, LockInv, [Next]_vars
    PROVE  LockInv'
<1>1. CASE UNCHANGED <<worker, mu>>
    BY <1>1 DEF LockInv
<1>2. CASE StartPool
    <2>1. \A w \in Worker : worker[w] = "unborn" /\ worker'[w] = "receive" /\ mu' = mu
        BY <1>2 DEF StartPool, PoolInv
    <2> QED BY <2>1 DEF LockInv
<1>3. ASSUME NEW w \in Worker, HandOver(w) \/ Assemble(w) \/ Exit(w)
      PROVE  LockInv'
    <2>1. mu' = mu /\ worker[w] # "write"
        BY <1>3 DEF HandOver, Assemble, Exit
    <2>2. PICK s \in {"assemble", "receive", "lock", "exited"} :
              \A v \in Worker : worker'[v] = IF v = w THEN s ELSE worker[v]
        BY <1>3 DEF HandOver, Assemble, Exit, TypeOK
    <2> QED BY <2>1, <2>2 DEF LockInv
<1>4. ASSUME NEW w \in Worker, Lock(w)
      PROVE  LockInv'
    <2>1. mu = Nobody /\ mu' = w
        BY <1>4 DEF Lock
    <2>2. \A v \in Worker : worker'[v] = IF v = w THEN "write" ELSE worker[v]
        BY <1>4 DEF Lock, TypeOK
    <2> QED BY <2>1, <2>2, Workers DEF LockInv
<1>5. ASSUME NEW w \in Worker, Store(w)
      PROVE  LockInv'
    <2>1. mu = w /\ mu' = Nobody
        BY <1>5 DEF Store, LockInv
    <2>2. \A v \in Worker : worker'[v] = IF v = w THEN "receive" ELSE worker[v]
        BY <1>5 DEF Store, TypeOK
    <2> QED BY <2>1, <2>2, Workers DEF LockInv
<1>6. CASE Reject \/ BatchNothing \/ BatchProgram \/ Close \/ Wait
    BY <1>1, <1>6 DEF Reject, BatchNothing, BatchProgram, Close, Wait, pool
<1>7. CASE BeginFunction \/ EncodeNext \/ EndFunction \/ EndProgram
    BY <1>1, <1>7, EncodingFrame
<1>8. CASE UNCHANGED vars
    BY <1>1, <1>8 DEF vars
<1> QED
    BY <1>2, <1>3, <1>4, <1>5, <1>6, <1>7, <1>8 DEF Next, Main, Work, Finished

(***************************************************************************)
(* What Encode finds in the batch.                                         *)
(***************************************************************************)

\* The steps of the pool leave the program, the phase and the output alone.
LEMMA PoolFrame ==
    ASSUME NEW w \in Worker, HandOver(w) \/ Work(w)
    PROVE  UNCHANGED <<program, phase, batches, programBatch, current, batch, out>>
BY DEF HandOver, Work, Assemble, Lock, Store, Exit, emission

\* While functions are encoded, each has the batch it is entitled to.
LEMMA SelectedBatch ==
    ASSUME TypeOK, PoolInv, JobInv, BatchInv, phase = "emit",
           NEW f \in Func, program.body[f] # <<>>
    PROVE  \/ ProgramAssembles(program) /\ Selected(f) = ProgramBatch(program)
           \/ ~ ProgramAssembles(program) /\ Selected(f) = FunctionBatch(program, f)
<1>1. CASE batches = "program"
    BY <1>1 DEF BatchInv, Selected
<1>2. CASE batches = "functions"
    <2>1. sent = N /\ \A w \in Worker : worker[w] = "exited"
        BY <1>2 DEF PoolInv
    <2>2. Busy = {}
        BY <2>1 DEF Busy
    <2>3. f <= sent
        BY <2>1, NAssumption DEF Func
    <2>4. batchByFn[f] = FunctionBatch(program, f)
        BY <2>2, <2>3 DEF JobInv
    <2> QED BY <1>2, <2>4 DEF BatchInv, Selected
<1>3. CASE batches = "none"
    BY <1>3 DEF BatchInv, NoEntries
<1> QED BY <1>1, <1>2, <1>3 DEF TypeOK

\* The batch holds the machine code of exactly the lines that got any.
LEMMA FoundCode ==
    ASSUME TypeOK, PoolInv, JobInv, BatchInv, EmitInv, AtInst
    PROVE  \/ /\ Found = {CodeOf(current[1], current[2])}
              /\ TextOf(program, current[1], current[2]) \in {"program", "function"}
           \/ /\ Found = {} /\ KindAt = "mapped"
              /\ TextOf(program, current[1], current[2]) = "mnemonic"
           \/ /\ Found = {} /\ KindAt # "mapped"
              /\ TextOf(program, current[1], current[2]) = "alone"
<1> DEFINE f == current[1]
           i == current[2]
<1>1. f \in Func /\ i \in Nat \ {0} /\ current = <<f, i>> /\ i \in DOMAIN program.body[f]
    BY AtInstLine DEF AtInst
<1>2. program.body[f] # <<>>
    <2>1. program.body[f] \in Seq(Kind)
        BY <1>1 DEF TypeOK, Program
    <2>2. i <= Len(program.body[f])
        BY AtInstLine
    <2> QED BY <1>1, <2>1, <2>2
<1>3. batch = Selected(f)
    <2>1. f <= N /\ i > 0
        BY <1>1, NAssumption DEF Func
    <2> QED BY <2>1 DEF EmitInv, AtInst
<1>4. program \in Program /\ phase = "emit"
    BY DEF TypeOK, AtInst
<1>5. i \in Targets(program, f) <=> KindAt # "mapped"
    BY <1>1 DEF Targets, KindAt
<1>6. /\ \A c \in ProgramBatch(program) :
             c.line = <<f, i>> => c = [line |-> <<f, i>>, text |-> "program"]
      /\ \A c \in FunctionBatch(program, f) :
             c.line = <<f, i>> => c = [line |-> <<f, i>>, text |-> "function"]
    <2>1. f \in Func /\ program \in Program
        BY <1>1, <1>4
    <2> HIDE DEF f, i
    <2>2. \A c \in ProgramBatch(program) :
             c.line = <<f, i>> => c = [line |-> <<f, i>>, text |-> "program"]
        BY <2>1, ProgramBatchLine
    <2>3. \A c \in FunctionBatch(program, f) :
             c.line = <<f, i>> => c = [line |-> <<f, i>>, text |-> "function"]
        BY <2>1, BatchMembers, Zenon
    <2> QED BY <2>2, <2>3
<1>7. CASE ProgramAssembles(program) /\ batch = ProgramBatch(program)
    <2>1. CASE KindAt = "mapped"
        <3>1. Found = {}
            BY <1>1, <1>4, <1>5, <1>7, <2>1, BatchMembers DEF Found
        <3> QED BY <2>1, <3>1 DEF TextOf, KindAt
    <2>2. CASE KindAt # "mapped"
        <3>1. TextOf(program, f, i) = "program"
            BY <1>7, <2>2 DEF TextOf, KindAt
        <3>2. \A c \in Found : c = [line |-> <<f, i>>, text |-> "program"]
            <4> SUFFICES ASSUME NEW c \in Found
                         PROVE  c = [line |-> <<f, i>>, text |-> "program"]
                OBVIOUS
            <4>1. c \in ProgramBatch(program) /\ c.line = <<f, i>>
                BY <1>1, <1>7 DEF Found
            <4> QED BY <1>6, <4>1
        <3>3. [line |-> <<f, i>>, text |-> "program"] \in ProgramBatch(program)
            BY <1>1, <1>4, <1>5, <2>2, BatchMembers
        <3>4. [line |-> <<f, i>>, text |-> "program"] \in Found
            BY <1>1, <1>7, <3>3 DEF Found
        <3>5. Found = {[line |-> <<f, i>>, text |-> "program"]}
            BY <3>2, <3>4
        <3> QED BY <3>1, <3>5 DEF CodeOf
    <2> QED BY <2>1, <2>2
<1>8. CASE ~ ProgramAssembles(program) /\ batch = FunctionBatch(program, f)
    <2>1. CASE KindAt = "mapped"
        <3>1. Found = {}
            BY <1>1, <1>4, <1>5, <1>8, <2>1, BatchMembers DEF Found
        <3> QED BY <2>1, <3>1 DEF TextOf, KindAt
    <2>2. CASE KindAt # "mapped" /\ FunctionAssembles(program, f)
        <3>1. TextOf(program, f, i) = "function"
            BY <1>8, <2>2 DEF TextOf, KindAt
        <3>2. \A c \in Found : c = [line |-> <<f, i>>, text |-> "function"]
            <4> SUFFICES ASSUME NEW c \in Found
                         PROVE  c = [line |-> <<f, i>>, text |-> "function"]
                OBVIOUS
            <4>1. c \in FunctionBatch(program, f) /\ c.line = <<f, i>>
                BY <1>1, <1>8 DEF Found
            <4> QED BY <1>6, <4>1
        <3>3. [line |-> <<f, i>>, text |-> "function"] \in FunctionBatch(program, f)
            BY <1>1, <1>4, <1>5, <2>2, BatchMembers
        <3>4. [line |-> <<f, i>>, text |-> "function"] \in Found
            BY <1>1, <1>8, <3>3 DEF Found
        <3>5. Found = {[line |-> <<f, i>>, text |-> "function"]}
            BY <3>2, <3>4
        <3> QED BY <3>1, <3>5 DEF CodeOf
    <2>3. CASE KindAt # "mapped" /\ ~ FunctionAssembles(program, f)
        <3>1. TextOf(program, f, i) = "alone"
            BY <1>8, <2>3 DEF TextOf, KindAt
        <3>2. Found = {}
            BY <1>8, <2>3 DEF Found, FunctionBatch
        <3> QED BY <2>3, <3>1, <3>2
    <2> QED BY <2>1, <2>2, <2>3
<1> QED BY <1>1, <1>2, <1>3, <1>4, <1>7, <1>8, SelectedBatch

\* An encoding error means that the program cannot be encoded.
LEMMA ErrorJustified ==
    ASSUME TypeOK, PoolInv, JobInv, BatchInv, EmitInv, EncodeError
    PROVE  ~ Encodable(program)
<1>1. AtInst /\ Found = {} /\ KindAt \in {"prefixed", "rejected"}
    BY DEF EncodeError
<1>2. TextOf(program, current[1], current[2]) = "alone"
    BY <1>1, FoundCode
<1>3. current[1] \in Func /\ current[2] \in DOMAIN program.body[current[1]]
    BY <1>1, AtInstLine DEF AtInst
<1> QED BY <1>1, <1>2, <1>3 DEF Encodable, KindAt

\* Every step preserves BatchInv.
LEMMA NextBatch ==
    ASSUME TypeOK, PoolInv, JobInv, BatchInv, EmitInv, [Next]_vars
    PROVE  BatchInv'
<1>1. CASE Reject
    BY <1>1 DEF Reject, BatchInv, PoolInv, Encodable
<1>2. CASE BatchNothing
    BY <1>2 DEF BatchNothing, BatchInv, PoolInv
<1>3. CASE BatchProgram
    BY <1>3 DEF BatchProgram, BatchInv, PoolInv
<1>4. CASE StartPool
    BY <1>4 DEF StartPool, BatchInv, PoolInv
<1>5. CASE Close \/ Wait
    BY <1>5 DEF Close, Wait, BatchInv, PoolInv
<1>6. CASE \E w \in Worker : HandOver(w) \/ Work(w)
    BY <1>6, PoolFrame DEF BatchInv
<1>7. CASE EncodeError
    <2>1. ~ Encodable(program)
        BY <1>7, ErrorJustified
    <2>2. UNCHANGED <<program, batches, programBatch>> /\ phase = "emit" /\ phase' = "failed"
        BY <1>7 DEF EncodeError, AtInst
    <2> QED BY <2>1, <2>2 DEF BatchInv
<1>8. CASE BeginFunction \/ EncodeFromBatch \/ EncodeDirect \/ EncodeAlone \/ EndFunction \/ EndProgram
    <2>1. UNCHANGED <<program, batches, programBatch>> /\ phase = "emit"
        BY <1>8, EncodingFrame DEF EncodeNext
    <2>2. phase' \in {"emit", "done"}
        BY <1>8, <2>1 DEF BeginFunction, EncodeFromBatch, EncodeDirect, EncodeAlone, EndFunction,
                          EndProgram, Emit
    <2> QED BY <2>1, <2>2 DEF BatchInv
<1>9. CASE UNCHANGED vars
    BY <1>9 DEF vars, BatchInv
<1> QED
    BY <1>1, <1>2, <1>3, <1>4, <1>5, <1>6, <1>7, <1>8, <1>9 DEF Next, Main, EncodeNext, Finished

(***************************************************************************)
(* Every step preserves what is known of the output.                       *)
(***************************************************************************)

\* Functions are numbered and so are their instructions.
LEMMA BodyIndices ==
    ASSUME TypeOK, NEW f \in Func, NEW i \in DOMAIN program.body[f]
    PROVE  f \in 1 .. N /\ i \in Nat \ {0} /\ i <= Len(program.body[f])
           /\ Len(program.body[f]) \in Nat
<1>1. program.body[f] \in Seq(Kind)
    BY DEF TypeOK, Program
<1> QED BY <1>1, NAssumption DEF Func

\* A step that changes neither the program nor what is emitted keeps OutSoFar.
LEMMA OutUnchanged ==
    ASSUME program' = program,
           \A f \in Func : \A i \in DOMAIN program.body[f] : Emitted(f, i)' <=> Emitted(f, i)
    PROVE  OutSoFar' = OutSoFar
<1>1. \A f \in Func : {j \in DOMAIN program.body[f] : Emitted(f, j)'}
                       = {j \in DOMAIN program.body[f] : Emitted(f, j)}
    OBVIOUS
<1>2. \A f \in Func : \A i : CodeOf(f, i)' = CodeOf(f, i)
    BY DEF CodeOf
<1> QED BY <1>1, <1>2 DEF OutSoFar

\* An instruction encoded as EncodingSpec asks keeps EmitInv.
LEMMA EmitStep ==
    ASSUME TypeOK, EmitInv, AtInst, NEW code, Emit(code),
           code = {CodeOf(current[1], current[2])},
           TextOf(program, current[1], current[2]) = "alone"
               => KindAt \notin {"prefixed", "rejected"}
    PROVE  EmitInv'
<1>1. current[1] \in Func /\ current[2] \in Nat \ {0} /\ current[2] \in DOMAIN program.body[current[1]]
      /\ current[2] <= Len(program.body[current[1]]) /\ Len(program.body[current[1]]) \in Nat
    BY AtInstLine DEF AtInst
<1>2. current'[1] = current[1] /\ current'[2] = current[2] + 1 /\ phase' = "emit" /\ phase = "emit"
      /\ UNCHANGED <<program, batches, programBatch, batchByFn, batch>> /\ out' = out \cup code
    BY DEF Emit, AtInst
<1>3. ASSUME NEW f \in Func, NEW i \in DOMAIN program.body[f]
      PROVE  Emitted(f, i)' <=> Emitted(f, i) \/ (f = current[1] /\ i = current[2])
    BY <1>1, <1>2, <1>3, BodyIndices DEF Emitted
<1>4. out' = OutSoFar'
    <2>1. OutSoFar' \subseteq out'
        <3> SUFFICES ASSUME NEW f \in Func, NEW i \in DOMAIN program.body[f], Emitted(f, i)'
                     PROVE  CodeOf(f, i) \in out'
            BY <1>2 DEF OutSoFar, CodeOf
        <3>1. CASE Emitted(f, i)
            BY <1>2, <3>1 DEF EmitInv, OutSoFar
        <3>2. CASE f = current[1] /\ i = current[2]
            BY <1>2, <3>2
        <3> QED BY <1>3, <3>1, <3>2
    <2>2. out' \subseteq OutSoFar'
        <3>1. OutSoFar \subseteq OutSoFar'
            BY <1>2, <1>3 DEF OutSoFar, CodeOf
        <3>2. CodeOf(current[1], current[2]) \in OutSoFar'
            BY <1>1, <1>2, <1>3 DEF OutSoFar, CodeOf
        <3> QED BY <1>2, <3>1, <3>2 DEF EmitInv
    <2> QED BY <2>1, <2>2
<1>5. \A f \in Func : \A i \in DOMAIN program.body[f] :
          Emitted(f, i)' /\ TextOf(program, f, i) = "alone"
              => program.body[f][i] \notin {"prefixed", "rejected"}
    BY <1>3 DEF EmitInv, KindAt
<1>6. current[1] <= N /\ current[1] # N + 1 /\ current[2] > 0
    BY <1>1, NAssumption DEF Func
<1>7. batch' = Selected(current[1])'
    BY <1>2, <1>6 DEF EmitInv, Selected
<1>8. current'[2] <= Len(program'.body[current'[1]]) + 1
    BY <1>1, <1>2
<1> QED BY <1>2, <1>4, <1>5, <1>6, <1>7, <1>8 DEF EmitInv

\* Every step preserves EmitInv.
LEMMA NextEmit ==
    ASSUME TypeOK, PoolInv, JobInv, BatchInv, EmitInv, [Next]_vars
    PROVE  EmitInv'
<1>1. ASSUME UNCHANGED <<program, current, out>>,
             phase' = "done" => current[1] = N + 1,
             \/ phase \in {"begin", "dispatch", "wait"}
             \/ phase' # "emit"
             \/ UNCHANGED <<phase, batches, programBatch, batchByFn, batch>>,
             phase' \in {"begin", "dispatch", "wait"} => phase \in {"begin", "dispatch", "wait"}
      PROVE  EmitInv'
    <2>1. \A f \in Func : \A i \in DOMAIN program.body[f] : Emitted(f, i)' <=> Emitted(f, i)
        BY <1>1 DEF Emitted
    <2>2. OutSoFar' = OutSoFar
        BY <1>1, <2>1, OutUnchanged
    <2>3. ASSUME phase' = "emit", current[1] <= N, current[2] > 0
          PROVE  batch' = Selected(current[1])'
        <3>1. CASE phase \in {"begin", "dispatch", "wait"}
            BY <2>3, <3>1 DEF EmitInv
        <3>2. CASE UNCHANGED <<phase, batches, programBatch, batchByFn, batch>>
            BY <1>1, <2>3, <3>2 DEF EmitInv, Selected
        <3> QED BY <1>1, <2>3, <3>1, <3>2
    <2> QED BY <1>1, <2>1, <2>2, <2>3 DEF EmitInv
<1>2. CASE Reject \/ BatchNothing \/ BatchProgram \/ StartPool \/ Close \/ Wait
    BY <1>1, <1>2 DEF Reject, BatchNothing, BatchProgram, StartPool, Close, Wait, emission
<1>3. ASSUME NEW w \in Worker, HandOver(w) \/ Work(w)
      PROVE  EmitInv'
    <2>1. w \in Live
        BY <1>3 DEF HandOver, Work, Assemble, Lock, Store, Exit, Live
    <2>2. phase \in {"dispatch", "wait"}
        BY <2>1, PoolRunning
    <2>3. UNCHANGED <<program, phase, current, out>>
        BY <1>3, PoolFrame
    <2> QED BY <1>1, <2>2, <2>3
<1>4. CASE BeginFunction
    <2>1. current[1] \in Func /\ current[2] = 0 /\ phase = "emit"
        BY <1>4, NAssumption DEF BeginFunction, TypeOK, Func
    <2>2. current'[1] = current[1] /\ current'[2] = 1 /\ batch' = Selected(current[1])
          /\ UNCHANGED <<program, phase, batches, programBatch, batchByFn, out>>
        BY <1>4 DEF BeginFunction
    <2>3. ASSUME NEW f \in Func, NEW i \in DOMAIN program.body[f]
          PROVE  Emitted(f, i)' <=> Emitted(f, i)
        BY <2>1, <2>2, <2>3, BodyIndices DEF Emitted
    <2>4. OutSoFar' = OutSoFar
        BY <2>2, <2>3, OutUnchanged
    <2>5. program.body[current[1]] \in Seq(Kind)
        BY <2>1 DEF TypeOK, Program
    <2>6. Len(program.body[current[1]]) \in Nat
        BY <2>5
    <2>7. current[1] <= N /\ current[1] # N + 1
        BY <2>1, NAssumption DEF Func
    <2>8. batch' = Selected(current[1])'
        BY <2>2 DEF Selected
    <2> QED BY <2>1, <2>2, <2>3, <2>4, <2>6, <2>7, <2>8 DEF EmitInv
<1>5. CASE EncodeFromBatch
    BY <1>5, FoundCode, EmitStep DEF EncodeFromBatch
<1>6. CASE EncodeDirect
    <2>1. TextOf(program, current[1], current[2]) = "mnemonic" /\ AtInst
        BY <1>6, FoundCode DEF EncodeDirect
    <2>2. current = <<current[1], current[2]>>
        BY <2>1, AtInstLine
    <2>3. {[line |-> current, text |-> "mnemonic"]} = {CodeOf(current[1], current[2])}
        BY <2>1, <2>2 DEF CodeOf
    <2> QED BY <1>6, <2>1, <2>3, EmitStep DEF EncodeDirect
<1>7. CASE EncodeAlone
    <2>1. TextOf(program, current[1], current[2]) = "alone" /\ AtInst
        BY <1>7, FoundCode DEF EncodeAlone
    <2>2. current = <<current[1], current[2]>>
        BY <2>1, AtInstLine
    <2>3. {[line |-> current, text |-> "alone"]} = {CodeOf(current[1], current[2])}
        BY <2>1, <2>2 DEF CodeOf
    <2> QED BY <1>7, <2>1, <2>3, EmitStep DEF EncodeAlone
<1>8. CASE EncodeError
    BY <1>1, <1>8 DEF EncodeError, emission
<1>9. CASE EndFunction
    <2>1. current[1] \in Func /\ current[2] \in Nat /\ current[2] > Len(program.body[current[1]])
          /\ phase = "emit"
        BY <1>9, NAssumption DEF EndFunction, TypeOK, Func
    <2>2. current'[1] = current[1] + 1 /\ current'[2] = 0
          /\ UNCHANGED <<program, phase, batches, programBatch, batchByFn, out>>
        BY <1>9 DEF EndFunction
    <2>3. ASSUME NEW f \in Func, NEW i \in DOMAIN program.body[f]
          PROVE  Emitted(f, i)' <=> Emitted(f, i)
        <3>1. f \in 1 .. N /\ i \in Nat \ {0} /\ i <= Len(program.body[f]) /\ current[1] \in 1 .. N
            BY <2>1, <2>3, BodyIndices DEF Func
        <3>2. Emitted(f, i)' <=> f <= current[1]
            BY <2>2, <3>1 DEF Emitted
        <3>3. Emitted(f, i) <=> f <= current[1]
            BY <2>1, <2>3, <3>1, BodyIndices DEF Emitted
        <3> QED BY <3>2, <3>3
    <2>4. OutSoFar' = OutSoFar
        BY <2>2, <2>3, OutUnchanged
    <2>5. current'[1] <= N => Len(program.body[current'[1]]) \in Nat
        <3> SUFFICES ASSUME current'[1] <= N PROVE Len(program.body[current'[1]]) \in Nat
            OBVIOUS
        <3>1. current'[1] \in Func
            BY <2>1, <2>2, NAssumption DEF Func
        <3>2. program.body[current'[1]] \in Seq(Kind)
            BY <3>1 DEF TypeOK, Program
        <3> QED BY <3>2
    <2> QED BY <2>1, <2>2, <2>3, <2>4, <2>5 DEF EmitInv
<1>10. CASE EndProgram
    <2>1. current[1] = N + 1
        BY <1>10, NAssumption DEF EndProgram, TypeOK
    <2> QED BY <1>1, <1>10, <2>1 DEF EndProgram, emission
<1>11. CASE UNCHANGED vars
    BY <1>1, <1>11 DEF vars, EmitInv
<1> QED
    BY <1>2, <1>3, <1>4, <1>5, <1>6, <1>7, <1>8, <1>9, <1>10, <1>11
    DEF Next, Main, EncodeNext, Finished

(***************************************************************************)
(* The theorems.                                                           *)
(***************************************************************************)

\* The inductive invariant holds in every reachable state.
THEOREM Invariance == Spec => []IInv
<1>1. Init => IInv
    BY InitIInv
<1>2. IInv /\ [Next]_vars => IInv'
    <2> SUFFICES ASSUME IInv, [Next]_vars PROVE IInv'
        OBVIOUS
    <2>1. TypeOK /\ PoolInv /\ JobInv /\ LockInv /\ BatchInv /\ EmitInv
        BY DEF IInv
    <2>2. wg = Cardinality(Live)
        BY <2>1 DEF PoolInv
    <2>3. TypeOK' /\ PoolInv' /\ JobInv' /\ LockInv' /\ BatchInv' /\ EmitInv'
        BY <2>1, <2>2, NextTypeOK, NextPool, NextJob, NextLock, NextBatch, NextEmit
    <2> QED BY <2>3 DEF IInv
<1> QED BY <1>1, <1>2, PTL DEF Spec

\* Every variable keeps its type; the WaitGroup's counter never goes negative,
\* which would make wg.Done panic.
THEOREM TypeCorrect == Spec => []TypeOK
<1>1. IInv => TypeOK
    BY DEF IInv
<1> QED BY <1>1, Invariance, PTL

\* e.batchByFn has one writer at a time, however many goroutines there are.
THEOREM MapWritesExclusive == Spec => []OneMapWriter
<1>1. IInv => OneMapWriter
    BY DEF IInv, LockInv, OneMapWriter
<1> QED BY <1>1, Invariance, PTL

\* BeginFunctions returns with every worker gone and every batch filed.
THEOREM PoolDrained == Spec => []PoolComplete
<1>1. IInv => PoolComplete
    <2> SUFFICES ASSUME IInv, phase = "emit", batches = "functions"
                 PROVE  /\ \A w \in Worker : worker[w] = "exited"
                        /\ \A f \in Func : batchByFn[f] = FunctionBatch(program, f)
        BY DEF PoolComplete
    <2>1. sent = N /\ \A w \in Worker : worker[w] = "exited"
        BY DEF IInv, PoolInv
    <2>2. Busy = {}
        BY <2>1 DEF Busy
    <2>3. \A f \in Func : f <= sent
        BY <2>1, NAssumption DEF Func
    <2> QED BY <2>1, <2>2, <2>3 DEF IInv, JobInv
<1> QED BY <1>1, Invariance, PTL

(***************************************************************************)
(* The encoder implements EncodingSpec.                                    *)
(***************************************************************************)

\* The conversion that ends well has emitted what EncodingSpec asks for.
LEMMA DoneOutcome ==
    ASSUME IInv, phase = "emit", current[1] = N + 1
    PROVE  Encodable(program) /\ out = Encoded(program)
<1>1. ASSUME NEW f \in Func, NEW i \in DOMAIN program.body[f]
      PROVE  Emitted(f, i)
    <2>1. f \in 1 .. N
        BY NAssumption DEF Func
    <2> QED BY <2>1, NAssumption DEF Emitted
<1>2. out = Encoded(program)
    <2>1. \A f \in Func : {j \in DOMAIN program.body[f] : Emitted(f, j)} = DOMAIN program.body[f]
        BY <1>1
    <2>2. OutSoFar = Encoded(program)
        BY <2>1 DEF OutSoFar, Encoded, CodeOf
    <2> QED BY <2>2 DEF IInv, EmitInv
<1>3. Encodable(program)
    BY <1>1 DEF IInv, EmitInv, BatchInv, Encodable
<1> QED BY <1>2, <1>3

\* EncodingSpec, instantiated, speaks of the same outcome.
LEMMA SameOutcome ==
    Abstract!Encodable(program) = Encodable(program) /\ Abstract!Encoded(program) = Encoded(program)
<1>1. \A f : Abstract!FunctionAssembles(program, f) = FunctionAssembles(program, f)
    BY DEF Abstract!FunctionAssembles, FunctionAssembles
<1>2. Abstract!Func = Func
    BY DEF Abstract!Func, Func
<1>3. Abstract!ProgramAssembles(program) = ProgramAssembles(program)
    BY <1>1, <1>2 DEF Abstract!ProgramAssembles, ProgramAssembles
<1>4. \A f, i : Abstract!TextOf(program, f, i) = TextOf(program, f, i)
    BY <1>1, <1>3 DEF Abstract!TextOf, TextOf
<1>5. Abstract!Encodable(program) = Encodable(program)
    BY <1>2, <1>4 DEF Abstract!Encodable, Encodable
<1>6. Abstract!Encoded(program) = Encoded(program)
    BY <1>2, <1>4 DEF Abstract!Encoded, Encoded
<1> QED BY <1>5, <1>6

\* Whatever the workers do, a step of the encoder is a conversion in one go or
\* changes nothing that EncodingSpec sees.
THEOREM Refinement == Spec => Reproducible
<1>1. Init => Abstract!Init
    BY DEF Init, Abstract!Init
<1>2. IInv /\ [Next]_vars => [Abstract!Next]_Abstract!vars
    <2> SUFFICES ASSUME IInv, [Next]_vars PROVE [Abstract!Next]_Abstract!vars
        OBVIOUS
    <2> USE DEF Abstract!vars
    <2>1. CASE Reject
        <3>1. ~ Encodable(program) /\ phase = "begin" /\ phase' = "failed" /\ program' = program
            BY <2>1 DEF Reject, Encodable
        <3> QED BY <3>1, SameOutcome DEF Abstract!Next, Abstract!Convert
    <2>2. CASE EncodeError
        <3>1. ~ Encodable(program)
            BY <2>2, ErrorJustified DEF IInv
        <3>2. phase = "emit" /\ phase' = "failed" /\ program' = program
            BY <2>2 DEF EncodeError, AtInst
        <3> QED BY <3>1, <3>2, SameOutcome DEF Abstract!Next, Abstract!Convert
    <2>3. CASE EndProgram
        <3>1. phase = "emit" /\ phase' = "done" /\ program' = program /\ out' = out
            BY <2>3 DEF EndProgram, emission
        <3>2. current[1] = N + 1
            BY <2>3, NAssumption DEF EndProgram, IInv, TypeOK
        <3>3. Encodable(program) /\ out = Encoded(program)
            BY <3>1, <3>2, DoneOutcome
        <3> QED BY <3>1, <3>3, SameOutcome DEF Abstract!Next, Abstract!Convert
    <2>4. CASE BatchNothing \/ BatchProgram \/ StartPool \/ Close \/ Wait
        <3>1. phase \in {"begin", "dispatch", "wait"} /\ phase' \in {"emit", "dispatch", "wait"}
              /\ program' = program
            BY <2>4 DEF BatchNothing, BatchProgram, StartPool, Close, Wait
        <3> QED BY <3>1
    <2>5. CASE BeginFunction \/ EncodeFromBatch \/ EncodeDirect \/ EncodeAlone \/ EndFunction
        <3>1. phase = "emit" /\ phase' = "emit" /\ program' = program
            BY <2>5 DEF BeginFunction, EncodeFromBatch, EncodeDirect, EncodeAlone, EndFunction,
                        Emit, AtInst
        <3> QED BY <3>1
    <2>6. ASSUME NEW w \in Worker, HandOver(w) \/ Work(w)
          PROVE  [Abstract!Next]_Abstract!vars
        BY <2>6, PoolFrame
    <2>7. CASE UNCHANGED vars
        BY <2>7 DEF vars
    <2> QED
        BY <2>1, <2>2, <2>3, <2>4, <2>5, <2>6, <2>7 DEF Next, Main, EncodeNext, Finished
<1> QED BY <1>1, <1>2, Invariance, PTL DEF Spec, Reproducible, Abstract!Spec

=============================================================================
