------------------------------- MODULE Encoding -------------------------------
(***************************************************************************)
(* The input of the encoder of internal/asm2plan9s and the answers of the  *)
(* assembler it calls.  A function is the sequence of its instructions,    *)
(* and of an instruction only what decides how it gets encoded is kept.    *)
(* Shared by EncodingSpec (what the encoder promises) and BatchEncoder     *)
(* (what it does).                                                         *)
(***************************************************************************)
EXTENDS Integers, Sequences

CONSTANTS
    N,          \* number of functions of the program
    Programs    \* the inputs considered

Func == 1 .. N
Line == Func \X (Nat \ {0})

(***************************************************************************)
(* The kinds of instructions:                                              *)
(*   mapped       has a Plan 9 mnemonic of its own (directlyMapped)        *)
(*   plain        assembled; its bytes do not depend on where it stands    *)
(*   relative     assembled; its bytes hold the distance to a label        *)
(*   prefixed     a prefixed branch to a local label: encoded with its     *)
(*                function or not at all                                   *)
(*   undecodable  clang assembles it, instLen cannot tell its length       *)
(*   rejected     not assembled by any candidate command                   *)
(***************************************************************************)
Kind == {"mapped", "plain", "relative", "prefixed", "undecodable", "rejected"}

\* accepted: the validations of BeginFunctions find nothing to object to.
\* oneText:  no label is defined by two functions, and one candidate command
\*           takes all functions together.
Program == [body : [Func -> Seq(Kind)], accepted : BOOLEAN, oneText : BOOLEAN]

\* The text an instruction's machine code was assembled in; "mnemonic" when it
\* has none.
Text == {"mnemonic", "program", "function", "alone"}
Code == [line : Line, text : Text]

ASSUME NAssumption == N \in Nat \ {0}
ASSUME ProgramsAssumption == Programs \subseteq Program

-----------------------------------------------------------------------------
\* The instructions of f that need machine code.
Targets(p, f) == {i \in DOMAIN p.body[f] : p.body[f][i] # "mapped"}

FunctionAssembles(p, f) ==
    \A i \in DOMAIN p.body[f] : p.body[f][i] \notin {"undecodable", "rejected"}

ProgramAssembles(p) == p.oneText /\ \A f \in Func : FunctionAssembles(p, f)

\* No entry at all: batchEncodeProgram returns neither a batch nor an error.
NoEntries(p) == \A f \in Func : p.body[f] = <<>>

\* batchEncodeFunction; an error and an empty map are treated alike.
FunctionBatch(p, f) ==
    IF FunctionAssembles(p, f)
    THEN {[line |-> <<f, i>>, text |-> "function"] : i \in Targets(p, f)}
    ELSE {}

\* The machine code batchEncodeProgram returns when it succeeds.
ProgramBatch(p) ==
    UNION {{[line |-> <<f, i>>, text |-> "program"] : i \in Targets(p, f)} : f \in Func}

-----------------------------------------------------------------------------
(* The outcome of a conversion as a function of the program. *)

\* The text that instruction i of function f is assembled in.
TextOf(p, f, i) ==
    IF p.body[f][i] = "mapped" THEN "mnemonic"
    ELSE IF ProgramAssembles(p) THEN "program"
    ELSE IF FunctionAssembles(p, f) THEN "function"
    ELSE "alone"

\* Alone, a prefixed branch and a rejected instruction have no encoding.
Encodable(p) ==
    /\ p.accepted
    /\ \A f \in Func : \A i \in DOMAIN p.body[f] :
          TextOf(p, f, i) = "alone" => p.body[f][i] \notin {"prefixed", "rejected"}

Encoded(p) ==
    UNION {{[line |-> <<f, i>>, text |-> TextOf(p, f, i)] : i \in DOMAIN p.body[f]} : f \in Func}

=============================================================================
