----------------------------- MODULE EncodingSpec -----------------------------
(***************************************************************************)
(* What the encoder promises: the outcome of a conversion depends on the   *)
(* program alone.  One step takes the input to its outcome; there are no   *)
(* workers, no order of completion and no cached state.                    *)
(***************************************************************************)
EXTENDS Encoding

VARIABLES
    program,    \* the input
    result      \* [status, code]

vars == <<program, result>>

Init ==
    /\ program \in Programs
    /\ result = [status |-> "pending", code |-> {}]

Convert ==
    /\ result.status = "pending"
    /\ result' = IF Encodable(program)
                 THEN [status |-> "done", code |-> Encoded(program)]
                 ELSE [status |-> "failed", code |-> {}]
    /\ UNCHANGED program

Next == Convert

Spec == Init /\ [][Next]_vars

=============================================================================
