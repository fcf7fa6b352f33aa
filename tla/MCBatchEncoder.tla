---------------------------- MODULE MCBatchEncoder ----------------------------
(***************************************************************************)
(* BatchEncoder on three functions of at most two instructions, with one   *)
(* worker fewer than functions, so that workers come back for more.        *)
(***************************************************************************)
EXTENDS BatchEncoder

MCN == 3
MCProcs == 2

\* One body for each way a function can fare in the batches.
Bodies == {<<>>, <<"mapped">>, <<"plain", "mapped">>, <<"mapped", "relative">>,
           <<"undecodable", "relative">>, <<"prefixed">>, <<"rejected">>}

MCPrograms ==
    [body : [Func -> Bodies], accepted : {TRUE}, oneText : BOOLEAN]
        \cup [body : [Func -> {<<"plain", "mapped">>}], accepted : {FALSE}, oneText : {TRUE}]

=============================================================================
