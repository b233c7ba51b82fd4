------------------------------ MODULE MCConfig ------------------------------
(* An int of six bits and an int32 of four: -32 .. 31 and -8 .. 7, default *)
(* bounds 4 and 2.                                                         *)
EXTENDS Config

Form(f) == [form |-> f, n |-> 0]
MCPoolTexts == {Form("unset"), Form("junk")}
               \cup {Number(i) : i \in {-33, -32, -15, -8, -1, 0, 1, 5, 7, 8, 16, 21, 31, 32}}
MCRatios == {Form("unset"), Form("junk"), Form("nan")}
            \cup {Number(i) : i \in {-1, 0, 50, 100, 101}}
MCNaN == {Form("nan"), Number(50)}
=============================================================================
