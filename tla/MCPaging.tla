------------------------------ MODULE MCPaging ------------------------------
(* Four accounts, two of them of one instant; pages of at most three, two  *)
(* by default.                                                             *)
EXTENDS Paging

Form(f) == [form |-> f, n |-> 0]
MCCreated == <<1, 2, 3, 3>>
MCLimits == {Form("absent"), Form("junk"), Form("huge"), Number(-1), Number(1)}
MCStarts == {Form("absent"), Form("junk"), Number(-1)}
=============================================================================
