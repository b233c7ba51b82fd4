--------------------------- MODULE MCRegistration ---------------------------
(* Registrations racing for one address from an empty table, in two        *)
(* replicas.                                                               *)
EXTENDS MCValues, OperationCounts

CONSTANTS g1, g2, g3, r1, r2

MCHost == g1 :> r1 @@ g2 :> r2 @@ g3 :> r2
MCSeed == [id \in UserID |-> NoUser]

(* One address in two spellings; a short password; one bcrypt refuses.     *)
MCRegisterInputs == {
    Form(Mail(ann, TRUE), Named(alice, 0), secret),
    Form(Mail(ann, FALSE), Named(full, 1), longest),
    Form(Mail(bob, TRUE), Named(alice, 0), short),
    Form(Mail(ann, TRUE), Named(alice, 1), overlong)}

Alike == Permutations(UserID) \cup Permutations({g2, g3})
=============================================================================
