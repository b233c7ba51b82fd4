----------------------------- MODULE MCAccounts -----------------------------
(* Two stored accounts: logins, reads, updates and deletes racing with one *)
(* another and with a registration.                                        *)
EXTENDS MCValues

CONSTANTS g1, g2, r1, r2, u1, u2, u3

MCUserID == {u1, u2, u3}
MCHost == g1 :> r1 @@ g2 :> r2
MCSeed == u1 :> Row(u1, ann, alice, secret) @@ u2 :> Row(u2, bob, alice, longest)
          @@ u3 :> NoUser
MCRegisterInputs == {Form(Mail(ann, TRUE), Named(full, 1), longest)}
MCCredentials == {
    [email |-> Mail(ann, FALSE), password |-> secret],
    [email |-> Mail(ann, TRUE), password |-> overlong],
    [email |-> Mail(bob, TRUE), password |-> overlong],
    [email |-> Mail(bob, TRUE), password |-> empty]}
MCUpdateInputs == {
    [email |-> Mail(ann, FALSE), name |-> Nil],
    [email |-> Mail(bob, TRUE), name |-> Named(nobody, 1)],
    [email |-> Nil, name |-> Named(full, 0)],
    [email |-> Nil, name |-> Named(full, 1)]}

(* For the runs that look at two updates of one account alone.             *)
MCMoves == {
    [email |-> Mail(ann, TRUE), name |-> Nil],
    [email |-> Nil, name |-> Named(full, 0)]}
MCOneSeed == u1 :> Row(u1, bob, alice, secret) @@ u2 :> NoUser
=============================================================================
