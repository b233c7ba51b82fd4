------------------------------ MODULE MCWebAPI ------------------------------
(* The API over one stored account and one free id.  Besides the values of *)
(* MCValues: odd, an address with an "@" that is not well formed; broad, a *)
(* name of 60 characters and 120 bytes; wide, a password of 4 characters   *)
(* and 8 bytes.                                                            *)
EXTENDS MCValues, WebAPIProperties

CONSTANTS odd, broad, wide, g1, g2, r1, u1, u2

MCWebText == {ann, bob, odd, blank}
MCWebAt == {ann, bob, odd}
MCWebName == {alice, broad}
MCWebNameLen == alice :> 5 @@ broad :> 120
MCNameRunes == alice :> 5 @@ broad :> 60
MCWebPassword == {secret, wide, longest, overlong}
MCWebPasswordLen == secret :> 8 @@ wide :> 8 @@ longest :> 72 @@ overlong :> 80
MCPasswordRunes == [MCWebPasswordLen EXCEPT ![wide] = 4]
MCWebBcryptKey == [p \in MCWebPassword |-> IF p = overlong THEN longest ELSE p]
MCWellFormed == {Mail(e, tidy) : e \in {ann, bob}, tidy \in BOOLEAN}

MCHost == g1 :> r1 @@ g2 :> r1
Alike == Permutations({g1, g2})
MCSeed == u1 :> Row(u1, ann, alice, secret) @@ u2 :> NoUser

MCBodies == {
    Form(Mail(bob, FALSE), Named(alice, 1), longest),
    Form(Mail(bob, TRUE), Named(broad, 0), secret),
    Form(Mail(bob, TRUE), Named(alice, 0), wide)}
MCLogins == {
    [email |-> Mail(ann, FALSE), password |-> secret],
    [email |-> Mail(odd, TRUE), password |-> secret]}
MCPuts == {
    [email |-> Mail(odd, FALSE), name |-> Nil],
    [email |-> Nil, name |-> Nil]}
=============================================================================
