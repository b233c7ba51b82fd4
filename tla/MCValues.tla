------------------------------ MODULE MCValues ------------------------------
(* The small value sets all model-checking modules share: two usable       *)
(* addresses, one without an "@" and the empty one; names of length 0, 5   *)
(* and 100; passwords of length 0, 7, 8 and 72, and one of 80 bytes that   *)
(* begins with the 72 of longest.                                          *)
EXTENDS UserServiceProperties, TLC

CONSTANTS ann, bob, noat, blank, nobody, alice, full,
          empty, short, secret, longest, overlong

MCEmailText == {ann, bob, noat, blank}
MCWithAt == {ann, bob}
MCNameText == {nobody, alice, full}
MCNameLen == nobody :> 0 @@ alice :> 5 @@ full :> 100
MCPassword == {empty, short, secret, longest, overlong}
MCPasswordLen == empty :> 0 @@ short :> 7 @@ secret :> 8 @@ longest :> 72
                 @@ overlong :> 80
MCBcryptKey == [p \in MCPassword |-> IF p = overlong THEN longest ELSE p]

Mail(text, tidy) == [text |-> text, tidy |-> tidy]
Named(text, pad) == [text |-> text, pad |-> pad]
Form(email, name, password) ==
    [email |-> email, name |-> name, password |-> password]
Row(id, email, name, hash) ==
    [id |-> id, email |-> Mail(email, TRUE), name |-> Named(name, 0),
     hash |-> hash, created |-> 0, updated |-> 0]
=============================================================================
