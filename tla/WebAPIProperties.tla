------------------------- MODULE WebAPIProperties -------------------------
(***************************************************************************)
(* What the clients of the API can rely on.                                *)
(***************************************************************************)
EXTENDS WebAPI

(* The statuses tell the truth about writes, over all the layers: a        *)
(* success means that the statement took effect, a client error that it    *)
(* did not; only 500 leaves it open (errors.go:13-31, with the answers     *)
(* user_service.go gives).                                                 *)
TruthfulStatus ==
    \A g \in Goroutine :
        reply[g] # NoReply /\ req[g].op \in {"register", "update", "delete"} =>
            /\ Status(g) < 300 => wrote[g] = "row"
            /\ Status(g) \in 400 .. 499 => wrote[g] = "none"

(* An account that is there changes, or goes, only by a request that came  *)
(* with a token of this service, still valid when it arrived - though it   *)
(* may have expired by the time of the statement, its account may be gone, *)
(* and the request may have been answered (router.go:76,                   *)
(* middleware/auth.go:20).                                                 *)
OnlyBearersChange ==
    [][\A id \in UserID : users[id] # NoUser /\ users'[id] # users[id] =>
          \E g \in Goroutine :
             /\ \/ pc[g] # "idle" /\ pc'[g] = "idle"
                \/ left[g] # "none" /\ left'[g] = "none"
             /\ req[g].id = id
             /\ bearer[g].token \in issued
             /\ bearer[g].at < bearer[g].token.at + TTL]_webVars

(* Tokens live for JWT_EXPIRY, short of it by less than a second: the      *)
(* expiry is cut to whole seconds when the token is issued and compared    *)
(* with the full clock when it is parsed (jwt.go:38, 46).  The two clocks  *)
(* may be those of two hosts; between readings they agree on, that is all. *)
LifetimeExact ==
    \A g \in Goroutine : bearer[g].token # Nil =>
        LET k == bearer[g].token
        IN /\ refused[g] # 401 => bearer[g].at < k.at + TTL
           /\ refused[g] = 401 => bearer[g].at > k.at + TTL - Second

(* Whoever registered can log in: while an account has the address it was  *)
(* registered with, that address and the registered password pass the      *)
(* binding of the login, find this account and no other, and match.  (An   *)
(* update may bring in an address that the login's binding refuses,        *)
(* dto.go:27 and user_service.go:164.)                                     *)
LoginStaysPossible ==
    \A id \in UserID : users[id] # NoUser /\ users[id].email = born[id].email =>
        LET c == [email |-> users[id].email, password |-> born[id].hash]
        IN /\ BindLogin(c)
           /\ NormalizeEmail(c.email) = c.email
           /\ Holders(users, c.email) = {users[id]}
           /\ Matches(users[id].hash, c.password)

(* The service alone counts bytes; that every password has 8 characters is *)
(* up to the binding, which must run before each call (dto.go:15).         *)
PasswordsLongEnough ==
    \A id \in UserID : users[id] # NoUser => PasswordRunes[users[id].hash] >= 8
=============================================================================
