---------------------------- MODULE WebAPIProofs ----------------------------
(***************************************************************************)
(* What the API keeps for every number of goroutines, accounts, calls and  *)
(* for every JWT_EXPIRY.                                                   *)
(***************************************************************************)
EXTENDS WebAPIProperties, UserServiceProofs

USE DEF At

-----------------------------------------------------------------------------
(* The API uses the service as its clients may: every step of the one is a *)
(* step of the other or leaves it alone.                                   *)
LEMMA WebStep ==
    ASSUME WebNext
    PROVE  [Next]_vars
  <1>1. ASSUME NEW g \in Goroutine,
               \/ PostRegister(g) \/ PostLogin(g) \/ Unauthorized(g)
               \/ GetUser(g) \/ PutUser(g) \/ DeleteUser(g)
        PROVE  Call(g) \/ UNCHANGED vars
    BY <1>1 DEF PostRegister, PostLogin, Unauthorized, GetUser, PutUser, DeleteUser,
                BadID, TurnAway, Call
  <1>2. ASSUME NEW g \in Goroutine, Handle(g)
        PROVE  Step(g)
    BY <1>2 DEF Handle
  <1> QED BY <1>1, <1>2 DEF WebNext, Next

(* So what is proved of the service holds of it under the API.             *)
LEMMA Behaves == WebSpec => Spec
  <1>1. WebInit => Init
    BY DEF WebInit
  <1>2. [WebNext]_webVars => [Next]_vars
    BY WebStep DEF webVars
  <1> QED BY <1>1, <1>2, PTL DEF WebSpec, Spec

(* The status of an answer tells the truth about the write behind it       *)
(* (errors.go:13-31).                                                      *)
THEOREM StatusTruthful == WebSpec => []TruthfulStatus
  <1>1. TypeInv /\ HonestAnswers => TruthfulStatus
    <2> SUFFICES ASSUME TypeInv, HonestAnswers, NEW g \in Goroutine, reply[g] # NoReply,
                        req[g].op \in {"register", "update", "delete"}
                 PROVE  /\ Status(g) < 300 => wrote[g] = "row"
                        /\ Status(g) \in 400 .. 499 => wrote[g] = "none"
      BY DEF TruthfulStatus
    <2>1. reply[g].err \in Errors
      BY DEF TypeInv, LocalOK, Reply
    <2>2. /\ reply[g].err = "nil" => wrote[g] = "row"
          /\ reply[g].err \notin {"nil", "internal"} => wrote[g] = "none"
      BY DEF HonestAnswers
    <2>3. /\ reply[g].err = "nil" => Status(g) \in {201, 200, 204}
          /\ reply[g].err = "internal" => Status(g) = 500
          /\ reply[g].err \notin {"nil", "internal"} => Status(g) \in {400, 401, 404, 409}
      BY <2>1 DEF Status, AuthSuccess, UserSuccess, MapError, Errors
    <2> QED BY <2>1, <2>2, <2>3
  <1> QED BY <1>1, Behaves, TypeAlways, AnswersHonest, PTL

-----------------------------------------------------------------------------
(* Tokens.  What is dropped from an expiry is less than a second.          *)
LEMMA Remainder ==
    ASSUME NEW e \in Int, NEW s \in Nat, s > 0
    PROVE  e % s \in 0 .. s - 1
  BY SMT

LEMMA ExpiryBounds ==
    ASSUME NEW t \in Nat
    PROVE  Expiry(t) \in Int /\ Expiry(t) <= t + TTL /\ t + TTL - Second < Expiry(t)
  <1>1. t + TTL \in Int /\ Second \in Nat /\ Second > 0
    BY TokenTimeAssumption
  <1>2. (t + TTL) % Second \in 0 .. Second - 1
    BY <1>1, Remainder
  <1>3. PICK r \in 0 .. Second - 1 : r = (t + TTL) % Second
    BY <1>2
  <1>4. Expiry(t) = (t + TTL) - r
    BY <1>3, Zenon DEF Expiry
  <1>5. r \in Int /\ r >= 0 /\ r < Second
    BY <1>1
  <1>6. /\ (t + TTL) - r \in Int /\ (t + TTL) - r <= t + TTL
        /\ t + TTL - Second < (t + TTL) - r
    BY <1>1, <1>5, TokenTimeAssumption
  <1> QED BY <1>4, <1>6, Zenon

(* Every token was issued at some instant with the expiry of that instant. *)
Dated == \A k \in issued : k.at \in Nat /\ k.exp = Expiry(k.at)

(* What a request carries is a token of the service, and it was turned     *)
(* away for it only once it had expired.                                   *)
Borne(g) ==
    bearer[g].token # Nil =>
        /\ bearer[g].token \in issued /\ bearer[g].at \in Nat
        /\ refused[g] # 401 => bearer[g].at < bearer[g].token.exp
        /\ refused[g] = 401 => bearer[g].at >= bearer[g].token.exp

(* A call that a protected route let through came with a valid token; it   *)
(* stands for the statement that the call may leave behind.                *)
Protected == {"get", "delete"} \cup Updating
Entitled(g) ==
    At(g) \in Protected =>
        /\ bearer[g].token \in issued /\ bearer[g].at \in Nat
        /\ bearer[g].at < bearer[g].token.exp

(* The copy an update works on is of the account it was asked for.         *)
OwnCopy(g) == At(g) \in Updating \ {"update"} => user[g].id = req[g].id

Requests == DOMAIN bearer = Goroutine /\ DOMAIN refused = Goroutine

WebInv == /\ Requests /\ Dated
          /\ \A g \in Goroutine : Borne(g) /\ Entitled(g) /\ OwnCopy(g)

LEMMA WebInvInit == WebInit => WebInv
  BY DEF WebInit, Init, NoToken, WebInv, Requests, Dated, Borne, Entitled, OwnCopy,
         Protected, Updating

(* A step of a method enters no protected one, and copies the row it was   *)
(* asked for.                                                              *)
LEMMA StepProtected ==
    ASSUME TypeInv, NEW g \in Goroutine, OwnCopy(g), Step(g)
    PROVE  /\ At(g)' \in Protected => At(g) \in Protected
           /\ OwnCopy(g)'
  <1>0. CASE Abandon(g)
    <2>1. At(g)' = At(g) /\ user' = user /\ req' = req
      BY <1>0, TypeAbandon DEF Abandon
    <2> QED BY <2>1 DEF OwnCopy
  <1>6. ASSUME ~Abandon(g)
        PROVE  At(g) = pc[g] /\ At(g)' = pc'[g] /\ pc[g] # "idle"
    <2>1. pc[g] # "idle"
      BY <1>6 DEF Step, RegisterCheck, RegisterBuild, RegisterInsert, AuthenticateRead,
             AuthenticateIssue, GetRead, UpdateRead, UpdateCheck, UpdateStamp, UpdateWrite,
             DeleteRow
    <2> QED BY <1>6, <2>1, Attended, NoneLeft
  <1> USE DEF TypeInv, LocalOK, OwnCopy, Protected, Updating, Goto, Answer, Return, Refuse, Write
  <1>1. CASE ~Abandon(g) /\ (RegisterCheck(g) \/ RegisterBuild(g) \/ RegisterInsert(g))
    BY <1>6, <1>1 DEF RegisterCheck, RegisterBuild, RegisterInsert
  <1>2. CASE ~Abandon(g) /\ (AuthenticateRead(g) \/ AuthenticateIssue(g) \/ GetRead(g) \/ DeleteRow(g))
    BY <1>6, <1>2 DEF AuthenticateRead, AuthenticateIssue, GetRead, DeleteRow
  <1>3. CASE ~Abandon(g) /\ UpdateRead(g)
    <2>1. CASE pc'[g] = "idle"
      BY <1>6, <1>3, <2>1 DEF UpdateRead
    <2>2. CASE pc'[g] # "idle"
      <3>1. PICK a \in GetByID(users, req[g].id) :
               /\ a.err = "nil" /\ req'[g] = req[g]
               /\ user'[g] = IF req[g].name = Nil THEN a.user
                             ELSE [a.user EXCEPT !.name = req[g].name]
        BY <1>3, <2>2 DEF UpdateRead
      <3>2. a.user.id = req[g].id /\ a.user \in User
        <4>1. pc[g] = "update" /\ req[g].id \in UserID
          BY <1>6, <1>3 DEF UpdateRead, Shape
        <4>2. a.user \in {r \in Rows(users) : r.id = req[g].id}
          BY <3>1, ScanOutcome DEF GetByID
        <4> QED BY <4>1, <4>2 DEF Rows, StoreOK, Table
      <3>3. user'[g].id = a.user.id
        BY <3>1, <3>2 DEF User
      <3> QED BY <1>6, <1>3, <3>1, <3>2, <3>3 DEF UpdateRead
    <2> QED BY <2>1, <2>2
  <1>4. CASE ~Abandon(g) /\ (UpdateCheck(g) \/ UpdateStamp(g))
    <2>1. user[g] \in User /\ user[g].id = req[g].id /\ req'[g] = req[g]
      BY <1>6, <1>4 DEF UpdateCheck, UpdateStamp, Shape, Holding
    <2>2. CASE pc'[g] = "idle"
      BY <1>6, <1>4, <2>2 DEF UpdateCheck, UpdateStamp
    <2>3. CASE pc'[g] # "idle"
      <3>1. \/ user'[g] = [user[g] EXCEPT !.email = NormalizeEmail(req[g].email)]
            \/ \E now \in Readings : user'[g] = [user[g] EXCEPT !.updated = now]
        BY <1>4, <2>3 DEF UpdateCheck, UpdateStamp
      <3>2. user'[g].id = user[g].id
        BY <2>1, <3>1 DEF User
      <3> QED BY <1>6, <1>4, <2>1, <3>2 DEF UpdateCheck, UpdateStamp
    <2> QED BY <2>2, <2>3
  <1>5. CASE ~Abandon(g) /\ UpdateWrite(g)
    BY <1>6, <1>5 DEF UpdateWrite
  <1> QED BY <1>0, <1>1, <1>2, <1>3, <1>4, <1>5 DEF Step

(* The validity of a token, as the two sides of one comparison.            *)
LEMMA ParsesMeans ==
    ASSUME Dated, NEW k \in issued, k # Nil, NEW now \in Readings
    PROVE  /\ now \in Nat
           /\ Parses(k, now) => now < k.exp
           /\ ~Parses(k, now) => now >= k.exp
  <1>1. now \in Nat
    BY BoundAssumption DEF Readings
  <1>2. k.exp \in Int
    BY ExpiryBounds DEF Dated
  <1> QED BY <1>1, <1>2 DEF Parses

(* What a request that was let through bears is a valid token.             *)
LEMMA AuthorizedMeans ==
    ASSUME Dated, NEW b \in Authorized
    PROVE  b.token \in issued /\ b.at \in Nat /\ b.at < b.token.exp /\ b.token # Nil
  <1>1. b.token \in issued /\ b.at \in Readings /\ Parses(b.token, b.at)
    BY DEF Authorized
  <1>2. b.token # Nil
    BY <1>1 DEF Parses
  <1> QED BY <1>1, <1>2, ParsesMeans

LEMMA PassKeeps ==
    ASSUME TypeInv, WebInv, NEW g \in Goroutine, NEW b, Call(g), Pass(g, b),
           (b = NoToken /\ pc'[g] \notin Protected) \/ b \in Authorized
    PROVE  WebInv'
  <1>1. /\ Requests' /\ issued' = issued /\ refused'[g] = 0 /\ bearer'[g] = b
        /\ \A h \in Goroutine \ {g} : bearer'[h] = bearer[h] /\ refused'[h] = refused[h]
    BY DEF WebInv, Requests, Pass
  <1>2. Others(g)
    BY StepClasses
  <1>3. pc'[g] \in Op /\ At(g)' = pc'[g]
    <2>1. pc'[g] \in Op
      BY DEF Call, RegisterCall, AuthenticateCall, GetCall, UpdateCall, DeleteCall,
             Receive, NoRequest, Op, TypeInv, LocalOK
    <2>2. left'[g] = "none"
      BY DEF Call, RegisterCall, AuthenticateCall, GetCall, UpdateCall, DeleteCall, Receive
    <2> QED BY <2>1, <2>2
  <1>4. Dated'
    BY <1>1 DEF WebInv, Dated, Expiry
  <1>5. \A h \in Goroutine \ {g} : Borne(h)' /\ Entitled(h)' /\ OwnCopy(h)'
    BY <1>1, <1>2 DEF WebInv, Borne, Entitled, OwnCopy, Others
  <1>6. OwnCopy(g)'
    BY <1>3 DEF OwnCopy, Updating, Op
  <1>7. Borne(g)' /\ Entitled(g)'
    <2>1. CASE b = NoToken /\ pc'[g] \notin Protected
      BY <1>1, <1>3, <2>1 DEF NoToken, Borne, Entitled
    <2>2. CASE b \in Authorized
      BY <1>1, <2>2, AuthorizedMeans DEF WebInv, Borne, Entitled
    <2> QED BY <2>1, <2>2
  <1> QED BY <1>1, <1>4, <1>5, <1>6, <1>7 DEF WebInv

LEMMA TurnAwayKeeps ==
    ASSUME TypeInv, WebInv, NEW g \in Goroutine, NEW b, NEW status, TurnAway(g, b, status),
           b.token # Nil => /\ b.token \in issued /\ b.at \in Nat
                            /\ status # 401 => b.at < b.token.exp
                            /\ status = 401 => b.at >= b.token.exp
    PROVE  WebInv'
  <1>1. /\ Requests' /\ issued' = issued /\ refused'[g] = status /\ bearer'[g] = b
        /\ \A h \in Goroutine \ {g} : bearer'[h] = bearer[h] /\ refused'[h] = refused[h]
    <2>1. /\ bearer' = [bearer EXCEPT ![g] = b] /\ refused' = [refused EXCEPT ![g] = status]
          /\ issued' = issued
      BY DEF TurnAway
    <2>2. Requests
      BY DEF WebInv
    <2> QED BY <2>1, <2>2 DEF Requests
  <1>2. pc' = pc /\ user' = user /\ req' = req /\ left' = left /\ At(g) = "idle"
    BY DEF TurnAway, vars, local
  <1>3. Dated'
    BY <1>1 DEF WebInv, Dated, Expiry
  <1>4. \A h \in Goroutine \ {g} : Borne(h)' /\ Entitled(h)' /\ OwnCopy(h)'
    BY <1>1, <1>2 DEF WebInv, Borne, Entitled, OwnCopy
  <1>5. Entitled(g)' /\ OwnCopy(g)'
    BY <1>2 DEF Entitled, OwnCopy, Protected, Updating
  <1>6. Borne(g)'
    BY <1>1 DEF Borne
  <1> QED BY <1>1, <1>3, <1>4, <1>5, <1>6 DEF WebInv

LEMMA HandleKeeps ==
    ASSUME TypeInv, WebInv, NEW g \in Goroutine, Handle(g)
    PROVE  WebInv'
  <1>1. Step(g) /\ Others(g)
    BY StepClasses DEF Handle
  <1>2. At(g)' \in Protected => At(g) \in Protected
    BY <1>1, StepProtected DEF WebInv
  <1>3. \A h \in Goroutine : OwnCopy(h)'
    BY <1>1, StepProtected DEF WebInv, Others, OwnCopy
  <1>4. bearer' = bearer /\ refused' = refused /\ issued \subseteq issued'
    BY DEF Handle
  <1>5. Dated'
    <2>1. \A k \in issued' : k \in issued \/ \E now \in Readings : k.at = now /\ k.exp = Expiry(now)
      BY DEF Handle, Issue
    <2>2. \A now \in Readings : now \in Nat
      BY BoundAssumption DEF Readings
    <2> QED BY <2>1, <2>2 DEF WebInv, Dated, Expiry
  <1>6. \A h \in Goroutine : At(h)' \in Protected => At(h) \in Protected
    BY <1>1, <1>2 DEF Others
  <1>7. \A h \in Goroutine : Borne(h)' /\ Entitled(h)'
    BY <1>4, <1>6 DEF WebInv, Borne, Entitled
  <1> QED BY <1>3, <1>4, <1>5, <1>7 DEF WebInv, Requests

LEMMA SettleKeeps ==
    ASSUME TypeInv, WebInv, NEW g \in Goroutine, Settle(g), UNCHANGED web
    PROVE  WebInv'
  <1>1. Others(g) /\ At(g)' = "idle"
    BY EndClasses
  <1>2. bearer' = bearer /\ refused' = refused /\ issued' = issued
    BY DEF web
  <1>3. Requests' /\ Dated'
    BY <1>2 DEF WebInv, Requests, Dated, Expiry
  <1>4. \A h \in Goroutine \ {g} : Borne(h)' /\ Entitled(h)' /\ OwnCopy(h)'
    BY <1>1, <1>2 DEF WebInv, Borne, Entitled, OwnCopy, Others
  <1>5. Borne(g)' /\ Entitled(g)' /\ OwnCopy(g)'
    BY <1>1, <1>2 DEF WebInv, Borne, Entitled, OwnCopy, Protected, Updating
  <1> QED BY <1>3, <1>4, <1>5 DEF WebInv

LEMMA CrashKeeps ==
    ASSUME TypeInv, WebInv, NEW r, Crash(r), UNCHANGED web
    PROVE  WebInv'
  <1>1. bearer' = bearer /\ refused' = refused /\ issued' = issued
    BY DEF web
  <1>2. Requests' /\ Dated'
    BY <1>1 DEF WebInv, Requests, Dated, Expiry
  <1>3. ASSUME NEW g \in Goroutine
        PROVE  Borne(g)' /\ Entitled(g)' /\ OwnCopy(g)'
    <2>1. CASE At(g)' = "idle"
      BY <1>1, <2>1 DEF WebInv, Borne, Entitled, OwnCopy, Protected, Updating
    <2>2. CASE At(g)' # "idle"
      <3>1. At(g)' = At(g) /\ user'[g] = user[g] /\ req'[g] = req[g]
        BY <2>2, CrashAt
      <3> QED BY <1>1, <3>1 DEF WebInv, Borne, Entitled, OwnCopy
    <2> QED BY <2>1, <2>2
  <1> QED BY <1>2, <1>3 DEF WebInv

LEMMA WebInvNext == TypeInv /\ WebInv /\ [WebNext]_webVars => WebInv'
  <1> SUFFICES ASSUME TypeInv, WebInv, [WebNext]_webVars PROVE WebInv'
    OBVIOUS
  <1>0. NoToken.token = Nil /\ Dated
    BY DEF NoToken, WebInv
  <1>1. ASSUME NEW g \in Goroutine, PostRegister(g)
        PROVE  WebInv'
    <2>1. CASE RegisterCall(g) /\ Pass(g, NoToken)
      <3>1. pc'[g] = "register"
        BY <2>1 DEF RegisterCall, Receive, NoRequest, TypeInv, LocalOK
      <3> QED BY <2>1, <3>1, PassKeeps DEF Call, Protected, Updating
    <2>2. CASE TurnAway(g, NoToken, 400)
      BY <1>0, <2>2, TurnAwayKeeps
    <2> QED BY <1>1, <2>1, <2>2 DEF PostRegister
  <1>2. ASSUME NEW g \in Goroutine, PostLogin(g)
        PROVE  WebInv'
    <2>1. CASE AuthenticateCall(g) /\ Pass(g, NoToken)
      <3>1. pc'[g] = "auth"
        BY <2>1 DEF AuthenticateCall, Receive, NoRequest, TypeInv, LocalOK
      <3> QED BY <2>1, <3>1, PassKeeps DEF Call, Protected, Updating
    <2>2. CASE TurnAway(g, NoToken, 400)
      BY <1>0, <2>2, TurnAwayKeeps
    <2> QED BY <1>2, <2>1, <2>2 DEF PostLogin
  <1>3. ASSUME NEW g \in Goroutine, Unauthorized(g)
        PROVE  WebInv'
    <2>1. PICK k \in issued \cup {Nil}, now \in Readings :
             ~Parses(k, now) /\ TurnAway(g, Bears(k, now), 401)
      BY <1>3 DEF Unauthorized
    <2>2. CASE k = Nil
      BY <1>0, <2>1, <2>2, TurnAwayKeeps DEF Bears
    <2>3. CASE k # Nil
      <3>1. now \in Nat /\ now >= k.exp /\ k \in issued
        BY <1>0, <2>1, <2>3, ParsesMeans
      <3>2. Bears(k, now).token = k /\ Bears(k, now).at = now
        BY <2>3 DEF Bears
      <3> QED BY <2>1, <3>1, <3>2, TurnAwayKeeps
    <2> QED BY <2>2, <2>3
  <1>4. ASSUME NEW g \in Goroutine, GetUser(g) \/ PutUser(g) \/ DeleteUser(g)
        PROVE  WebInv'
    <2>1. PICK b \in Authorized : (Call(g) /\ Pass(g, b)) \/ TurnAway(g, b, 400)
      BY <1>4 DEF GetUser, PutUser, DeleteUser, BadID, Call
    <2>2. CASE TurnAway(g, b, 400)
      <3>1. b.token \in issued /\ b.at \in Nat /\ b.at < b.token.exp
        BY <1>0, AuthorizedMeans
      <3> QED BY <2>2, <3>1, TurnAwayKeeps
    <2> QED BY <2>1, <2>2, PassKeeps
  <1>5. ASSUME NEW g \in Goroutine, Handle(g)
        PROVE  WebInv'
    BY <1>5, HandleKeeps
  <1>6. ASSUME UNCHANGED vars, UNCHANGED web
        PROVE  WebInv'
    <2>1. Requests' /\ Dated'
      BY <1>6 DEF web, WebInv, Requests, Dated, Expiry
    <2>2. \A g \in Goroutine : Borne(g)' /\ Entitled(g)' /\ OwnCopy(g)'
      BY <1>6 DEF web, vars, local, WebInv, Borne, Entitled, OwnCopy
    <2> QED BY <2>1, <2>2 DEF WebInv
  <1> QED
    BY <1>1, <1>2, <1>3, <1>4, <1>5, <1>6, SettleKeeps, CrashKeeps
       DEF WebNext, Quiesce, webVars

LEMMA WebAlways == WebSpec => [](TypeInv /\ WebInv)
  <1>1. WebInit => Init
    BY DEF WebInit
  <1>2. [WebNext]_webVars => [Next]_vars
    BY WebStep DEF webVars
  <1>3. TypeInv /\ WebInv /\ [WebNext]_webVars => (TypeInv /\ WebInv)'
    BY <1>2, TypeNext, WebInvNext
  <1> QED BY <1>1, <1>3, TypeInit, WebInvInit, PTL DEF WebSpec

(* A token is accepted before JWT_EXPIRY is over and refused only in the   *)
(* last second of it or after (jwt.go:38).                                 *)
THEOREM Lifetime == WebSpec => []LifetimeExact
  <1>1. WebInv => LifetimeExact
    <2> SUFFICES ASSUME WebInv, NEW g \in Goroutine, bearer[g].token # Nil
                 PROVE  LET k == bearer[g].token
                        IN /\ refused[g] # 401 => bearer[g].at < k.at + TTL
                           /\ refused[g] = 401 => bearer[g].at > k.at + TTL - Second
      BY DEF LifetimeExact
    <2>1. PICK k \in issued : k = bearer[g].token
      BY DEF WebInv, Borne
    <2>2. k.at \in Nat /\ k.exp = Expiry(k.at) /\ bearer[g].at \in Nat
      BY <2>1 DEF WebInv, Borne, Dated
    <2>3. /\ k.exp \in Int /\ k.exp <= k.at + TTL
          /\ k.at + TTL - Second < k.exp /\ k.at + TTL \in Int /\ Second \in Int
      BY <2>2, ExpiryBounds, TokenTimeAssumption
    <2>4. /\ refused[g] # 401 => bearer[g].at < k.exp
          /\ refused[g] = 401 => bearer[g].at >= k.exp
      BY <2>1 DEF WebInv, Borne
    <2>5. refused[g] # 401 => bearer[g].at < k.at + TTL
      BY <2>2, <2>3, <2>4
    <2>6. refused[g] = 401 => bearer[g].at > k.at + TTL - Second
      BY <2>2, <2>3, <2>4, TokenTimeAssumption
    <2> QED BY <2>1, <2>5, <2>6
  <1> QED BY <1>1, WebAlways, PTL

(* Only a bearer of a token that was valid on arrival changes an account   *)
(* that is there (router.go:76).                                           *)
THEOREM BearersChange == WebSpec => OnlyBearersChange
  <1> DEFINE Ending(g) == \/ pc[g] # "idle" /\ pc'[g] = "idle"
                          \/ left[g] # "none" /\ left'[g] = "none"
             ByBearer ==
                \A id \in UserID : users[id] # NoUser /\ users'[id] # users[id] =>
                  \E g \in Goroutine :
                     /\ Ending(g)
                     /\ req[g].id = id
                     /\ bearer[g].token \in issued
                     /\ bearer[g].at < bearer[g].token.at + TTL
  <1>1. TypeInv /\ WebInv /\ [WebNext]_webVars => [ByBearer]_webVars
    <2> SUFFICES ASSUME TypeInv, WebInv, [WebNext]_webVars,
                        NEW id \in UserID, users[id] # NoUser, users'[id] # users[id]
                 PROVE  \E g \in Goroutine :
                           /\ Ending(g) /\ req[g].id = id
                           /\ bearer[g].token \in issued
                           /\ bearer[g].at < bearer[g].token.at + TTL
      OBVIOUS
    <2>1. [Next]_vars
      BY WebStep DEF webVars
    <2>2. PICK g \in Goroutine : UpdateWrite(g) \/ DeleteRow(g) \/ RegisterInsert(g) \/ Settle(g)
      BY <2>1 DEF Next, Step, Call, RegisterCall, AuthenticateCall, GetCall, UpdateCall,
             DeleteCall, Receive, RegisterCheck, RegisterBuild, AuthenticateRead,
             AuthenticateIssue, GetRead, UpdateRead, UpdateCheck, UpdateStamp,
             Abandon, Crash, Quiesce, vars, db
    <2>3. Ending(g)
      BY <2>2 DEF UpdateWrite, DeleteRow, RegisterInsert, Settle, Write, Answer, TypeInv, LocalOK
    <2>4. At(g) \in Protected /\ req[g].id = id
      <3>1. Quiet(g)
        BY <2>2, EndClasses
      <3>2. Inserted(g) \/ Changed(g) \/ Removed(g)
        BY <3>1 DEF Quiet, db
      <3>3. ~Inserted(g)
        BY DEF Inserted, Inserts, TypeInv, StoreOK, Table, Shape, Holding, User
      <3>4. CASE Changed(g)
        <4>1. user[g].id = req[g].id /\ user[g].id = id
          BY <3>4 DEF Changed, Changes, WebInv, OwnCopy, Updating, TypeInv, StoreOK, Table
        <4> QED BY <3>4, <4>1 DEF Changed, Protected, Updating
      <3>5. CASE Removed(g)
        BY <3>5 DEF Removed, Removes, Protected, TypeInv, StoreOK, Table
      <3> QED BY <3>2, <3>3, <3>4, <3>5
    <2>5. PICK k \in issued : k = bearer[g].token
      BY <2>4 DEF WebInv, Entitled
    <2>6. /\ k.at \in Nat /\ k.exp = Expiry(k.at)
          /\ bearer[g].at \in Nat /\ bearer[g].at < k.exp
      BY <2>4, <2>5 DEF WebInv, Entitled, Dated
    <2>7. k.exp \in Int /\ k.exp <= k.at + TTL /\ k.at + TTL \in Int
      BY <2>6, ExpiryBounds, TokenTimeAssumption
    <2>8. bearer[g].at < k.at + TTL
      BY <2>6, <2>7
    <2> QED BY <2>3, <2>4, <2>5, <2>8
  <1> QED BY <1>1, WebAlways, PTL DEF WebSpec, OnlyBearersChange

-----------------------------------------------------------------------------
(* Registrations.  What the binding lets through stays with the account it *)
(* becomes: the argument follows the address and the password from the     *)
(* body to the row the account is born with.                               *)
GoodPassword(p) == p \in Password /\ PasswordRunes[p] >= 8 /\ PasswordLen[p] <= 72

Admitted(g) ==
    /\ At(g) \in Registering =>
          req[g].email \in WellFormed /\ PasswordRunes[req[g].password] >= 8
    /\ At(g) = "register_insert" =>
          /\ user[g].email \in WellFormed /\ NormalizeEmail(user[g].email) = user[g].email
          /\ GoodPassword(user[g].hash)

BornGood == \A id \in UserID : born[id] # NoUser =>
                /\ born[id].email \in WellFormed
                /\ NormalizeEmail(born[id].email) = born[id].email
                /\ GoodPassword(born[id].hash)

RegisteredInv == BornGood /\ \A g \in Goroutine : Admitted(g)

LEMMA RegisteredInit == WebInit => RegisteredInv
  <1> SUFFICES ASSUME WebInit PROVE RegisteredInv
    OBVIOUS
  <1>1. \A g \in Goroutine : Admitted(g)
    BY DEF WebInit, Init, Admitted, Registering
  <1>2. ASSUME NEW id \in UserID, Seed[id] # NoUser
        PROVE  /\ Seed[id].email \in WellFormed
               /\ NormalizeEmail(Seed[id].email) = Seed[id].email
               /\ GoodPassword(Seed[id].hash)
    <2>1. Seed[id] \in User /\ ValidRow(Seed[id])
      BY <1>2, SeedAssumption DEF Table
    <2>2. Seed[id].email.tidy /\ Seed[id].email \in Email /\ Seed[id].hash \in Password
      BY <2>1 DEF User, ValidRow
    <2>3. NormalizeEmail(Seed[id].email) = Seed[id].email
      BY <2>2 DEF NormalizeEmail, Email
    <2>4. PasswordLen[Seed[id].hash] <= 72
      BY <2>1, <2>2, PasswordAssumption DEF ValidRow
    <2> QED BY <1>2, <2>2, <2>3, <2>4, RegisteredAssumption DEF GoodPassword
  <1>3. BornGood
    BY <1>2 DEF WebInit, Init, BornGood
  <1> QED BY <1>1, <1>3 DEF RegisteredInv

(* The steps of a registration; no other step begins or continues one.     *)
LEMMA AdmittedStep ==
    ASSUME TypeInv, NEW g \in Goroutine, Admitted(g), Step(g)
    PROVE  Admitted(g)'
  <1>0. CASE Abandon(g)
    <2>1. At(g)' = At(g) /\ user' = user /\ req' = req
      BY <1>0, TypeAbandon DEF Abandon
    <2> QED BY <2>1 DEF Admitted
  <1>6. ASSUME ~Abandon(g)
        PROVE  At(g) = pc[g] /\ At(g)' = pc'[g]
    <2>1. pc[g] # "idle"
      BY <1>6 DEF Step, RegisterCheck, RegisterBuild, RegisterInsert, AuthenticateRead,
             AuthenticateIssue, GetRead, UpdateRead, UpdateCheck, UpdateStamp, UpdateWrite,
             DeleteRow
    <2> QED BY <1>6, <2>1, Attended, NoneLeft
  <1> USE DEF TypeInv, LocalOK, Registering, Goto, Answer, Return, Refuse, Write
  <1>1. CASE ~Abandon(g) /\ pc'[g] \notin Registering
    BY <1>6, <1>1 DEF Admitted
  <1>2. CASE ~Abandon(g) /\ RegisterCheck(g) /\ pc'[g] \in Registering
    BY <1>6, <1>2 DEF RegisterCheck, Admitted
  <1>3. CASE ~Abandon(g) /\ RegisterBuild(g) /\ pc'[g] \in Registering
    <2>1. /\ pc[g] = "register_build" /\ req'[g] = req[g] /\ Hashable(req[g].password)
          /\ user'[g].email = NormalizeEmail(req[g].email)
          /\ user'[g].hash = req[g].password
      BY <1>3 DEF RegisterBuild
    <2>2. /\ req[g].email \in WellFormed /\ PasswordRunes[req[g].password] >= 8
          /\ req[g].email \in Email /\ req[g].password \in Password
      BY <1>6, <1>3, <2>1 DEF Admitted, Shape
    <2>3. NormalizeEmail(NormalizeEmail(req[g].email)) = NormalizeEmail(req[g].email)
      BY <2>2 DEF NormalizeEmail, Email
    <2>4. NormalizeEmail(req[g].email) \in WellFormed
      BY <2>2, FormAssumption
    <2>5. GoodPassword(req[g].password)
      BY <2>1, <2>2 DEF GoodPassword, Hashable
    <2> QED BY <2>1, <2>2, <2>3, <2>4, <2>5 DEF Admitted
  <1>4. CASE ~Abandon(g) /\ ~RegisterCheck(g) /\ ~RegisterBuild(g)
    <2>1. pc'[g] \notin Registering
      BY <1>4 DEF Step, RegisterInsert, AuthenticateRead, AuthenticateIssue, GetRead,
                  UpdateRead, UpdateCheck, UpdateStamp, UpdateWrite, DeleteRow
    <2> QED BY <1>1, <1>4, <2>1
  <1> QED BY <1>0, <1>1, <1>2, <1>3, <1>4

LEMMA BornGoodNext ==
    ASSUME TypeInv, RegisteredInv, [Next]_vars
    PROVE  BornGood'
  <1>1. CASE UNCHANGED born
    BY <1>1 DEF RegisteredInv, BornGood
  <1>2. ASSUME NEW g \in Goroutine, Inserted(g)
        PROVE  BornGood'
    <2>1. At(g) = "register_insert" /\ user[g] \in User /\ user[g].id \in UserID
      BY <1>2 DEF Inserted, TypeInv, Shape, Holding, User
    <2>2. \A id \in UserID : born'[id] = IF id = user[g].id THEN user[g] ELSE born[id]
      BY <1>2, <2>1 DEF Inserted, TypeInv, StoreOK, Table
    <2> QED BY <2>1, <2>2 DEF RegisteredInv, BornGood, Admitted
  <1> QED BY <1>1, <1>2, TableStep DEF db, Changed, Removed

LEMMA RegisteredNext ==
    TypeInv /\ RegisteredInv /\ [WebNext]_webVars => RegisteredInv'
  <1> SUFFICES ASSUME TypeInv, RegisteredInv, [WebNext]_webVars PROVE RegisteredInv'
    OBVIOUS
  <1>0. BornGood'
    BY BornGoodNext, WebStep DEF webVars
  <1>1. ASSUME NEW g \in Goroutine, PostRegister(g), ~UNCHANGED vars
        PROVE  \A h \in Goroutine : Admitted(h)'
    <2>1. RegisterCall(g) /\ BindRegister(req'[g])
      BY <1>1 DEF PostRegister, TurnAway
    <2>2. pc'[g] = "register" /\ left'[g] = "none"
      BY <2>1 DEF RegisterCall, Receive, NoRequest, TypeInv, LocalOK
    <2>3. Admitted(g)'
      BY <2>1, <2>2 DEF Admitted, BindRegister
    <2>4. Others(g)
      BY <2>1, StepClasses DEF Call
    <2> QED BY <2>3, <2>4 DEF RegisteredInv, Admitted, Others
  <1>2. ASSUME NEW g \in Goroutine,
               AuthenticateCall(g) \/ GetCall(g) \/ UpdateCall(g) \/ DeleteCall(g)
        PROVE  \A h \in Goroutine : Admitted(h)'
    <2>1. pc'[g] \notin Registering /\ left'[g] = "none"
      BY <1>2 DEF AuthenticateCall, GetCall, UpdateCall, DeleteCall, Receive, NoRequest,
                  Registering, TypeInv, LocalOK
    <2>2. Others(g)
      BY <1>2, StepClasses DEF Call
    <2> QED BY <2>1, <2>2 DEF RegisteredInv, Admitted, Others, Registering
  <1>3. ASSUME NEW g \in Goroutine, Step(g)
        PROVE  \A h \in Goroutine : Admitted(h)'
    <2>1. Admitted(g)' /\ Others(g)
      BY <1>3, AdmittedStep, StepClasses DEF RegisteredInv
    <2> QED BY <2>1 DEF RegisteredInv, Admitted, Others
  <1>4. ASSUME NEW r, Crash(r)
        PROVE  \A h \in Goroutine : Admitted(h)'
    <2> SUFFICES ASSUME NEW g \in Goroutine PROVE Admitted(g)'
      OBVIOUS
    <2>1. CASE At(g)' = "idle"
      BY <2>1 DEF Admitted, Registering
    <2>2. CASE At(g)' # "idle"
      <3>1. At(g)' = At(g) /\ user'[g] = user[g] /\ req'[g] = req[g]
        BY <1>4, <2>2, CrashAt
      <3> QED BY <3>1 DEF RegisteredInv, Admitted
    <2> QED BY <2>1, <2>2
  <1>5. ASSUME UNCHANGED local
        PROVE  \A h \in Goroutine : Admitted(h)'
    BY <1>5 DEF local, RegisteredInv, Admitted
  <1>6. ASSUME NEW g \in Goroutine, Settle(g)
        PROVE  \A h \in Goroutine : Admitted(h)'
    <2>1. Others(g) /\ At(g)' = "idle"
      BY <1>6, EndClasses
    <2> QED BY <2>1 DEF RegisteredInv, Admitted, Others, Registering
  <1>7. \A h \in Goroutine : Admitted(h)'
    <2>1. ASSUME NEW g \in Goroutine,
                 \/ PostLogin(g) \/ Unauthorized(g) \/ GetUser(g) \/ PutUser(g) \/ DeleteUser(g)
          PROVE  \/ UNCHANGED vars
                 \/ AuthenticateCall(g) \/ GetCall(g) \/ UpdateCall(g) \/ DeleteCall(g)
      BY <2>1 DEF PostLogin, Unauthorized, GetUser, PutUser, DeleteUser, BadID, TurnAway
    <2> QED BY <1>1, <1>2, <1>3, <1>4, <1>5, <1>6, <2>1
               DEF WebNext, Handle, Quiesce, vars, webVars
  <1> QED BY <1>0, <1>7 DEF RegisteredInv

LEMMA RegisteredAlways ==
    WebSpec => [](TypeInv /\ History /\ EmailsUnique /\ RegisteredInv)
  <1>1. TypeInv /\ RegisteredInv /\ [WebNext]_webVars => RegisteredInv'
    BY RegisteredNext
  <1> QED BY <1>1, RegisteredInit, Behaves, HistoryAlways, UniqueEmails, PTL
          DEF WebSpec

(* The binding's rule for the password reaches every row (dto.go:15).      *)
THEOREM PasswordsLong == WebSpec => []PasswordsLongEnough
  <1>1. History /\ RegisteredInv => PasswordsLongEnough
    BY DEF History, RowsBorn, RegisteredInv, BornGood, GoodPassword, PasswordsLongEnough
  <1> QED BY <1>1, RegisteredAlways, PTL

(* Whoever registered can log in while the account keeps its address       *)
(* (auth_handler.go:61-74, user_service.go:75-94).                         *)
THEOREM LoginPossible == WebSpec => []LoginStaysPossible
  <1>1. ASSUME TypeInv, History, EmailsUnique, RegisteredInv
        PROVE  LoginStaysPossible
    <2> SUFFICES ASSUME NEW id \in UserID, users[id] # NoUser,
                        users[id].email = born[id].email
                 PROVE  LET c == [email |-> users[id].email, password |-> born[id].hash]
                        IN /\ BindLogin(c)
                           /\ NormalizeEmail(c.email) = c.email
                           /\ Holders(users, c.email) = {users[id]}
                           /\ Matches(users[id].hash, c.password)
      BY DEF LoginStaysPossible
    <2>1. /\ born[id].email \in WellFormed /\ users[id].hash = born[id].hash
          /\ NormalizeEmail(born[id].email) = born[id].email
          /\ GoodPassword(born[id].hash)
      BY <1>1 DEF History, RowsBorn, RegisteredInv, BornGood
    <2>2. PasswordLen[born[id].hash] > 0
      BY <2>1, PasswordAssumption, FormAssumption DEF GoodPassword
    <2>3. BcryptKey[born[id].hash] = born[id].hash
      BY <2>1, PasswordAssumption DEF GoodPassword
    <2>4. Holders(users, users[id].email) = {users[id]}
      BY <1>1 DEF Holders, Rows, EmailsUnique
    <2> QED BY <2>1, <2>2, <2>3, <2>4 DEF BindLogin, Matches
  <1> QED BY <1>1, RegisteredAlways, PTL
=============================================================================
