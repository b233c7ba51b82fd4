------------------------------- MODULE WebAPI -------------------------------
(***************************************************************************)
(* The HTTP layer over the user service (internal/adapter/http and         *)
(* internal/adapter/auth): body binding, the bearer token of the protected *)
(* routes, the handlers, the status each answer becomes.  A request that   *)
(* is let through is a call of UserService; one that is turned away leaves *)
(* the service as it was.  Missing, malformed and foreign tokens are one:  *)
(* no token.                                                               *)
(***************************************************************************)
EXTENDS UserService

CONSTANTS
    WellFormed,     \* the addresses the validator's "email" rule accepts
    NameRunes,      \* the length of a trimmed name, in characters
    PasswordRunes,  \* the length of a password, in characters
    Second,         \* ticks of the clock to a second
    TTL             \* JWT_EXPIRY in ticks; config.go accepts any duration

(* Such an address has an "@", and is one still in lower case; no string   *)
(* has more characters than bytes.                                         *)
ASSUME FormAssumption ==
    /\ WellFormed \subseteq {e \in Email : ValidEmail(e)}
    /\ \A e \in WellFormed : NormalizeEmail(e) \in WellFormed
    /\ NameRunes \in [NameText -> Nat] /\ PasswordRunes \in [Password -> Nat]
    /\ \A t \in NameText : NameRunes[t] <= NameLen[t]
    /\ \A p \in Password : PasswordRunes[p] <= PasswordLen[p]

ASSUME TokenTimeAssumption == Second \in Nat \ {0} /\ TTL \in Int

(* The accounts there are to begin with are as registered over this API.   *)
ASSUME RegisteredAssumption ==
    \A id \in UserID : Seed[id] # NoUser =>
        Seed[id].email \in WellFormed /\ PasswordRunes[Seed[id].hash] >= 8

VARIABLES
    issued,   \* the tokens handed out; at is the clock's reading, not a claim
    bearer,   \* the token each request came with, or Nil, and the clock then
    refused   \* the status of a request turned away before the service, or 0

web == <<issued, bearer, refused>>
webVars == <<vars, web>>

NoToken == [token |-> Nil, at |-> 0]

WebInit ==
    /\ Init
    /\ issued = {}
    /\ bearer = [g \in Goroutine |-> NoToken]
    /\ refused = [g \in Goroutine |-> 0]

-----------------------------------------------------------------------------
(* Binding (dto.go).                                                       *)
Runes(n) == NameRunes[n.text] + n.pad

(* Not the code: no rule for the length of the password.                   *)
BindRegisterAnyPassword(body) ==
    body.email \in WellFormed /\ Runes(body.name) \in 1 .. 100

BindRegister(body) ==
    /\ body.email \in WellFormed
    /\ Runes(body.name) \in 1 .. 100
    /\ PasswordRunes[body.password] >= 8

(* Not the code: passwords cut off at 64 bytes.                            *)
BindLoginShort(body) ==
    body.email \in WellFormed /\ PasswordLen[body.password] \in 1 .. 64

BindLogin(body) ==
    body.email \in WellFormed /\ PasswordLen[body.password] > 0

(* The handler's own rule for PUT.                                         *)
BindUpdate(body) == body.name # Nil \/ body.email # Nil

-----------------------------------------------------------------------------
(* The status an answer of the service becomes.                            *)
AuthSuccess == [register |-> 201, auth |-> 200]

UserSuccess == [get |-> 200, update |-> 200, delete |-> 204]

(* Not the code: a bad request unless the error is known.                  *)
MapErrorBlamingClient == [not_found |-> 404, conflict |-> 409, invalid_input |-> 400,
                          invalid_credentials |-> 401, internal |-> 400]

MapError == [not_found |-> 404, conflict |-> 409, invalid_input |-> 400,
             invalid_credentials |-> 401, internal |-> 500]

Status(g) ==
    IF reply[g].err # "nil" THEN MapError[reply[g].err]
    ELSE IF req[g].op \in DOMAIN AuthSuccess THEN AuthSuccess[req[g].op]
    ELSE UserSuccess[req[g].op]

-----------------------------------------------------------------------------
(* Tokens (jwt.go), by what the clock of the host at hand reads.           *)

(* Not the code: the expiry rounded up to a whole second.                  *)
ExpiryRoundedUp(t) == t + TTL + Second - ((t + TTL) % Second)

(* NewNumericDate drops the part of a second.                              *)
Expiry(t) == (t + TTL) - ((t + TTL) % Second)

Issue(token, now) == [sub |-> token.sub, email |-> token.email,
                      at |-> now, exp |-> Expiry(now)]

(* Parse: of the claims only the expiry is checked.                        *)
Parses(k, now) == k # Nil /\ now < k.exp

-----------------------------------------------------------------------------
(* The request of g, with what it bears, goes on to the service or is      *)
(* turned away.                                                            *)
Bears(k, now) == IF k = Nil THEN NoToken ELSE [token |-> k, at |-> now]

Pass(g, b) == /\ bearer' = [bearer EXCEPT ![g] = b]
              /\ refused' = [refused EXCEPT ![g] = 0]
              /\ UNCHANGED issued

TurnAway(g, b, status) == /\ pc[g] = "idle" /\ left[g] = "none"
                          /\ bearer' = [bearer EXCEPT ![g] = b]
                          /\ refused' = [refused EXCEPT ![g] = status]
                          /\ UNCHANGED <<vars, issued>>

PostRegister(g) ==
    \/ RegisterCall(g) /\ BindRegister(req'[g]) /\ Pass(g, NoToken)
    \/ (\E in \in RegisterInputs : ~BindRegister(in)) /\ TurnAway(g, NoToken, 400)

PostLogin(g) ==
    \/ AuthenticateCall(g) /\ BindLogin(req'[g]) /\ Pass(g, NoToken)
    \/ (\E c \in Credentials : ~BindLogin(c)) /\ TurnAway(g, NoToken, 400)

(* middleware.Auth, in front of every route on users.                      *)
Unauthorized(g) ==
    \E k \in issued \cup {Nil}, now \in Readings :
        ~Parses(k, now) /\ TurnAway(g, Bears(k, now), 401)

Authorized == {b \in [token : issued, at : Readings] : Parses(b.token, b.at)}

(* An id that is no UUID.                                                  *)
BadID(g, b) == TurnAway(g, b, 400)

GetUser(g) ==
    \E b \in Authorized : \/ GetCall(g) /\ Pass(g, b)
                          \/ BadID(g, b)

PutUser(g) ==
    \E b \in Authorized :
        \/ UpdateCall(g) /\ BindUpdate(req'[g]) /\ Pass(g, b)
        \/ (\E in \in UpdateInputs : ~BindUpdate(in)) /\ TurnAway(g, b, 400)
        \/ BadID(g, b)

(* Not the code: the route registered before the group uses Auth.          *)
DeleteUserUnprotected(g) == DeleteCall(g) /\ Pass(g, NoToken)

DeleteUser(g) ==
    \E b \in Authorized : \/ DeleteCall(g) /\ Pass(g, b)
                          \/ BadID(g, b)

(* A step of the service method; a login that succeeds hands out a token.  *)
Handle(g) ==
    /\ Step(g)
    /\ IF pc[g] = "auth_issue" /\ reply'[g].err = "nil"
       THEN \E now \in Readings : issued' = issued \cup {Issue(reply'[g].token, now)}
       ELSE UNCHANGED issued
    /\ UNCHANGED <<bearer, refused>>

WebNext ==
    \/ \E g \in Goroutine : \/ PostRegister(g) \/ PostLogin(g) \/ Unauthorized(g)
                            \/ GetUser(g) \/ PutUser(g) \/ DeleteUser(g) \/ Handle(g)
    \/ /\ \/ \E g \in Goroutine : Settle(g)
          \/ \E r \in {Host[g] : g \in Goroutine} : Crash(r)
          \/ Quiesce
       /\ UNCHANGED web

WebSpec == WebInit /\ [][WebNext]_webVars
=============================================================================
