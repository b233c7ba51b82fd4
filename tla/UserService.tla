---------------------------- MODULE UserService ----------------------------
(***************************************************************************)
(* The application core (internal/service/user_service.go) over the users  *)
(* table.  Every HTTP request runs one service method in a goroutine of    *)
(* its own; goroutines belong to replicas of the API that share nothing    *)
(* but the database.  A method is cut where others can be seen: at each    *)
(* repository call, at the clock, at the token issuer.  The code between   *)
(* two cuts reads only the goroutine's own variables and runs in the same  *)
(* step as the call it follows.  A write statement can outlive its method, *)
(* and even its replica: Postgres may commit it after the caller has       *)
(* stopped waiting for it.                                                 *)
(***************************************************************************)
EXTENDS UserRepository, Integers, FiniteSets

CONSTANTS
    Goroutine,       \* request-handling goroutines
    Host,            \* the replica each of them runs in
    Seed,            \* the table as earlier calls left it
    RegisterInputs,  \* bodies of POST /auth/register
    Credentials,     \* bodies of POST /auth/login
    UpdateInputs,    \* bodies of PUT /users/:id, Nil for an absent field
    MaxCalls,        \* bound: calls received in all
    MaxTime,         \* bound: what a host's clock may read, 0 .. MaxTime
    NoReply

ASSUME HostAssumption == DOMAIN Host = Goroutine
ASSUME BoundAssumption == MaxCalls \in Nat /\ MaxTime \in Nat

ASSUME InputAssumption ==
    /\ RegisterInputs \subseteq [email : Email, name : Name, password : Password]
    /\ Credentials \subseteq [email : Email, password : Password]
    /\ UpdateInputs \subseteq [email : Email \cup {Nil}, name : Name \cup {Nil}]

(* What Register and Update leave in a row.                                *)
ValidRow(u) == /\ ValidEmail(u.email) /\ u.email.tidy
               /\ ValidName(u.name)
               /\ PasswordLen[u.hash] \in 8 .. 72

ASSUME SeedAssumption ==
    /\ Seed \in Table
    /\ \A id \in UserID : Seed[id] # NoUser =>
          /\ Seed[id].id = id /\ ValidRow(Seed[id])
          /\ Seed[id].created = 0 /\ Seed[id].updated = 0
    /\ \A i, j \in UserID : Seed[i] # NoUser /\ Seed[j] # NoUser /\ i # j
                               => Seed[i].email # Seed[j].email

VARIABLES
    users,      \* the users table
    born,       \* history: every row as it was first inserted
    minted,     \* the ids uuid.New has returned
    calls,      \* the number of calls received
    pc,         \* where each goroutine is in its method
    req,        \* its arguments
    user,       \* its local variable user
    reply,      \* what its method returned
    wrote,      \* history: whether its write statement changed a row
    left        \* its write statement, if still running when it returned

db == <<users, born>>
local == <<pc, req, user, reply, wrote, left>>
vars == <<db, minted, calls, local>>

Op == {"register", "auth", "get", "update", "delete"}
Steps == {"register_build", "register_insert", "auth_issue",
          "update_check", "update_stamp", "update_write"}
Writes == {"register_insert", "update_write", "delete"}
Errors == {"nil", "not_found", "conflict", "invalid_input",
           "invalid_credentials", "internal"}

Request == [op : Op, id : UserID \cup {Nil}, email : Email \cup {Nil},
            name : Name \cup {Nil}, password : Password \cup {Nil}]
Token == [sub : UserID, email : Email]
Reply == [err : Errors, user : User \cup {NoUser},
          token : Token \cup {Nil}]
NoRequest == [op |-> "get", id |-> Nil, email |-> Nil, name |-> Nil,
              password |-> Nil]

ASSUME RequestAssumption == Nil \notin Request

Init ==
    /\ users = Seed
    /\ born = Seed
    /\ minted = {id \in UserID : Seed[id] # NoUser}
    /\ calls = 0
    /\ pc = [g \in Goroutine |-> "idle"]
    /\ req = [g \in Goroutine |-> NoRequest]
    /\ user = [g \in Goroutine |-> NoUser]
    /\ reply = [g \in Goroutine |-> NoReply]
    /\ wrote = [g \in Goroutine |-> "none"]
    /\ left = [g \in Goroutine |-> "none"]

-----------------------------------------------------------------------------
(* The ways a step ends.                                                   *)

(* The goroutine is handed a call.  One whose last statement still runs    *)
(* stands for that statement alone: further calls are other goroutines'.   *)
Receive(g, r) ==
    /\ pc[g] = "idle" /\ left[g] = "none" /\ calls < MaxCalls
    /\ calls' = calls + 1
    /\ pc' = [pc EXCEPT ![g] = r.op]
    /\ req' = [req EXCEPT ![g] = r]
    /\ reply' = [reply EXCEPT ![g] = NoReply]
    /\ wrote' = [wrote EXCEPT ![g] = "none"]
    /\ UNCHANGED <<db, minted, user, left>>

(* It goes on to step s with u in its variable user.                       *)
Goto(g, s, u) ==
    /\ pc' = [pc EXCEPT ![g] = s]
    /\ user' = [user EXCEPT ![g] = u]
    /\ UNCHANGED <<calls, req, reply, wrote, left>>

(* Its method returns.                                                     *)
Answer(g, err, u, token) ==
    /\ pc' = [pc EXCEPT ![g] = "idle"]
    /\ user' = [user EXCEPT ![g] = NoUser]
    /\ reply' = [reply EXCEPT ![g] =
                    [err |-> err, user |-> u, token |-> token]]
    /\ UNCHANGED <<calls, req, left>>

Return(g, err, u, token) ==
    Answer(g, err, u, token) /\ UNCHANGED wrote

Refuse(g, err) == Return(g, err, NoUser, Nil)

(* A write statement has the outcome w; the method returns u with it.      *)
Write(g, w, u) ==
    /\ users' = w.table
    /\ wrote' = [wrote EXCEPT ![g] = w.wrote]
    /\ Answer(g, w.err, IF w.err = "nil" THEN u ELSE NoUser, Nil)

(* What time.Now answers, on a host whose clock nobody keeps in step.      *)
Readings == 0 .. MaxTime

-----------------------------------------------------------------------------
(* Bound: an id is left for every registration under way.                 *)
FreshIDLeft ==
    Cardinality(minted) + Cardinality({g \in Goroutine :
        pc[g] \in {"register", "register_build"}}) < Cardinality(UserID)

RegisterCall(g) ==
    /\ FreshIDLeft
    /\ \E in \in RegisterInputs :
          Receive(g, [NoRequest EXCEPT !.op = "register", !.email = in.email,
                          !.name = in.name, !.password = in.password])

(* ValidateRegister, then GetByEmail to reject an address already taken.   *)
RegisterCheck(g) ==
    /\ pc[g] = "register"
    /\ \/ /\ ~ValidateRegister(req[g])
          /\ Refuse(g, "invalid_input")
       \/ /\ ValidateRegister(req[g])
          /\ \E a \in GetByEmail(users, NormalizeEmail(req[g].email)) :
                \/ a.err = "internal" /\ Refuse(g, "internal")
                \/ a.err = "nil" /\ Refuse(g, "conflict")
                \/ a.err = "not_found" /\ Goto(g, "register_build", NoUser)
    /\ UNCHANGED <<db, minted>>

(* bcrypt, time.Now, uuid.New.                                             *)
RegisterBuild(g) ==
    /\ pc[g] = "register_build"
    /\ \/ /\ ~Hashable(req[g].password)
          /\ Refuse(g, "internal")
          /\ UNCHANGED minted
       \/ /\ Hashable(req[g].password)
          /\ \E id \in UserID \ minted, now \in Readings :
                /\ minted' = minted \cup {id}
                /\ Goto(g, "register_insert",
                        [id |-> id,
                         email |-> NormalizeEmail(req[g].email),
                         name |-> TrimSpace(req[g].name),
                         hash |-> req[g].password,
                         created |-> now, updated |-> now])
    /\ UNCHANGED db

(* repo.Create: it may still meet a conflict the check did not see.        *)
RegisterInsert(g) ==
    /\ pc[g] = "register_insert"
    /\ \E w \in Create(users, user[g]) :
          /\ Write(g, w, user[g])
          /\ born' = IF w.wrote = "row" THEN [born EXCEPT ![user[g].id] = user[g]] ELSE born
    /\ UNCHANGED minted

-----------------------------------------------------------------------------
AuthenticateCall(g) ==
    \E c \in Credentials :
        Receive(g, [NoRequest EXCEPT !.op = "auth", !.email = c.email,
                                     !.password = c.password])

(* GetByEmail and CompareHashAndPassword.                                  *)
AuthenticateRead(g) ==
    /\ pc[g] = "auth"
    /\ LET email == NormalizeEmail(req[g].email)
           missing == email.text = BlankEmail \/ PasswordLen[req[g].password] = 0
       IN \/ missing /\ Refuse(g, "invalid_credentials")
          \/ /\ ~missing
             /\ \E a \in GetByEmail(users, email) :
                   \/ a.err = "internal" /\ Refuse(g, "internal")
                   \/ /\ \/ a.err = "not_found"
                         \/ a.err = "nil" /\ ~Matches(a.user.hash, req[g].password)
                      /\ Refuse(g, "invalid_credentials")
                   \/ /\ a.err = "nil" /\ Matches(a.user.hash, req[g].password)
                      /\ Goto(g, "auth_issue", a.user)
    /\ UNCHANGED <<db, minted>>

(* Not the code: the account looked up again by its address.               *)
AuthenticateIssueAnew(g) ==
    /\ pc[g] = "auth_issue"
    /\ \/ Refuse(g, "internal")
       \/ \E u \in Holders(users, user[g].email) :
             Return(g, "nil", u, [sub |-> u.id, email |-> u.email])
    /\ UNCHANGED <<db, minted>>

(* tokens.Issue, for the row read before.                                  *)
AuthenticateIssue(g) ==
    /\ pc[g] = "auth_issue"
    /\ \/ Refuse(g, "internal")
       \/ Return(g, "nil", user[g],
                 [sub |-> user[g].id, email |-> user[g].email])
    /\ UNCHANGED <<db, minted>>

-----------------------------------------------------------------------------
GetCall(g) ==
    \E id \in UserID : Receive(g, [NoRequest EXCEPT !.op = "get", !.id = id])

GetRead(g) ==
    /\ pc[g] = "get"
    /\ \E a \in GetByID(users, req[g].id) :
          \/ a.err = "nil" /\ Return(g, "nil", a.user, Nil)
          \/ a.err = "not_found" /\ Refuse(g, "not_found")
          \/ a.err = "internal" /\ Refuse(g, "internal")
    /\ UNCHANGED <<db, minted>>

-----------------------------------------------------------------------------
UpdateCall(g) ==
    \E id \in UserID, in \in UpdateInputs :
        Receive(g, [NoRequest EXCEPT !.op = "update", !.id = id,
                                     !.email = in.email, !.name = in.name])

(* GetByID, the field rules, and the new fields set on the copy read; an   *)
(* address other than the copy's is checked first.                         *)
UpdateRead(g) ==
    /\ pc[g] = "update"
    /\ LET name == req[g].name
           email == req[g].email
       IN \E a \in GetByID(users, req[g].id) :
          \/ a.err = "not_found" /\ Refuse(g, "not_found")
          \/ a.err = "internal" /\ Refuse(g, "internal")
          \/ a.err = "nil" /\ ~ValidUpdate(req[g]) /\ Refuse(g, "invalid_input")
          \/ /\ a.err = "nil" /\ ValidUpdate(req[g])
             /\ Goto(g, IF email = Nil \/ NormalizeEmail(email) = a.user.email
                        THEN "update_stamp" ELSE "update_check",
                     IF name = Nil THEN a.user
                     ELSE [a.user EXCEPT !.name = name])
    /\ UNCHANGED <<db, minted>>

(* GetByEmail: any holder of the new address is a conflict.                *)
UpdateCheck(g) ==
    /\ pc[g] = "update_check"
    /\ LET email == NormalizeEmail(req[g].email)
       IN \E a \in GetByEmail(users, email) :
          \/ a.err = "internal" /\ Refuse(g, "internal")
          \/ a.err = "nil" /\ Refuse(g, "conflict")
          \/ a.err = "not_found"
             /\ Goto(g, "update_stamp", [user[g] EXCEPT !.email = email])
    /\ UNCHANGED <<db, minted>>

UpdateStamp(g) ==
    /\ pc[g] = "update_stamp"
    /\ \E now \in Readings :
          Goto(g, "update_write", [user[g] EXCEPT !.updated = now])
    /\ UNCHANGED <<db, minted>>

(* Not the code: an update that starts over when its statement fails.      *)
UpdateWriteRetrying(g) ==
    /\ pc[g] = "update_write"
    /\ \/ /\ Goto(g, "update", NoUser)
          /\ UNCHANGED users
       \/ \E w \in {x \in Update(users, user[g]) : x.err # "internal"} :
             Write(g, w, user[g])
    /\ UNCHANGED <<born, minted>>

(* repo.Update writes both fields of the copy.                             *)
UpdateWrite(g) ==
    /\ pc[g] = "update_write"
    /\ \E w \in Update(users, user[g]) :
          Write(g, w, user[g])
    /\ UNCHANGED <<born, minted>>

-----------------------------------------------------------------------------
DeleteCall(g) ==
    \E id \in UserID : Receive(g, [NoRequest EXCEPT !.op = "delete", !.id = id])

DeleteRow(g) ==
    /\ pc[g] = "delete"
    /\ \E w \in Delete(users, req[g].id) :
          Write(g, w, NoUser)
    /\ UNCHANGED <<born, minted>>

-----------------------------------------------------------------------------
(* The context of a write ends, or its connection: the method answers      *)
(* with that error and leaves its statement to the database, ...           *)
Abandon(g) ==
    /\ pc[g] \in Writes
    /\ pc' = [pc EXCEPT ![g] = "idle"]
    /\ left' = [left EXCEPT ![g] = pc[g]]
    /\ reply' = [reply EXCEPT ![g] =
                    [err |-> "internal", user |-> NoUser, token |-> Nil]]
    /\ UNCHANGED <<db, minted, calls, req, user, wrote>>

Outcomes(g) ==
    CASE left[g] = "register_insert" -> Create(users, user[g])
      [] left[g] = "update_write" -> Update(users, user[g])
      [] left[g] = "delete" -> Delete(users, req[g].id)

(* ... which commits it or cancels it in its own time.                     *)
Settle(g) ==
    /\ left[g] # "none"
    /\ \E w \in Outcomes(g) :
          /\ users' = w.table
          /\ wrote' = [wrote EXCEPT ![g] = w.wrote]
          /\ born' = IF left[g] = "register_insert" /\ w.wrote = "row"
                     THEN [born EXCEPT ![user[g].id] = user[g]] ELSE born
    /\ left' = [left EXCEPT ![g] = "none"]
    /\ user' = [user EXCEPT ![g] = NoUser]
    /\ UNCHANGED <<minted, calls, pc, req, reply>>

(* A replica dies: its calls end with no answer, and an answer not yet on  *)
(* the wire is lost.  Statements already committed stay; one that runs is  *)
(* left to the database.                                                   *)
Crash(r) ==
    LET lost == {g \in Goroutine : Host[g] = r}
        runs(g) == pc[g] \in Writes \/ left[g] # "none"
    IN /\ \E g \in lost : pc[g] # "idle" \/ reply[g] # NoReply
       /\ pc' = [g \in Goroutine |-> IF g \in lost THEN "idle" ELSE pc[g]]
       /\ left' = [g \in Goroutine |->
                      IF g \in lost /\ pc[g] \in Writes THEN pc[g] ELSE left[g]]
       /\ user' = [g \in Goroutine |->
                      IF g \in lost /\ ~runs(g) THEN NoUser ELSE user[g]]
       /\ reply' = [g \in Goroutine |-> IF g \in lost THEN NoReply ELSE reply[g]]
       /\ UNCHANGED <<db, minted, calls, req, wrote>>

(* Not a deadlock: every call has ended and the bound on calls is reached. *)
Quiesce ==
    /\ calls = MaxCalls
    /\ \A g \in Goroutine : pc[g] = "idle" /\ left[g] = "none"
    /\ UNCHANGED vars

Call(g) == RegisterCall(g) \/ AuthenticateCall(g) \/ GetCall(g)
           \/ UpdateCall(g) \/ DeleteCall(g)

Step(g) == RegisterCheck(g) \/ RegisterBuild(g) \/ RegisterInsert(g)
           \/ AuthenticateRead(g) \/ AuthenticateIssue(g) \/ GetRead(g)
           \/ UpdateRead(g) \/ UpdateCheck(g) \/ UpdateStamp(g)
           \/ UpdateWrite(g) \/ DeleteRow(g) \/ Abandon(g)

Next == \/ \E g \in Goroutine : Call(g) \/ Step(g) \/ Settle(g)
        \/ \E r \in {Host[g] : g \in Goroutine} : Crash(r)
        \/ Quiesce

Spec == Init /\ [][Next]_vars

(* A goroutine that is running a method keeps running: the Go scheduler is *)
(* fair and every statement ends, with an answer or an error.  Nobody has  *)
(* to call, no replica has to crash, and the database may take for ever    *)
(* over a statement nobody waits for.                                      *)
FairSpec == Spec /\ \A g \in Goroutine : WF_vars(Step(g))
=============================================================================
