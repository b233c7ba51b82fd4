--------------------------- MODULE UserDirectory ---------------------------
(***************************************************************************)
(* What the user service promises its callers, with neither goroutines nor *)
(* repository calls: a directory of accounts on which every call takes     *)
(* effect at one instant between its arrival and its answer.  Two calls    *)
(* need an earlier instant as well: a login answers for the account it     *)
(* found then, and an update writes back the fields it was not asked to    *)
(* change as it saw them then.  And of a change that was answered as an    *)
(* internal error, or not at all, the instant may be still to come, once   *)
(* at most.  Which calls arrive is left open.                              *)
(***************************************************************************)
EXTENDS Domain

CONSTANTS Client, First, NoReply

VARIABLES
    accounts,  \* the account each id names, or NoUser
    used,      \* the ids that name or have named an account
    asked,     \* the call each client waits on, or Nil
    seen,      \* what that call has seen of its account, or NoUser
    answer,    \* the answer to its last call, or NoReply
    adrift     \* the clients that no longer wait for a change they asked for

directory == <<accounts, used>>
vars == <<directory, asked, seen, answer, adrift>>

Changes == {"register", "update", "delete"}

Taken(e) == \E id \in UserID : accounts[id] # NoUser /\ accounts[id].email = e
TakenByOther(e, id) ==
    \E other \in UserID \ {id} : accounts[other] # NoUser /\ accounts[other].email = e

Init == /\ accounts = First
        /\ used = {id \in UserID : First[id] # NoUser}
        /\ asked = [c \in Client |-> Nil]
        /\ seen = [c \in Client |-> NoUser]
        /\ answer = [c \in Client |-> NoReply]
        /\ adrift = {}

Ask(c) == /\ asked[c] = Nil /\ asked'[c] # Nil
          /\ asked' = [asked EXCEPT ![c] = asked'[c]]
          /\ answer' = [answer EXCEPT ![c] = NoReply]
          /\ UNCHANGED <<directory, seen, adrift>>

(* The client waits for its call, for operation op.                        *)
Waits(c, op) == asked[c] # Nil /\ asked[c].op = op /\ c \notin adrift

(* The call of c, for operation op, is answered.                           *)
Answers(c, op) == /\ Waits(c, op)
                  /\ asked' = [asked EXCEPT ![c] = Nil]
                  /\ seen' = [seen EXCEPT ![c] = NoUser]
                  /\ answer' = [answer EXCEPT ![c] = answer'[c]]
                  /\ UNCHANGED adrift

Says(c, err, u, token) ==
    answer'[c] = [err |-> err, user |-> u, token |-> token]

(* An error answer that says nothing was changed.                          *)
Denies(c, err) == Says(c, err, NoUser, Nil) /\ UNCHANGED directory

-----------------------------------------------------------------------------
(* A change is made and reported, or made but reported as a failure.       *)
Reports(c, u) == Says(c, "nil", u, Nil) \/ Says(c, "internal", NoUser, Nil)

NewAccount(c, id) ==
    LET in == asked[c]
        u == accounts'[id]
    IN /\ ValidateRegister(in) /\ Hashable(in.password)
       /\ ~Taken(NormalizeEmail(in.email))
       /\ accounts' = [accounts EXCEPT ![id] = u]
       /\ used' = used \cup {id}
       /\ u = [id |-> id, email |-> NormalizeEmail(in.email),
               name |-> TrimSpace(in.name), hash |-> in.password,
               created |-> u.created, updated |-> u.created]

Register(c) ==
    /\ Answers(c, "register")
    /\ \/ \E id \in UserID \ used : NewAccount(c, id) /\ Reports(c, accounts'[id])
       \/ Taken(NormalizeEmail(asked[c].email)) /\ Denies(c, "conflict")
       \/ ~ValidateRegister(asked[c]) /\ Denies(c, "invalid_input")
       \/ Denies(c, "internal")

(* The account at this address, provided the password is its own.          *)
Known(c, id) == /\ accounts[id] # NoUser
                /\ accounts[id].email = NormalizeEmail(asked[c].email)
                /\ Matches(accounts[id].hash, asked[c].password)

Recognize(c) ==
    /\ Waits(c, "auth") /\ seen[c] = NoUser
    /\ \E id \in UserID : Known(c, id) /\ seen' = [seen EXCEPT ![c] = accounts[id]]
    /\ UNCHANGED <<directory, asked, answer, adrift>>

Authenticate(c) ==
    /\ Answers(c, "auth")
    /\ UNCHANGED directory
    /\ \/ /\ seen[c] # NoUser
          /\ Says(c, "nil", seen[c], [sub |-> seen[c].id, email |-> seen[c].email])
       \/ (\A id \in UserID : ~Known(c, id)) /\ Denies(c, "invalid_credentials")
       \/ Denies(c, "internal")

Get(c) ==
    /\ Answers(c, "get")
    /\ UNCHANGED directory
    /\ LET u == accounts[asked[c].id]
       IN \/ u # NoUser /\ Says(c, "nil", u, Nil)
          \/ u = NoUser /\ Denies(c, "not_found")
          \/ Denies(c, "internal")

Removal(c) ==
    LET id == asked[c].id
    IN /\ accounts[id] # NoUser
       /\ accounts' = [accounts EXCEPT ![id] = NoUser]
       /\ UNCHANGED used

Delete(c) ==
    /\ Answers(c, "delete")
    /\ \/ Removal(c) /\ Reports(c, NoUser)
       \/ accounts[asked[c].id] = NoUser /\ Denies(c, "not_found")
       \/ Denies(c, "internal")

-----------------------------------------------------------------------------
(* The fields an update writes: those asked for, the others as seen.       *)
NewEmail(c) == IF asked[c].email = Nil THEN seen[c].email
                                       ELSE NormalizeEmail(asked[c].email)
NewName(c) == IF asked[c].name = Nil THEN seen[c].name ELSE asked[c].name

(* Of its account an update keeps the fields it was not asked to change.   *)
Look(c) ==
    /\ Waits(c, "update") /\ seen[c] = NoUser
    /\ LET u == accounts[asked[c].id]
       IN /\ u # NoUser /\ ValidUpdate(asked[c])
          /\ seen' = [seen EXCEPT ![c] =
                [email |-> IF asked[c].email = Nil THEN u.email ELSE Nil,
                 name |-> IF asked[c].name = Nil THEN u.name ELSE Nil]]
    /\ UNCHANGED <<directory, asked, answer, adrift>>

Change(c) ==
    LET id == asked[c].id
        u == accounts'[id]
    IN /\ seen[c] # NoUser /\ accounts[id] # NoUser
       /\ ~TakenByOther(NewEmail(c), id)
       /\ u = [accounts[id] EXCEPT !.email = NewEmail(c), !.name = NewName(c),
                                   !.updated = u.updated]
       /\ accounts' = [accounts EXCEPT ![id] = u]
       /\ UNCHANGED used

(* A conflict names an address in use; by another account, unless the call *)
(* asked for that very address.                                            *)
Clash(c) ==
    \/ asked[c].email # Nil /\ Taken(NormalizeEmail(asked[c].email))
    \/ seen[c] # NoUser /\ TakenByOther(NewEmail(c), asked[c].id)

Update(c) ==
    /\ Answers(c, "update")
    /\ \/ Change(c) /\ Reports(c, accounts'[asked[c].id])
       \/ accounts[asked[c].id] = NoUser /\ Denies(c, "not_found")
       \/ ~ValidUpdate(asked[c]) /\ Denies(c, "invalid_input")
       \/ Clash(c) /\ Denies(c, "conflict")
       \/ Denies(c, "internal")

-----------------------------------------------------------------------------
(* A call is answered with an internal error, its change still to come ... *)
GiveUp(c) ==
    /\ \E op \in Changes : Waits(c, op)
    /\ Says(c, "internal", NoUser, Nil)
    /\ answer' = [answer EXCEPT ![c] = answer'[c]]
    /\ adrift' = adrift \cup {c}
    /\ UNCHANGED <<directory, asked, seen>>

(* ... which comes, or never does.                                         *)
Late(c) ==
    /\ c \in adrift
    /\ adrift' = adrift \ {c}
    /\ asked' = [asked EXCEPT ![c] = Nil]
    /\ seen' = [seen EXCEPT ![c] = NoUser]
    /\ UNCHANGED answer
    /\ \/ asked[c].op = "register" /\ \E id \in UserID \ used : NewAccount(c, id)
       \/ asked[c].op = "update" /\ Change(c)
       \/ asked[c].op = "delete" /\ Removal(c)
       \/ UNCHANGED directory

(* Some clients lose their calls and answers, all at once; of those, the   *)
(* changes asked for by L may be still to come.                            *)
Lose(S, L) ==
    LET gone == S \ (L \cup adrift)
    IN /\ \A c \in L : \E op \in Changes : Waits(c, op)
       /\ adrift' = adrift \cup L
       /\ asked' = [c \in Client |-> IF c \in gone THEN Nil ELSE asked[c]]
       /\ seen' = [c \in Client |-> IF c \in gone THEN NoUser ELSE seen[c]]
       /\ answer' = [c \in Client |-> IF c \in S THEN NoReply ELSE answer[c]]
       /\ UNCHANGED directory

Next == \/ \E c \in Client : \/ Ask(c) \/ Recognize(c) \/ Look(c) \/ Register(c)
                             \/ Authenticate(c) \/ Get(c) \/ Update(c) \/ Delete(c)
                             \/ GiveUp(c) \/ Late(c)
        \/ \E S \in SUBSET Client : \E L \in SUBSET S : Lose(S, L)

Spec == Init /\ [][Next]_vars
=============================================================================
