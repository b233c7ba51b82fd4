----------------------- MODULE UserServiceProperties -----------------------
(***************************************************************************)
(* What makes the user service correct, whatever the interleaving of its   *)
(* calls.                                                                  *)
(***************************************************************************)
EXTENDS UserService

(* The variables hold values of the Go types they stand for.               *)
TypeOK ==
    /\ users \in Table /\ born \in Table
    /\ minted \subseteq UserID
    /\ calls \in 0 .. MaxCalls
    /\ pc \in [Goroutine -> {"idle"} \cup Op \cup Steps]
    /\ req \in [Goroutine -> Request]
    /\ user \in [Goroutine -> User \cup {NoUser}]
    /\ reply \in [Goroutine -> Reply \cup {NoReply}]
    /\ wrote \in [Goroutine -> Effect]
    /\ left \in [Goroutine -> {"none"} \cup Writes]

(* No two accounts share an address, though Register and Update look for a *)
(* holder in one statement and write in another (user_service.go:39, 65    *)
(* and 168, 182).                                                          *)
EmailsUnique ==
    \A i, j \in UserID : users[i] # NoUser /\ users[j] # NoUser /\ i # j
                            => users[i].email # users[j].email

(* Every stored row has a normalised address with an "@" and a name of 1   *)
(* to 100 bytes, whichever of the two differing checks let it in           *)
(* (domain/user.go:48, user_service.go:154).                               *)
StoredValid ==
    \A id \in UserID : users[id] # NoUser =>
        /\ users[id].email.tidy /\ users[id].email.text \in WithAt
        /\ Bytes(users[id].name) > 0 /\ Bytes(users[id].name) <= 100

(* An answer tells the truth about the write: after success the statement  *)
(* took effect, and Register returned the row as it was first stored;      *)
(* after not-found, conflict or a refusal it did not, and will not.  Only  *)
(* an internal error leaves the caller in doubt.                           *)
HonestAnswers ==
    \A g \in Goroutine :
        reply[g] # NoReply /\ req[g].op \in {"register", "update", "delete"} =>
            /\ reply[g].err = "nil" => wrote[g] = "row"
            /\ reply[g].err \notin {"nil", "internal"} => wrote[g] = "none"
            /\ reply[g].err = "nil" /\ req[g].op = "register" =>
                  born[reply[g].user.id] = reply[g].user

(* A token names an account whose registered password was presented in     *)
(* that call, even when the account has since been changed or deleted      *)
(* (the row is read at user_service.go:81, the token issued at 96).        *)
TokenSound ==
    \A g \in Goroutine :
        reply[g] # NoReply /\ reply[g].token # Nil =>
            LET sub == reply[g].token.sub
            IN born[sub] # NoUser /\ Matches(born[sub].hash, req[g].password)

(* A deleted account never comes back: an Update that read it before the   *)
(* delete does not write it anew (user_repository.go:131), not even with a *)
(* statement that comes to its commit after the answer.                    *)
StaysDeleted ==
    [][\A id \in UserID : born[id] # NoUser /\ users[id] = NoUser
                             => users'[id] = NoUser]_vars

(* Every call ends, whatever the others do and however often the database  *)
(* fails: no method waits for another or retries.                          *)
CallsReturn == \A g \in Goroutine : pc[g] # "idle" ~> pc[g] = "idle"

-----------------------------------------------------------------------------
(* Where g is: at the statement it left running, if there is one.          *)
At(g) == IF left[g] # "none" THEN left[g] ELSE pc[g]

(* The service implements the directory.  A call has seen its account once *)
(* it holds a row: all of it in a login; in an update, the fields it was   *)
(* not asked to change, for as long as its statement may still run.        *)
Seen(g) ==
    CASE At(g) = "auth_issue" -> user[g]
      [] At(g) \in {"update_check", "update_stamp", "update_write"} ->
            [email |-> IF req[g].email = Nil THEN user[g].email ELSE Nil,
             name |-> IF req[g].name = Nil THEN user[g].name ELSE Nil]
      [] OTHER -> NoUser

ASSUME SeenAssumption == NoUser \notin [email : Email \cup {Nil}, name : Name \cup {Nil}]

Directory == INSTANCE UserDirectory WITH
    Client <- Goroutine, First <- Seed,
    accounts <- users,
    used <- {id \in UserID : born[id] # NoUser},
    asked <- [g \in Goroutine |-> IF At(g) # "idle" THEN req[g] ELSE Nil],
    seen <- [g \in Goroutine |-> Seen(g)],
    answer <- reply,
    adrift <- {g \in Goroutine : left[g] # "none"}

(* Every behaviour of the service is one the directory allows: a call has  *)
(* one instant of effect, its answer is true at that instant, and a write  *)
(* statement changes nothing but what its caller asked for and the fields  *)
(* Update wrote back; only after an internal error, or no answer at all,   *)
(* may that instant come later, and it comes once (user_repository.go:43,  *)
(* 121, 146).                                                              *)
ImplementsDirectory == Directory!Spec

-----------------------------------------------------------------------------
(* The address g's update leaves its account with.                         *)
Target(g) == IF req[g].email = Nil THEN user[g].email ELSE NormalizeEmail(req[g].email)

(* "Update applies partial updates to a user" (user_service.go:140): a     *)
(* committed update leaves a field the caller did not send as it was.      *)
PartialUpdate ==
    [][\A g \in Goroutine :
          pc[g] = "update_write" /\ wrote'[g] = "row" =>
             /\ req[g].email = Nil => users'[req[g].id].email = users[req[g].id].email
             /\ req[g].name = Nil => users'[req[g].id].name = users[req[g].id].name]_vars

(* "ErrConflict is returned on a duplicate or unique-constraint violation" *)
(* (domain/user.go:14): an update refused as a conflict would have given   *)
(* its account the address of another.                                     *)
ConflictMeansDuplicate ==
    [][\A g \in Goroutine :
          /\ pc[g] \in {"update_check", "update_write"} /\ reply[g] # reply'[g]
          /\ reply'[g] # NoReply /\ reply'[g].err = "conflict"
          => \E id \in UserID \ {req[g].id} :
                users[id] # NoUser /\ users[id].email = Target(g)]_vars
=============================================================================
