------------------------- MODULE UserServiceProofs -------------------------
(***************************************************************************)
(* The safety properties of the user service, for every number of          *)
(* goroutines, replicas, accounts and calls, and whatever the hosts'       *)
(* clocks read: what the statements of the repository can do, the types,   *)
(* the invariants, and that the service implements the directory of        *)
(* UserDirectory.                                                          *)
(***************************************************************************)
EXTENDS UserServiceProperties, TLAPS

-----------------------------------------------------------------------------
(***************************************************************************)
(* The repository: what its methods can do to the users table, and answer. *)
(***************************************************************************)

(* A normalised address is an address, and a trimmed name a name.          *)
LEMMA NormalType ==
    /\ \A e \in Email : NormalizeEmail(e) \in Email
    /\ \A n \in Name : TrimSpace(n) \in Name
  BY DEF Email, Name, NormalizeEmail, TrimSpace

-----------------------------------------------------------------------------
(* The repository's outcomes (user_repository.go).                         *)

(* The three ways the users table changes, from tbl to new: a row enters   *)
(* under an id and an address no row has; a row that is there changes in   *)
(* three columns, not to an address another has; a row goes.               *)
Inserts(tbl, new, u) ==
    /\ new = [tbl EXCEPT ![u.id] = u]
    /\ tbl[u.id] # NoUser => tbl[u.id].id # u.id
    /\ \A i \in UserID : tbl[i] # NoUser => tbl[i].email # u.email

Changes(tbl, new, u) ==
    /\ tbl[u.id] # NoUser
    /\ new = [tbl EXCEPT ![u.id] =
                 [tbl[u.id] EXCEPT !.email = u.email, !.name = u.name,
                                   !.updated = u.updated]]
    /\ \A i \in UserID : tbl[i] # NoUser /\ tbl[i].email = u.email => tbl[i].id = u.id

Removes(tbl, new, id) == new = [tbl EXCEPT ![id] = NoUser]

(* A read that succeeds answers a row of the table, and with a failure no  *)
(* row at all.                                                             *)
LEMMA ScanOutcome ==
    ASSUME NEW rows, NEW a \in ScanOne(rows)
    PROVE  \/ a.err = "nil" /\ a.user \in rows
           \/ a.err = "internal" /\ a.user = NoUser
           \/ a.err = "not_found" /\ a.user = NoUser /\ rows = {}
  BY DEF ScanOne

(* GetByID and GetByEmail find a stored row, with that id or that address. *)
LEMMA ReadOutcome ==
    ASSUME NEW tbl \in Table, NEW id, NEW e
    PROVE  /\ \A a \in GetByID(tbl, id) :
                 a.err = "nil" => /\ a.user \in User /\ a.user.id = id
                                  /\ \E i \in UserID : a.user = tbl[i]
           /\ \A a \in GetByEmail(tbl, e) :
                 a.err = "nil" => /\ a.user \in User /\ a.user.email = e
                                  /\ \E i \in UserID : a.user = tbl[i]
  BY ScanOutcome DEF GetByID, GetByEmail, Holders, Rows, Table

(* They report none only if there is none.                                 *)
LEMMA MissOutcome ==
    ASSUME NEW tbl, NEW id, NEW e, NEW a, a.err = "not_found"
    PROVE  /\ a \in GetByID(tbl, id) =>
                 \A i \in UserID : tbl[i] # NoUser => tbl[i].id # id
           /\ a \in GetByEmail(tbl, e) =>
                 \A i \in UserID : tbl[i] # NoUser => tbl[i].email # e
  BY ScanOutcome DEF GetByID, GetByEmail, Holders, Rows

(* A write that took effect left the new table; one that did not, the old. *)
LEMMA AppliedOutcome ==
    ASSUME NEW tbl, NEW new, NEW w \in Applied(tbl, new)
    PROVE  \/ w.err \in {"nil", "internal"} /\ w.wrote = "row" /\ w.table = new
           \/ w.err = "internal" /\ w.wrote = "none" /\ w.table = tbl
  BY DEF Applied

(* A write that is refused leaves the table as it was.                     *)
LEMMA RefusedOutcome ==
    ASSUME NEW tbl, NEW error, NEW w \in Refused(tbl, error)
    PROVE  w.err \in {error, "internal"} /\ w.wrote = "none" /\ w.table = tbl
  BY DEF Refused

(* INSERT either lets the row in or leaves the table alone.                *)
LEMMA CreateOutcome ==
    ASSUME NEW tbl \in Table, NEW u \in User, NEW w \in Create(tbl, u)
    PROVE  /\ w.err \in {"nil", "conflict", "internal"}
           /\ w.wrote \in {"none", "row"}
           /\ w.err = "nil" => w.wrote = "row"
           /\ w.err = "conflict" => w.wrote = "none"
           /\ w.wrote = "none" => w.table = tbl
           /\ w.wrote = "row" => Inserts(tbl, w.table, u)
           /\ w.err = "conflict" => \E i \in UserID :
                 tbl[i] # NoUser /\ (tbl[i].id = u.id \/ tbl[i].email = u.email)
  <1>1. CASE \E r \in Rows(tbl) : r.id = u.id \/ r.email = u.email
    <2>1. w \in Refused(tbl, "conflict")
      BY <1>1 DEF Create
    <2> QED BY <1>1, <2>1, RefusedOutcome DEF Rows
  <1>2. CASE ~ \E r \in Rows(tbl) : r.id = u.id \/ r.email = u.email
    <2> DEFINE new == [tbl EXCEPT ![u.id] = u]
    <2>1. w \in Applied(tbl, new)
      BY <1>2 DEF Create
    <2>2. Inserts(tbl, new, u)
      BY <1>2 DEF Inserts, Rows, User
    <2> HIDE DEF new
    <2> QED BY <2>1, <2>2, AppliedOutcome
  <1> QED BY <1>1, <1>2

(* UPDATE either changes the row or leaves the table alone.                *)
LEMMA UpdateOutcome ==
    ASSUME NEW tbl \in Table, NEW u \in User, NEW w \in Update(tbl, u)
    PROVE  /\ w.err \in {"nil", "conflict", "not_found", "internal"}
           /\ w.wrote \in {"none", "row"}
           /\ w.err = "nil" => w.wrote = "row"
           /\ w.err \in {"conflict", "not_found"} => w.wrote = "none"
           /\ w.wrote = "none" => w.table = tbl
           /\ w.wrote = "row" => Changes(tbl, w.table, u)
           /\ w.err = "not_found" => tbl[u.id] = NoUser
           /\ w.err = "conflict" => \E i \in UserID :
                 tbl[i] # NoUser /\ tbl[i].email = u.email /\ tbl[i].id # u.id
  <1>1. CASE tbl[u.id] = NoUser
    <2>1. w \in Refused(tbl, "not_found")
      BY <1>1 DEF Update
    <2> QED BY <1>1, <2>1, RefusedOutcome
  <1>2. CASE tbl[u.id] # NoUser /\ \E r \in Holders(tbl, u.email) : r.id # u.id
    <2>1. w \in Refused(tbl, "conflict")
      BY <1>2 DEF Update
    <2> QED BY <1>2, <2>1, RefusedOutcome DEF Holders, Rows
  <1>3. CASE tbl[u.id] # NoUser /\ ~ \E r \in Holders(tbl, u.email) : r.id # u.id
    <2> DEFINE row == [tbl[u.id] EXCEPT !.email = u.email, !.name = u.name,
                                        !.updated = u.updated]
               new == [tbl EXCEPT ![u.id] = row]
    <2>1. w \in Applied(tbl, [tbl EXCEPT ![u.id].email = u.email,
                                  ![u.id].name = u.name,
                                  ![u.id].updated = u.updated])
      BY <1>3 DEF Update
    <2>2. [tbl EXCEPT ![u.id].email = u.email, ![u.id].name = u.name,
                      ![u.id].updated = u.updated] = new
      BY <1>3 DEF Table, User
    <2>3. Changes(tbl, new, u)
      BY <1>3 DEF Changes, Holders, Rows, User
    <2>4. w \in Applied(tbl, new)
      BY <2>1, <2>2
    <2> HIDE DEF new, row
    <2> QED BY <2>3, <2>4, AppliedOutcome
  <1> QED BY <1>1, <1>2, <1>3

(* What is changed is still a table.                                       *)
LEMMA ChangesType ==
    ASSUME NEW tbl \in Table, NEW new, NEW u \in User, Changes(tbl, new, u),
           \A i \in UserID : tbl[i] # NoUser => tbl[i].id = i
    PROVE  new \in Table /\ \A i \in UserID : new[i] # NoUser => new[i].id = i
  <1> DEFINE row == [tbl[u.id] EXCEPT !.email = u.email, !.name = u.name,
                                      !.updated = u.updated]
  <1>1. u.id \in UserID /\ tbl[u.id] \in User /\ tbl[u.id].id = u.id
    BY DEF Changes, Table, User
  <1>2. row \in User /\ row.id = u.id
    BY <1>1 DEF User
  <1>3. new = [tbl EXCEPT ![u.id] = row]
    BY DEF Changes
  <1> HIDE DEF row
  <1> QED BY <1>1, <1>2, <1>3 DEF Table

(* DELETE either removes the row or leaves the table alone.                *)
LEMMA DeleteOutcome ==
    ASSUME NEW tbl \in Table, NEW id \in UserID, NEW w \in Delete(tbl, id)
    PROVE  /\ w.err \in {"nil", "not_found", "internal"}
           /\ w.wrote \in {"none", "row"}
           /\ w.err = "nil" => w.wrote = "row"
           /\ w.err = "not_found" => w.wrote = "none"
           /\ w.wrote = "none" => w.table = tbl
           /\ w.wrote = "row" => tbl[id] # NoUser /\ Removes(tbl, w.table, id)
           /\ w.err = "not_found" => tbl[id] = NoUser
  <1>1. CASE tbl[id] = NoUser
    <2>1. w \in Refused(tbl, "not_found")
      BY <1>1 DEF Delete
    <2> QED BY <1>1, <2>1, RefusedOutcome
  <1>2. CASE tbl[id] # NoUser
    <2> DEFINE new == [tbl EXCEPT ![id] = NoUser]
    <2>1. w \in Applied(tbl, new) /\ Removes(tbl, new, id)
      BY <1>2 DEF Delete, Removes
    <2> HIDE DEF new
    <2> QED BY <1>2, <2>1, AppliedOutcome
  <1> QED BY <1>1, <1>2

-----------------------------------------------------------------------------
(***************************************************************************)
(* Type correctness.                                                       *)
(***************************************************************************)

(* How a step moves the variables of its goroutine.                        *)

LocalOK == /\ calls \in 0 .. MaxCalls
           /\ pc \in [Goroutine -> {"idle"} \cup Op \cup Steps]
           /\ req \in [Goroutine -> Request]
           /\ user \in [Goroutine -> User \cup {NoUser}]
           /\ reply \in [Goroutine -> Reply \cup {NoReply}]
           /\ wrote \in [Goroutine -> Effect]
           /\ left \in [Goroutine -> {"none"} \cup Writes]

Others(g) == \A h \in Goroutine \ {g} :
                /\ pc'[h] = pc[h] /\ req'[h] = req[h] /\ user'[h] = user[h]
                /\ reply'[h] = reply[h] /\ wrote'[h] = wrote[h]
                /\ left'[h] = left[h]

(* A goroutine that is handed a call starts it with a clean slate.         *)
LEMMA ReceiveStep ==
    ASSUME LocalOK, NEW g \in Goroutine, NEW r \in Request, Receive(g, r)
    PROVE  /\ LocalOK' /\ Others(g) /\ UNCHANGED <<db, minted>>
           /\ pc[g] = "idle" /\ pc'[g] = r.op /\ req'[g] = r /\ user'[g] = user[g]
           /\ reply'[g] = NoReply /\ wrote'[g] = "none"
           /\ left[g] = "none" /\ left'[g] = "none"
  BY BoundAssumption DEF Receive, LocalOK, Others, Request, Effect

(* A step to the next cut keeps the arguments and gives no answer.         *)
LEMMA GotoStep ==
    ASSUME LocalOK, NEW g \in Goroutine, NEW s \in Steps,
           NEW u \in User \cup {NoUser}, Goto(g, s, u)
    PROVE  /\ LocalOK' /\ Others(g)
           /\ pc'[g] = s /\ req'[g] = req[g] /\ user'[g] = u
           /\ reply'[g] = reply[g] /\ wrote'[g] = wrote[g] /\ left'[g] = left[g]
  BY DEF Goto, LocalOK, Others

(* A return gives exactly one answer.                                      *)
LEMMA ReturnStep ==
    ASSUME LocalOK, NEW g \in Goroutine, NEW err \in Errors,
           NEW u \in User \cup {NoUser}, NEW t \in Token \cup {Nil},
           Return(g, err, u, t)
    PROVE  /\ LocalOK' /\ Others(g)
           /\ pc'[g] = "idle" /\ req'[g] = req[g]
           /\ wrote'[g] = wrote[g] /\ left'[g] = left[g]
           /\ reply'[g] \in Reply
           /\ reply'[g].err = err /\ reply'[g].user = u /\ reply'[g].token = t
  <1>1. [err |-> err, user |-> u, token |-> t] \in Reply
    BY DEF Reply
  <1> QED BY <1>1 DEF Return, Answer, LocalOK, Others

LEMMA RefuseStep ==
    ASSUME LocalOK, NEW g \in Goroutine, NEW err \in Errors, Refuse(g, err)
    PROVE  /\ LocalOK' /\ Others(g)
           /\ pc'[g] = "idle" /\ req'[g] = req[g]
           /\ wrote'[g] = wrote[g] /\ left'[g] = left[g]
           /\ reply'[g] \in Reply
           /\ reply'[g].err = err /\ reply'[g].token = Nil
  BY ReturnStep DEF Refuse

(* A write returns its outcome, and records whether it took effect.        *)
LEMMA WriteStep ==
    ASSUME LocalOK, NEW g \in Goroutine, NEW w, w.err \in Errors,
           w.wrote \in {"none", "row"}, NEW u \in User \cup {NoUser}, Write(g, w, u)
    PROVE  /\ LocalOK' /\ Others(g) /\ users' = w.table
           /\ pc'[g] = "idle" /\ req'[g] = req[g]
           /\ wrote'[g] = w.wrote /\ left'[g] = left[g]
           /\ reply'[g] \in Reply /\ reply'[g].err = w.err
           /\ reply'[g].token = Nil
           /\ w.err = "nil" => reply'[g].user = u
  <1> DEFINE answer == [err |-> w.err, user |-> IF w.err = "nil" THEN u ELSE NoUser,
                        token |-> Nil]
  <1>1. /\ answer \in Reply /\ answer.err = w.err /\ answer.token = Nil
        /\ w.err = "nil" => answer.user = u
    BY DEF Reply
  <1>2. reply' = [reply EXCEPT ![g] = answer]
    BY DEF Write, Answer
  <1> HIDE DEF answer
  <1> QED BY <1>1, <1>2 DEF Write, Answer, LocalOK, Others, Effect

-----------------------------------------------------------------------------
(* Type correctness.  A goroutine's arguments have the fields its method   *)
(* reads, and its variable user holds a row wherever the method, or the    *)
(* statement it left, uses it.                                             *)

Registering == {"register", "register_build", "register_insert"}
Updating == {"update", "update_check", "update_stamp", "update_write"}
Holding == {"register_insert", "auth_issue",
            "update_check", "update_stamp", "update_write"}

Shape(g) ==
    /\ At(g) \in Registering =>
          /\ req[g].op = "register"
          /\ req[g].email \in Email /\ req[g].name \in Name
          /\ req[g].password \in Password
    /\ At(g) \in {"auth", "auth_issue"} =>
          /\ req[g].op = "auth"
          /\ req[g].email \in Email /\ req[g].password \in Password
    /\ At(g) \in {"get", "delete"} => req[g].op = At(g) /\ req[g].id \in UserID
    /\ At(g) \in Updating => req[g].op = "update" /\ req[g].id \in UserID
    /\ At(g) = "update_check" => req[g].email \in Email
    /\ At(g) \in Holding => user[g] \in User
    /\ At(g) # "idle" => wrote[g] = "none"
    /\ left[g] # "none" =>
          /\ pc[g] = "idle"
          /\ reply[g] # NoReply => reply[g].err = "internal" /\ reply[g].token = Nil

StoreOK == /\ users \in Table /\ born \in Table
           /\ minted \subseteq UserID
           /\ \A id \in UserID : users[id] # NoUser => users[id].id = id

TypeInv == StoreOK /\ LocalOK /\ \A g \in Goroutine : Shape(g)

USE DEF At

(* The three ways a statement changes the tables, at its method's step or  *)
(* after the method has returned.                                          *)
Inserted(g) == /\ At(g) = "register_insert" /\ Inserts(users, users', user[g])
               /\ born' = [born EXCEPT ![user[g].id] = user[g]]
Changed(g) == /\ At(g) = "update_write" /\ Changes(users, users', user[g])
              /\ born' = born
Removed(g) == /\ At(g) = "delete" /\ users[req[g].id] # NoUser
              /\ Removes(users, users', req[g].id)
              /\ born' = born

(* The write statement g is at ends with the outcome w.                    *)
Ends(g, w) ==
    /\ \/ At(g) = "register_insert" /\ w \in Create(users, user[g])
       \/ At(g) = "update_write" /\ w \in Update(users, user[g])
       \/ At(g) = "delete" /\ w \in Delete(users, req[g].id)
    /\ users' = w.table
    /\ born' = IF At(g) = "register_insert" /\ w.wrote = "row"
               THEN [born EXCEPT ![user[g].id] = user[g]] ELSE born
    /\ minted' = minted

LEMMA WriteEnds ==
    ASSUME TypeInv, NEW g \in Goroutine,
           RegisterInsert(g) \/ UpdateWrite(g) \/ DeleteRow(g)
    PROVE  \E w : /\ Ends(g, w)
                  /\ Write(g, w, IF At(g) = "delete" THEN NoUser ELSE user[g])
  <1> USE DEF TypeInv, Shape, Ends, Write
  <1>1. CASE RegisterInsert(g)
    BY <1>1 DEF RegisterInsert
  <1>2. CASE UpdateWrite(g)
    BY <1>2 DEF UpdateWrite
  <1>3. CASE DeleteRow(g)
    BY <1>3 DEF DeleteRow
  <1> QED BY <1>1, <1>2, <1>3

LEMMA SettleEnds ==
    ASSUME TypeInv, NEW g \in Goroutine, Settle(g)
    PROVE  /\ left[g] \in Writes
           /\ \E w : Ends(g, w) /\ wrote' = [wrote EXCEPT ![g] = w.wrote]
  <1>1. left[g] \in Writes
    BY DEF TypeInv, LocalOK, Settle
  <1> QED BY <1>1 DEF Settle, Outcomes, Ends, Writes

(* Its outcome is one of the domain's errors, truthful about the effect;   *)
(* and the tables keep their types.                                        *)
LEMMA EndsOutcome ==
    ASSUME TypeInv, NEW g \in Goroutine, NEW w, Ends(g, w)
    PROVE  /\ w.err \in Errors /\ w.wrote \in {"none", "row"}
           /\ w.err = "nil" => w.wrote = "row"
           /\ w.err \notin {"nil", "internal"} => w.wrote = "none"
           /\ w.wrote = "none" => UNCHANGED db
           /\ w.wrote = "row" => Inserted(g) \/ Changed(g) \/ Removed(g)
           /\ StoreOK'
  <1> USE DEF TypeInv
  <1>1. CASE At(g) = "register_insert"
    <2>1. user[g] \in User /\ w \in Create(users, user[g])
      BY <1>1 DEF Ends, Shape, Holding
    <2>2. /\ w.err \in {"nil", "conflict", "internal"} /\ w.wrote \in {"none", "row"}
          /\ w.err = "nil" => w.wrote = "row"
          /\ w.err = "conflict" => w.wrote = "none"
          /\ w.wrote = "none" => w.table = users
          /\ w.wrote = "row" => Inserts(users, w.table, user[g])
      BY <2>1, CreateOutcome DEF StoreOK
    <2>3. StoreOK'
      BY <1>1, <2>1, <2>2 DEF Ends, StoreOK, Table, User, Inserts
    <2> QED BY <1>1, <2>2, <2>3 DEF Ends, Inserted, Errors, db
  <1>2. CASE At(g) = "update_write"
    <2>1. user[g] \in User /\ w \in Update(users, user[g])
      BY <1>2 DEF Ends, Shape, Holding
    <2>2. /\ w.err \in {"nil", "conflict", "not_found", "internal"}
          /\ w.wrote \in {"none", "row"}
          /\ w.err = "nil" => w.wrote = "row"
          /\ w.err \in {"conflict", "not_found"} => w.wrote = "none"
          /\ w.wrote = "none" => w.table = users
          /\ w.wrote = "row" => Changes(users, w.table, user[g])
      BY <2>1, UpdateOutcome DEF StoreOK
    <2>3. users' \in Table /\ \A i \in UserID : users'[i] # NoUser => users'[i].id = i
      <3>1. CASE w.wrote = "none"
        BY <2>2, <3>1 DEF Ends, StoreOK
      <3>2. CASE w.wrote = "row"
        BY <2>1, <2>2, <3>2, ChangesType DEF Ends, StoreOK
      <3> QED BY <2>2, <3>1, <3>2
    <2>4. StoreOK' /\ born' = born
      BY <1>2, <2>3 DEF Ends, StoreOK
    <2> QED BY <1>2, <2>2, <2>4 DEF Ends, Changed, Errors, db
  <1>3. CASE At(g) = "delete"
    <2>1. req[g].id \in UserID /\ w \in Delete(users, req[g].id)
      BY <1>3 DEF Ends, Shape
    <2>2. /\ w.err \in {"nil", "not_found", "internal"} /\ w.wrote \in {"none", "row"}
          /\ w.err = "nil" => w.wrote = "row"
          /\ w.err = "not_found" => w.wrote = "none"
          /\ w.wrote = "none" => w.table = users
          /\ w.wrote = "row" =>
                users[req[g].id] # NoUser /\ Removes(users, w.table, req[g].id)
      BY <2>1, DeleteOutcome DEF StoreOK
    <2>3. StoreOK' /\ born' = born
      BY <1>3, <2>1, <2>2 DEF Ends, StoreOK, Table, Removes
    <2> QED BY <1>3, <2>2, <2>3 DEF Ends, Removed, Errors, db
  <1> QED BY <1>1, <1>2, <1>3 DEF Ends

LEMMA TypeInvTypeOK == TypeInv => TypeOK
  BY DEF TypeInv, StoreOK, LocalOK, TypeOK

(* The types and shapes hold at first, ...                                 *)
LEMMA TypeInit == Init => TypeInv
  <1> SUFFICES ASSUME Init PROVE TypeInv
    OBVIOUS
  <1> USE DEF Init
  <1>1. NoRequest \in Request
    BY DEF NoRequest, Request, Op
  <1>2. StoreOK
    BY SeedAssumption, BoundAssumption DEF StoreOK
  <1>3. LocalOK
    BY <1>1, BoundAssumption DEF LocalOK, Effect
  <1>4. \A g \in Goroutine : Shape(g)
    BY DEF Shape, Registering, Updating, Holding
  <1> QED BY <1>2, <1>3, <1>4 DEF TypeInv

(* It is enough to look at the goroutine that moves.                       *)
LEMMA ShapeLocal ==
    ASSUME TypeInv, NEW g \in Goroutine, Others(g), StoreOK', LocalOK', Shape(g)'
    PROVE  TypeInv'
  <1>1. \A h \in Goroutine \ {g} : Shape(h)'
    BY DEF TypeInv, Others, Shape
  <1> QED BY <1>1 DEF TypeInv

LEMMA TypeCall ==
    ASSUME TypeInv, NEW g \in Goroutine, Call(g)
    PROVE  TypeInv'
  <1> USE DEF Request, NoRequest, Op
  <1> SUFFICES ASSUME NEW r \in Request, Receive(g, r), r.op \in Op,
                      r.op = "register" => /\ r.email \in Email /\ r.name \in Name
                                           /\ r.password \in Password,
                      r.op = "auth" => r.email \in Email /\ r.password \in Password,
                      r.op \in {"get", "update", "delete"} => r.id \in UserID
               PROVE  TypeInv'
    <2>1. CASE RegisterCall(g)
      BY <2>1, InputAssumption DEF RegisterCall
    <2>2. CASE AuthenticateCall(g)
      BY <2>2, InputAssumption DEF AuthenticateCall
    <2>3. CASE GetCall(g)
      BY <2>3 DEF GetCall
    <2>4. CASE UpdateCall(g)
      BY <2>4, InputAssumption DEF UpdateCall
    <2>5. CASE DeleteCall(g)
      BY <2>5 DEF DeleteCall
    <2> QED BY <2>1, <2>2, <2>3, <2>4, <2>5 DEF Call
  <1> USE DEF TypeInv, Shape, Registering, Updating, Holding
  <1>1. /\ LocalOK' /\ Others(g) /\ UNCHANGED <<db, minted>>
        /\ pc'[g] = r.op /\ req'[g] = r /\ wrote'[g] = "none" /\ left'[g] = "none"
    BY ReceiveStep
  <1>2. StoreOK'
    BY <1>1 DEF StoreOK, db
  <1>3. Shape(g)'
    BY <1>1
  <1> QED BY <1>1, <1>2, <1>3, ShapeLocal

(* A step after which the goroutine is idle, and at nothing, leaves its    *)
(* Shape to hold.                                                          *)
LEMMA IdleShape ==
    ASSUME TypeInv, NEW g \in Goroutine, Others(g), StoreOK', LocalOK',
           pc'[g] = "idle", left'[g] = "none"
    PROVE  TypeInv'
  <1>1. Shape(g)'
    BY DEF Shape, Registering, Updating, Holding
  <1> QED BY <1>1, ShapeLocal

(* A method that returns was at no statement it had left.                  *)
LEMMA Attended ==
    ASSUME TypeInv, NEW g \in Goroutine, pc[g] # "idle"
    PROVE  left[g] = "none" /\ wrote[g] = "none"
  BY DEF TypeInv, Shape

(* A refusal changes no table and leaves its goroutine idle.               *)
LEMMA TypeRefuse ==
    ASSUME TypeInv, NEW g \in Goroutine, NEW err \in Errors, pc[g] # "idle",
           Refuse(g, err), UNCHANGED <<db, minted>>
    PROVE  TypeInv'
  BY RefuseStep, IdleShape, Attended DEF TypeInv, StoreOK, db

LEMMA TypeRegister ==
    ASSUME TypeInv, NEW g \in Goroutine,
           RegisterCheck(g) \/ RegisterBuild(g)
    PROVE  TypeInv'
  <1> USE DEF TypeInv
  <1>1. CASE RegisterCheck(g)
    <2>1. CASE \E err \in {"invalid_input", "internal", "conflict"} : Refuse(g, err)
      BY <1>1, <2>1, TypeRefuse DEF RegisterCheck, Errors
    <2>2. CASE Goto(g, "register_build", NoUser)
      <3>1. /\ LocalOK' /\ Others(g) /\ pc'[g] = "register_build"
            /\ req'[g] = req[g] /\ wrote'[g] = wrote[g] /\ left'[g] = left[g]
        BY <2>2, GotoStep DEF Steps
      <3>2. Shape(g)'
        BY <1>1, <3>1 DEF RegisterCheck, Shape, Registering, Updating, Holding
      <3>3. StoreOK'
        BY <1>1 DEF RegisterCheck, StoreOK, db
      <3> QED BY <3>1, <3>2, <3>3, ShapeLocal
    <2> QED BY <1>1, <2>1, <2>2 DEF RegisterCheck
  <1>2. CASE RegisterBuild(g)
    <2>1. CASE ~Hashable(req[g].password)
      BY <1>2, <2>1, TypeRefuse DEF RegisterBuild, Errors
    <2>2. CASE Hashable(req[g].password)
      <3>1. PICK id \in UserID \ minted, now \in Readings :
               /\ minted' = minted \cup {id}
               /\ Goto(g, "register_insert",
                       [id |-> id, email |-> NormalizeEmail(req[g].email),
                        name |-> TrimSpace(req[g].name), hash |-> req[g].password,
                        created |-> now, updated |-> now])
        BY <1>2, <2>2 DEF RegisterBuild
      <3> DEFINE row == [id |-> id, email |-> NormalizeEmail(req[g].email),
                         name |-> TrimSpace(req[g].name), hash |-> req[g].password,
                         created |-> now, updated |-> now]
      <3>2. now \in Nat
        BY BoundAssumption DEF Readings
      <3>3. row \in User
        BY <1>2, <3>2, NormalType DEF RegisterBuild, Shape, Registering, User
      <3> HIDE DEF row
      <3>4. /\ LocalOK' /\ Others(g) /\ pc'[g] = "register_insert"
            /\ req'[g] = req[g] /\ user'[g] = row
            /\ wrote'[g] = wrote[g] /\ left'[g] = left[g]
        BY <3>1, <3>3, GotoStep DEF Steps, row
      <3>5. Shape(g)'
        BY <1>2, <3>3, <3>4 DEF RegisterBuild, Shape, Registering, Updating, Holding
      <3>6. StoreOK'
        <4>1. minted' \subseteq UserID
          BY <3>1 DEF StoreOK
        <4> QED BY <1>2, <4>1 DEF RegisterBuild, StoreOK, db
      <3> QED BY <3>4, <3>5, <3>6, ShapeLocal
    <2> QED BY <2>1, <2>2
  <1> QED BY <1>1, <1>2

LEMMA TypeAuthenticate ==
    ASSUME TypeInv, NEW g \in Goroutine, AuthenticateRead(g) \/ AuthenticateIssue(g)
    PROVE  TypeInv'
  <1> USE DEF TypeInv
  <1>1. CASE AuthenticateRead(g)
    <2>1. CASE \E err \in {"invalid_credentials", "internal"} : Refuse(g, err)
      BY <1>1, <2>1, TypeRefuse DEF AuthenticateRead, Errors
    <2>2. ASSUME NEW a \in GetByEmail(users, NormalizeEmail(req[g].email)),
                 a.err = "nil", Goto(g, "auth_issue", a.user)
          PROVE  TypeInv'
      <3>1. a.user \in User
        BY <2>2, ReadOutcome DEF StoreOK
      <3>2. /\ LocalOK' /\ Others(g) /\ pc'[g] = "auth_issue"
            /\ req'[g] = req[g] /\ user'[g] = a.user
            /\ wrote'[g] = wrote[g] /\ left'[g] = left[g]
        BY <2>2, <3>1, GotoStep DEF Steps
      <3>3. Shape(g)'
        BY <1>1, <3>1, <3>2 DEF AuthenticateRead, Shape, Registering, Updating, Holding
      <3>4. StoreOK'
        BY <1>1 DEF AuthenticateRead, StoreOK, db
      <3> QED BY <3>2, <3>3, <3>4, ShapeLocal
    <2> QED BY <1>1, <2>1, <2>2 DEF AuthenticateRead
  <1>2. CASE AuthenticateIssue(g)
    <2>1. CASE Refuse(g, "internal")
      BY <1>2, <2>1, TypeRefuse DEF AuthenticateIssue, Errors
    <2>2. CASE Return(g, "nil", user[g], [sub |-> user[g].id, email |-> user[g].email])
      <3>1. /\ user[g] \in User
            /\ [sub |-> user[g].id, email |-> user[g].email] \in Token
        BY <1>2 DEF AuthenticateIssue, Shape, Holding, User, Token
      <3>2. LocalOK' /\ Others(g) /\ pc'[g] = "idle" /\ left'[g] = "none"
        BY <1>2, <2>2, <3>1, ReturnStep, Attended DEF AuthenticateIssue, Errors
      <3>3. StoreOK'
        BY <1>2 DEF AuthenticateIssue, StoreOK, db
      <3> QED BY <3>2, <3>3, IdleShape
    <2> QED BY <1>2, <2>1, <2>2 DEF AuthenticateIssue
  <1> QED BY <1>1, <1>2

LEMMA TypeGet ==
    ASSUME TypeInv, NEW g \in Goroutine, GetRead(g)
    PROVE  TypeInv'
  <1> USE DEF TypeInv
  <1>1. CASE \E err \in {"not_found", "internal"} : Refuse(g, err)
    BY <1>1, TypeRefuse DEF GetRead, Errors
  <1>2. ASSUME NEW a \in GetByID(users, req[g].id), a.err = "nil",
               Return(g, "nil", a.user, Nil)
        PROVE  TypeInv'
    <2>1. a.user \in User
      BY <1>2, ReadOutcome DEF StoreOK
    <2>2. LocalOK' /\ Others(g) /\ pc'[g] = "idle" /\ left'[g] = "none"
      BY <1>2, <2>1, ReturnStep, Attended DEF GetRead, Errors
    <2>3. StoreOK'
      BY DEF GetRead, StoreOK, db
    <2> QED BY <2>2, <2>3, IdleShape
  <1> QED BY <1>1, <1>2 DEF GetRead

LEMMA TypeUpdate ==
    ASSUME TypeInv, NEW g \in Goroutine,
           UpdateRead(g) \/ UpdateCheck(g) \/ UpdateStamp(g)
    PROVE  TypeInv'
  <1> USE DEF TypeInv
  <1>1. CASE UpdateRead(g)
    <2>1. CASE \E err \in {"not_found", "internal", "invalid_input"} : Refuse(g, err)
      BY <1>1, <2>1, TypeRefuse DEF UpdateRead, Errors
    <2>2. ASSUME NEW a \in GetByID(users, req[g].id), a.err = "nil",
                 Goto(g, IF req[g].email = Nil
                              \/ NormalizeEmail(req[g].email) = a.user.email
                         THEN "update_stamp" ELSE "update_check",
                      IF req[g].name = Nil THEN a.user
                      ELSE [a.user EXCEPT !.name = req[g].name])
          PROVE  TypeInv'
      <3> DEFINE s == IF req[g].email = Nil \/ NormalizeEmail(req[g].email) = a.user.email
                      THEN "update_stamp" ELSE "update_check"
                 u == IF req[g].name = Nil THEN a.user
                      ELSE [a.user EXCEPT !.name = req[g].name]
      <3>1. a.user \in User
        BY <2>2, ReadOutcome DEF StoreOK
      <3>2. req[g] \in Request
        BY DEF LocalOK
      <3>3. u \in User
        BY <3>1, <3>2 DEF Request, User
      <3>4. s \in {"update_stamp", "update_check"}
            /\ (s = "update_check" => req[g].email \in Email)
        BY <3>2 DEF Request
      <3> HIDE DEF s, u
      <3>5. /\ LocalOK' /\ Others(g) /\ pc'[g] = s
            /\ req'[g] = req[g] /\ user'[g] = u
            /\ wrote'[g] = wrote[g] /\ left'[g] = left[g]
        BY <2>2, <3>3, <3>4, GotoStep DEF Steps, s, u
      <3>6. Shape(g)'
        BY <1>1, <3>3, <3>4, <3>5
           DEF UpdateRead, Shape, Registering, Updating, Holding
      <3>7. StoreOK'
        BY <1>1 DEF UpdateRead, StoreOK, db
      <3> QED BY <3>5, <3>6, <3>7, ShapeLocal
    <2> QED BY <1>1, <2>1, <2>2 DEF UpdateRead
  <1>2. CASE UpdateCheck(g)
    <2>1. CASE \E err \in {"conflict", "internal"} : Refuse(g, err)
      BY <1>2, <2>1, TypeRefuse DEF UpdateCheck, Errors
    <2>2. CASE Goto(g, "update_stamp",
                    [user[g] EXCEPT !.email = NormalizeEmail(req[g].email)])
      <3> DEFINE u == [user[g] EXCEPT !.email = NormalizeEmail(req[g].email)]
      <3>1. u \in User
        BY <1>2, NormalType DEF UpdateCheck, Shape, Holding, User
      <3> HIDE DEF u
      <3>2. /\ LocalOK' /\ Others(g) /\ pc'[g] = "update_stamp"
            /\ req'[g] = req[g] /\ user'[g] = u
            /\ wrote'[g] = wrote[g] /\ left'[g] = left[g]
        BY <2>2, <3>1, GotoStep DEF Steps, u
      <3>3. Shape(g)'
        BY <1>2, <3>1, <3>2 DEF UpdateCheck, Shape, Registering, Updating, Holding
      <3>4. StoreOK'
        BY <1>2 DEF UpdateCheck, StoreOK, db
      <3> QED BY <3>2, <3>3, <3>4, ShapeLocal
    <2> QED BY <1>2, <2>1, <2>2 DEF UpdateCheck
  <1>3. CASE UpdateStamp(g)
    <2>1. PICK now \in Readings :
             Goto(g, "update_write", [user[g] EXCEPT !.updated = now])
      BY <1>3 DEF UpdateStamp
    <2> DEFINE u == [user[g] EXCEPT !.updated = now]
    <2>2. now \in Nat
      BY BoundAssumption DEF Readings
    <2>3. u \in User
      BY <1>3, <2>2 DEF UpdateStamp, Shape, Holding, User
    <2> HIDE DEF u
    <2>4. /\ LocalOK' /\ Others(g) /\ pc'[g] = "update_write"
          /\ req'[g] = req[g] /\ user'[g] = u
          /\ wrote'[g] = wrote[g] /\ left'[g] = left[g]
      BY <2>1, <2>3, GotoStep DEF Steps, u
    <2>5. Shape(g)'
      BY <1>3, <2>3, <2>4 DEF UpdateStamp, Shape, Registering, Updating, Holding
    <2>6. StoreOK'
      BY <1>3 DEF UpdateStamp, StoreOK, db
    <2> QED BY <2>4, <2>5, <2>6, ShapeLocal
  <1> QED BY <1>1, <1>2, <1>3

LEMMA TypeWrite ==
    ASSUME TypeInv, NEW g \in Goroutine,
           RegisterInsert(g) \/ UpdateWrite(g) \/ DeleteRow(g)
    PROVE  TypeInv'
  <1>1. PICK w : Ends(g, w) /\ Write(g, w, IF At(g) = "delete" THEN NoUser ELSE user[g])
    BY WriteEnds
  <1>2. StoreOK' /\ w.err \in Errors /\ w.wrote \in {"none", "row"}
    BY <1>1, EndsOutcome
  <1>3. LocalOK /\ user[g] \in User \cup {NoUser} /\ pc[g] # "idle"
    BY DEF TypeInv, LocalOK, RegisterInsert, UpdateWrite, DeleteRow
  <1>4. (IF At(g) = "delete" THEN NoUser ELSE user[g]) \in User \cup {NoUser}
    BY <1>3
  <1>5. LocalOK' /\ Others(g) /\ pc'[g] = "idle" /\ left'[g] = left[g]
    BY <1>1, <1>2, <1>3, <1>4, WriteStep
  <1> QED BY <1>2, <1>3, <1>5, Attended, IdleShape

(* A statement that is left behind keeps its arguments, ...                *)
LEMMA TypeAbandon ==
    ASSUME TypeInv, NEW g \in Goroutine, Abandon(g)
    PROVE  TypeInv' /\ Others(g) /\ At(g)' = At(g)
  <1> USE DEF TypeInv, Abandon
  <1>1. [err |-> "internal", user |-> NoUser, token |-> Nil] \in Reply
    BY DEF Reply, Errors
  <1>2. LocalOK' /\ Others(g)
    BY <1>1 DEF LocalOK, Others
  <1>3. StoreOK'
    BY DEF StoreOK, db
  <1>4. At(g)' = At(g) /\ pc[g] # "idle"
    BY Attended DEF LocalOK, Writes
  <1>5. Shape(g)'
    BY <1>4 DEF Shape, LocalOK
  <1> QED BY <1>2, <1>3, <1>4, <1>5, ShapeLocal

(* ... which are forgotten when it ends.                                   *)
LEMMA TypeSettle ==
    ASSUME TypeInv, NEW g \in Goroutine, Settle(g)
    PROVE  TypeInv' /\ Others(g)
  <1>1. PICK w : Ends(g, w) /\ wrote' = [wrote EXCEPT ![g] = w.wrote]
    BY SettleEnds
  <1>2. StoreOK' /\ w.wrote \in {"none", "row"}
    BY <1>1, EndsOutcome
  <1>3. LocalOK' /\ Others(g)
    BY <1>1, <1>2 DEF TypeInv, LocalOK, Others, Settle, Effect
  <1>4. pc'[g] = "idle" /\ left'[g] = "none"
    BY DEF TypeInv, LocalOK, Shape, Settle
  <1> QED BY <1>2, <1>3, <1>4, IdleShape

(* A goroutine of a replica that dies is at its statement still, or at     *)
(* nothing.                                                                *)
LEMMA CrashAt ==
    ASSUME TypeInv, NEW r, Crash(r), NEW g \in Goroutine
    PROVE  /\ req'[g] = req[g] /\ wrote'[g] = wrote[g]
           /\ At(g)' # "idle" => At(g)' = At(g) /\ user'[g] = user[g]
           /\ Host[g] = r => reply'[g] = NoReply /\ pc'[g] = "idle"
           /\ Host[g] # r => /\ reply'[g] = reply[g] /\ pc'[g] = pc[g]
                              /\ left'[g] = left[g] /\ user'[g] = user[g]
  BY DEF TypeInv, LocalOK, Shape, Crash, Writes

LEMMA TypeCrash ==
    ASSUME TypeInv, NEW r, Crash(r)
    PROVE  TypeInv'
  <1> USE DEF TypeInv, Crash
  <1>1. StoreOK'
    BY DEF StoreOK, db
  <1>2. LocalOK'
    BY DEF LocalOK
  <1>3. ASSUME NEW g \in Goroutine
        PROVE  Shape(g)'
    <2>1. CASE At(g)' = "idle"
      BY <2>1, CrashAt DEF Shape, Registering, Updating, Holding
    <2>2. CASE At(g)' # "idle"
      BY <2>2, CrashAt DEF Shape
    <2> QED BY <2>1, <2>2
  <1> QED BY <1>1, <1>2, <1>3

(* ... every step keeps them, ...                                          *)
LEMMA TypeNext == TypeInv /\ [Next]_vars => TypeInv'
  <1> SUFFICES ASSUME TypeInv, [Next]_vars PROVE TypeInv'
    OBVIOUS
  <1>1. CASE UNCHANGED vars
    BY <1>1 DEF vars, db, local, TypeInv, StoreOK, LocalOK, Shape
  <1>2. ASSUME NEW g \in Goroutine, Call(g)
        PROVE  TypeInv'
    BY <1>2, TypeCall
  <1>3. ASSUME NEW g \in Goroutine, Step(g)
        PROVE  TypeInv'
    BY <1>3, TypeRegister, TypeAuthenticate, TypeGet, TypeUpdate, TypeWrite,
       TypeAbandon DEF Step
  <1>4. ASSUME NEW r, Crash(r)
        PROVE  TypeInv'
    BY <1>4, TypeCrash
  <1>5. ASSUME NEW g \in Goroutine, Settle(g)
        PROVE  TypeInv'
    BY <1>5, TypeSettle
  <1> QED BY <1>1, <1>2, <1>3, <1>4, <1>5 DEF Next, Quiesce

(* ... and so they always hold.                                            *)
LEMMA TypeAlways == Spec => []TypeInv
  BY TypeInit, TypeNext, PTL DEF Spec

(* Every variable keeps to its type, for every configuration: in           *)
(* particular no method answers with anything but the domain's errors, and *)
(* none uses an argument or a row it does not have.                        *)
THEOREM TypeCorrect == Spec => []TypeOK
  BY TypeAlways, TypeInvTypeOK, PTL

-----------------------------------------------------------------------------
(***************************************************************************)
(* The invariants.                                                         *)
(***************************************************************************)

(* Only RegisterBuild takes an id and prepares an insertion.  Any other    *)
(* step leaves the tables alone, and an insertion as it was prepared; or   *)
(* it is a statement's end.                                                *)
Quiet(g) ==
    /\ UNCHANGED minted
    /\ \/ /\ UNCHANGED db
          /\ At(g)' = "register_insert" => At(g) = "register_insert" /\ UNCHANGED user[g]
       \/ /\ At(g)' = "idle"
          /\ UNCHANGED db \/ Inserted(g) \/ Changed(g) \/ Removed(g)

(* The end of a statement.                                                 *)
LEMMA EndClasses ==
    ASSUME TypeInv, NEW g \in Goroutine,
           RegisterInsert(g) \/ UpdateWrite(g) \/ DeleteRow(g) \/ Settle(g)
    PROVE  Others(g) /\ At(g)' = "idle" /\ Quiet(g)
  <1>1. \E w : Ends(g, w)
    BY WriteEnds, SettleEnds
  <1>2. UNCHANGED minted /\ (UNCHANGED db \/ Inserted(g) \/ Changed(g) \/ Removed(g))
    BY <1>1, EndsOutcome DEF Ends
  <1>3. CASE Settle(g)
    <2>1. left'[g] = "none" /\ pc'[g] = "idle"
      BY <1>3 DEF TypeInv, LocalOK, Shape, Settle
    <2> QED BY <1>2, <1>3, <2>1, TypeSettle DEF Quiet
  <1>4. CASE RegisterInsert(g) \/ UpdateWrite(g) \/ DeleteRow(g)
    <2>1. pc[g] # "idle" /\ \E w, u : Write(g, w, u)
      BY <1>4 DEF RegisterInsert, UpdateWrite, DeleteRow
    <2>2. Others(g) /\ At(g)' = "idle"
      BY <2>1, Attended DEF TypeInv, LocalOK, Others, Write, Answer
    <2> QED BY <1>2, <2>2 DEF Quiet
  <1> QED BY <1>3, <1>4

(* Every step of a goroutine.                                              *)
LEMMA StepClasses ==
    ASSUME TypeInv, NEW g \in Goroutine, Call(g) \/ Step(g) \/ Settle(g)
    PROVE  /\ Others(g)
           /\ Quiet(g) \/ (RegisterBuild(g) /\ Hashable(req[g].password) /\ UNCHANGED db)
  <1> USE DEF TypeInv, LocalOK, Others, Quiet
  <1>0. pc[g] # "idle" => left[g] = "none"
    BY Attended
  <1>1. CASE Call(g)
    <2> USE DEF Receive, NoRequest
    <2>1. CASE RegisterCall(g)
      BY <2>1 DEF RegisterCall
    <2>2. CASE AuthenticateCall(g)
      BY <2>2 DEF AuthenticateCall
    <2>3. CASE GetCall(g)
      BY <2>3 DEF GetCall
    <2>4. CASE UpdateCall(g)
      BY <2>4 DEF UpdateCall
    <2>5. CASE DeleteCall(g)
      BY <2>5 DEF DeleteCall
    <2> QED BY <1>1, <2>1, <2>2, <2>3, <2>4, <2>5 DEF Call
  <1>2. CASE Step(g) \/ Settle(g)
    <2> USE <1>0 DEF Goto, Answer, Return, Refuse
    <2>1. CASE RegisterCheck(g)
      BY <2>1 DEF RegisterCheck
    <2>2. CASE RegisterBuild(g)
      BY <2>2 DEF RegisterBuild
    <2>3. CASE AuthenticateRead(g)
      BY <2>3 DEF AuthenticateRead
    <2>4. CASE AuthenticateIssue(g)
      BY <2>4 DEF AuthenticateIssue
    <2>5. CASE GetRead(g)
      BY <2>5 DEF GetRead
    <2>6. CASE UpdateRead(g)
      BY <2>6 DEF UpdateRead
    <2>7. CASE UpdateCheck(g)
      BY <2>7 DEF UpdateCheck
    <2>8. CASE UpdateStamp(g)
      BY <2>8 DEF UpdateStamp, db
    <2>9. CASE RegisterInsert(g) \/ UpdateWrite(g) \/ DeleteRow(g) \/ Settle(g)
      BY <2>9, EndClasses
    <2>10. CASE Abandon(g)
      BY <2>10, TypeAbandon DEF Abandon
    <2> QED BY <1>2, <2>1, <2>2, <2>3, <2>4, <2>5, <2>6, <2>7, <2>8, <2>9, <2>10 DEF Step
  <1> QED BY <1>1, <1>2

(* Only by leaving its statement does a goroutine come to have left one.   *)
LEMMA NoneLeft ==
    ASSUME TypeInv, NEW g \in Goroutine, Call(g) \/ Step(g) \/ Settle(g), ~Abandon(g)
    PROVE  left'[g] = "none"
  <1>1. CASE Call(g)
    BY <1>1 DEF Call, RegisterCall, AuthenticateCall, GetCall, UpdateCall, DeleteCall,
                Receive
  <1>2. CASE Settle(g)
    BY <1>2 DEF Settle, TypeInv, LocalOK
  <1>3. CASE Step(g)
    <2>1. pc[g] # "idle" /\ left' = left
      BY <1>3 DEF Step, RegisterCheck, RegisterBuild, RegisterInsert, UpdateRead,
           UpdateCheck, UpdateStamp, UpdateWrite, GetRead, DeleteRow, AuthenticateRead,
           AuthenticateIssue, Goto, Answer, Return, Refuse, Write
    <2> QED BY <2>1, Attended
  <1> QED BY <1>1, <1>2, <1>3

(* What any step can do to the tables.                                     *)
LEMMA TableStep ==
    ASSUME TypeInv, [Next]_vars
    PROVE  UNCHANGED db \/ \E g \in Goroutine : Inserted(g) \/ Changed(g) \/ Removed(g)
  BY StepClasses DEF Next, Quiesce, Crash, vars, Quiet

-----------------------------------------------------------------------------
(* Unique addresses.  Every statement that writes an address checks it     *)
(* against all other rows itself, so the property is inductive: what the   *)
(* earlier GetByEmail saw does not matter.                                 *)
LEMMA UniqueNext ==
    ASSUME TypeInv, EmailsUnique, [Next]_vars
    PROVE  EmailsUnique'
  <1>1. CASE UNCHANGED db
    BY <1>1 DEF EmailsUnique, db
  <1>2. ASSUME NEW g \in Goroutine, Inserted(g)
        PROVE  EmailsUnique'
    <2>1. user[g] \in User
      BY <1>2 DEF Inserted, TypeInv, Shape, Holding
    <2> QED BY <1>2, <2>1 DEF Inserted, Inserts, EmailsUnique, TypeInv, StoreOK, Table, User
  <1>3. ASSUME NEW g \in Goroutine, Changed(g)
        PROVE  EmailsUnique'
    <2>1. user[g] \in User /\ user[g].id \in UserID
      BY <1>3 DEF Changed, TypeInv, Shape, Holding, User
    <2>2. \A i \in UserID \ {user[g].id} :
             /\ users'[i] = users[i]
             /\ users[i] # NoUser => users[i].email # user[g].email
      BY <1>3, <2>1 DEF Changed, Changes, TypeInv, StoreOK, Table
    <2>3. users'[user[g].id].email = user[g].email
      BY <1>3, <2>1 DEF Changed, Changes, TypeInv, StoreOK, Table, User
    <2> QED BY <2>1, <2>2, <2>3 DEF EmailsUnique
  <1>4. ASSUME NEW g \in Goroutine, Removed(g)
        PROVE  EmailsUnique'
    BY <1>4 DEF Removed, Removes, EmailsUnique, TypeInv, StoreOK, Table
  <1> QED BY <1>1, <1>2, <1>3, <1>4, TableStep

(* No two accounts ever share an address, however many registrations and   *)
(* updates race for it.                                                    *)
THEOREM UniqueEmails == Spec => []EmailsUnique
  <1>1. Init => EmailsUnique
    BY SeedAssumption DEF Init, EmailsUnique
  <1>2. TypeInv /\ EmailsUnique /\ [Next]_vars => EmailsUnique'
    BY UniqueNext
  <1> QED BY <1>1, <1>2, TypeAlways, PTL DEF Spec

-----------------------------------------------------------------------------
(* History.  A row carries the id, hash and creation time it was born      *)
(* with; an id a registration is about to insert is minted, not yet born,  *)
(* and no other registration's.                                            *)
RowsBorn == \A id \in UserID : users[id] # NoUser =>
                /\ born[id] # NoUser
                /\ users[id].hash = born[id].hash
                /\ users[id].created = born[id].created
BornMinted == \A id \in UserID : born[id] # NoUser => id \in minted
PlanFresh == \A g \in Goroutine : At(g) = "register_insert" =>
                user[g].id \in minted /\ born[user[g].id] = NoUser
PlansDiffer == \A g, h \in Goroutine :
                  At(g) = "register_insert" /\ At(h) = "register_insert" /\ g # h
                     => user[g].id # user[h].id

History == RowsBorn /\ BornMinted /\ PlanFresh /\ PlansDiffer

(* The history invariant holds at the start, ...                           *)
LEMMA HistoryInit == Init => History
  BY SeedAssumption
     DEF Init, History, RowsBorn, BornMinted, PlanFresh, PlansDiffer

(* A step that inserts no row adds none to those that were born.           *)
LEMMA KeepRowsBorn ==
    ASSUME TypeInv, RowsBorn, NEW g \in Goroutine,
           UNCHANGED db \/ Changed(g) \/ Removed(g)
    PROVE  RowsBorn'
  <1>1. CASE UNCHANGED db
    BY <1>1 DEF RowsBorn, db
  <1>2. CASE Changed(g)
    <2>1. /\ user[g].id \in UserID /\ users[user[g].id] \in User
          /\ users[user[g].id] # NoUser
      BY <1>2 DEF Changed, Changes, TypeInv, StoreOK, Table, Shape, Holding, User
    <2> DEFINE row == [users[user[g].id] EXCEPT !.email = user[g].email,
                          !.name = user[g].name, !.updated = user[g].updated]
    <2>2. users' = [users EXCEPT ![user[g].id] = row] /\ born' = born
      BY <1>2 DEF Changed, Changes
    <2>3. /\ row.hash = users[user[g].id].hash
          /\ row.created = users[user[g].id].created
      BY <2>1 DEF User
    <2> HIDE DEF row
    <2> QED BY <2>1, <2>2, <2>3 DEF RowsBorn, TypeInv, StoreOK, Table
  <1>3. CASE Removed(g)
    BY <1>3 DEF RowsBorn, Removed, Removes, TypeInv, StoreOK, Table
  <1> QED BY <1>1, <1>2, <1>3

(* Every step but RegisterBuild, of every method.                          *)
LEMMA HistoryQuiet ==
    ASSUME TypeInv, History, NEW g \in Goroutine, Others(g), Quiet(g)
    PROVE  History'
  <1> USE DEF History
  <1>1. \A h \in Goroutine : At(h)' = "register_insert" =>
           At(h) = "register_insert" /\ user'[h] = user[h]
    BY DEF Others, Quiet
  <1>2. PlansDiffer'
    BY <1>1 DEF PlansDiffer
  <1>3. CASE Inserted(g) /\ At(g)' = "idle"
    <2>1. /\ user[g] \in User /\ user[g].id \in UserID /\ user[g].id \in minted
          /\ user[g] # NoUser
      BY <1>3, NilAssumption DEF Inserted, TypeInv, Shape, Holding, PlanFresh, User
    <2>2. /\ users'[user[g].id] = user[g] /\ born'[user[g].id] = user[g]
          /\ \A i \in UserID \ {user[g].id} : users'[i] = users[i] /\ born'[i] = born[i]
      BY <1>3, <2>1 DEF Inserted, Inserts, TypeInv, StoreOK, Table
    <2>3. RowsBorn' /\ BornMinted'
      BY <2>1, <2>2 DEF RowsBorn, BornMinted, Quiet
    <2>4. ASSUME NEW h \in Goroutine, At(h)' = "register_insert"
          PROVE  user'[h].id \in minted' /\ born'[user'[h].id] = NoUser
      <3>1. /\ user'[h].id # user[g].id /\ user'[h].id \in minted
            /\ born[user'[h].id] = NoUser /\ user'[h].id \in UserID
        BY <1>1, <1>3, <2>4 DEF Inserted, PlansDiffer, PlanFresh, TypeInv, StoreOK
      <3> QED BY <2>2, <3>1 DEF Quiet
    <2> QED BY <1>2, <2>3, <2>4 DEF PlanFresh
  <1>4. CASE UNCHANGED db \/ Changed(g) \/ Removed(g)
    <2>1. born' = born /\ minted' = minted
      BY <1>4 DEF db, Changed, Removed, Quiet
    <2>2. BornMinted' /\ PlanFresh'
      BY <1>1, <2>1 DEF BornMinted, PlanFresh
    <2>3. RowsBorn'
      BY <1>4, KeepRowsBorn
    <2> QED BY <1>2, <2>2, <2>3
  <1> QED BY <1>3, <1>4 DEF Quiet

(* RegisterBuild takes an id no one has had.                               *)
LEMMA HistoryBuild ==
    ASSUME TypeInv, History, NEW g \in Goroutine, Others(g),
           RegisterBuild(g), Hashable(req[g].password), UNCHANGED db
    PROVE  History'
  <1> USE DEF History
  <1>1. PICK id \in UserID \ minted :
           /\ minted' = minted \cup {id}
           /\ At(g)' = "register_insert" /\ user'[g].id = id
    BY Attended DEF RegisterBuild, Goto, TypeInv, LocalOK
  <1>2. born[id] = NoUser
    BY DEF BornMinted
  <1>3. \A h \in Goroutine \ {g} : At(h)' = "register_insert" =>
           /\ At(h) = "register_insert" /\ user'[h] = user[h]
           /\ user'[h].id \in minted
    BY DEF Others, PlanFresh
  <1>4. RowsBorn' /\ BornMinted'
    BY <1>1 DEF RowsBorn, BornMinted, db
  <1>5. PlanFresh'
    BY <1>1, <1>2, <1>3 DEF PlanFresh, db
  <1>6. PlansDiffer'
    BY <1>1, <1>3 DEF PlansDiffer
  <1> QED BY <1>4, <1>5, <1>6

(* ... is kept by every step, ...                                          *)
LEMMA HistoryNext ==
    ASSUME TypeInv, History, [Next]_vars
    PROVE  History'
  <1>1. CASE UNCHANGED vars
    BY <1>1 DEF vars, db, local, History, RowsBorn, BornMinted, PlanFresh, PlansDiffer
  <1>2. ASSUME NEW g \in Goroutine, Call(g) \/ Step(g) \/ Settle(g)
        PROVE  History'
    BY <1>2, StepClasses, HistoryQuiet, HistoryBuild
  <1>3. ASSUME NEW r, Crash(r)
        PROVE  History'
    <2>1. users' = users /\ born' = born /\ minted' = minted
      BY <1>3 DEF Crash, db
    <2>2. \A h \in Goroutine : At(h)' = "register_insert" =>
             At(h) = "register_insert" /\ user'[h] = user[h]
      BY <1>3, CrashAt
    <2> QED BY <2>1, <2>2 DEF History, RowsBorn, BornMinted, PlanFresh, PlansDiffer
  <1> QED BY <1>1, <1>2, <1>3 DEF Next, Quiesce

(* ... and so always holds.                                                *)
LEMMA HistoryAlways == Spec => [](TypeInv /\ History)
  <1>1. TypeInv /\ History /\ [Next]_vars => (TypeInv /\ History)'
    BY TypeNext, HistoryNext
  <1> QED BY <1>1, TypeInit, HistoryInit, PTL DEF Spec

(* A deleted account never comes back: an Update writes only a row that is *)
(* there, and a Register only under an id that never named a row.          *)
THEOREM DeletedForGood == Spec => StaysDeleted
  <1> DEFINE Gone == \A id \in UserID : born[id] # NoUser /\ users[id] = NoUser
                                            => users'[id] = NoUser
  <1>1. TypeInv /\ History /\ [Next]_vars => Gone
    <2> SUFFICES ASSUME TypeInv, History, [Next]_vars,
                        NEW id \in UserID, born[id] # NoUser, users[id] = NoUser
                 PROVE  users'[id] = NoUser
      OBVIOUS
    <2>1. CASE UNCHANGED db
      BY <2>1 DEF db
    <2>2. ASSUME NEW g \in Goroutine, Inserted(g)
          PROVE  users'[id] = NoUser
      BY <2>2 DEF Inserted, Inserts, History, PlanFresh, TypeInv, StoreOK, Table
    <2>3. ASSUME NEW g \in Goroutine, Changed(g)
          PROVE  users'[id] = NoUser
      BY <2>3 DEF Changed, Changes, TypeInv, StoreOK, Table
    <2>4. ASSUME NEW g \in Goroutine, Removed(g)
          PROVE  users'[id] = NoUser
      BY <2>4 DEF Removed, Removes, TypeInv, StoreOK, Table
    <2> QED BY <2>1, <2>2, <2>3, <2>4, TableStep
  <1>2. [](TypeInv /\ History) /\ [][Next]_vars => [][Gone]_vars
    BY <1>1, PTL
  <1> QED BY <1>2, HistoryAlways, PTL DEF Spec, StaysDeleted

-----------------------------------------------------------------------------
(* Valid rows.  A row about to be written is valid already, whichever of   *)
(* the two sets of rules let its fields in.                                *)
ValidFields(u) == /\ u.email.tidy /\ u.email.text \in WithAt
                  /\ Bytes(u.name) > 0 /\ Bytes(u.name) <= 100

PlanValid(g) ==
    /\ At(g) = "register_build" => ValidateRegister(req[g])
    /\ At(g) = "update_check" => ValidUpdate(req[g])
    /\ At(g) \in {"register_insert", "update_check", "update_stamp", "update_write"} =>
          ValidFields(user[g])

StoredFields == \A id \in UserID : users[id] # NoUser => ValidFields(users[id])

(* What the two rules of the domain say of the fields they let in.         *)
LEMMA ValidMeans ==
    /\ \A e \in Email : ValidEmail(NormalizeEmail(e)) =>
          NormalizeEmail(e).tidy /\ NormalizeEmail(e).text \in WithAt
    /\ \A n \in Name : ValidName(n) => Bytes(n) > 0 /\ Bytes(n) <= 100
  <1>1. \A e \in Email : NormalizeEmail(e).tidy
    BY DEF Email, NormalizeEmail
  <1>2. \A e \in Email : ValidEmail(NormalizeEmail(e)) => NormalizeEmail(e).text \in WithAt
    BY DEF ValidEmail
  <1>3. \A n \in Name : ValidName(n) => Bytes(n) > 0 /\ Bytes(n) <= 100
    BY DEF ValidName
  <1> QED BY <1>1, <1>2, <1>3

(* What a goroutine is about to write stays valid as it moves.             *)
LEMMA PlanValidStep ==
    ASSUME TypeInv, StoredFields, NEW g \in Goroutine, PlanValid(g),
           Call(g) \/ Step(g) \/ Settle(g)
    PROVE  PlanValid(g)'
  <1>0. CASE Abandon(g)
    BY <1>0, TypeAbandon DEF Abandon, PlanValid
  <1> SUFFICES ASSUME ~Abandon(g) PROVE PlanValid(g)'
    BY <1>0
  <1>a. left'[g] = "none"
    BY NoneLeft
  <1>b. pc[g] # "idle" => left[g] = "none"
    BY Attended
  <1> USE <1>a, <1>b DEF TypeInv, LocalOK
  <1>1. CASE Call(g)
    <2>1. pc'[g] \in Op
      BY <1>1 DEF Call, RegisterCall, AuthenticateCall, GetCall, UpdateCall, DeleteCall,
                  Receive, NoRequest, Op
    <2> QED BY <2>1 DEF PlanValid, Op
  <1>2. CASE RegisterCheck(g)
    BY <1>2 DEF RegisterCheck, Refuse, Return, Answer, Goto, PlanValid
  <1>3. CASE RegisterBuild(g)
    <2>1. CASE ~Hashable(req[g].password)
      BY <1>3, <2>1 DEF RegisterBuild, Refuse, Return, Answer, PlanValid
    <2>2. CASE Hashable(req[g].password)
      <3>1. /\ pc'[g] = "register_insert"
            /\ user'[g].email = NormalizeEmail(req[g].email)
            /\ user'[g].name = TrimSpace(req[g].name)
        BY <1>3, <2>2 DEF RegisterBuild, Goto
      <3>2. /\ req[g].email \in Email /\ TrimSpace(req[g].name) \in Name
            /\ ValidateRegister(req[g])
        BY <1>3, NormalType DEF RegisterBuild, Shape, Registering, PlanValid
      <3>3. /\ NormalizeEmail(req[g].email).tidy
            /\ NormalizeEmail(req[g].email).text \in WithAt
        BY <3>2, ValidMeans DEF ValidateRegister
      <3>4. /\ Bytes(TrimSpace(req[g].name)) > 0
            /\ Bytes(TrimSpace(req[g].name)) <= 100
        BY <3>2, ValidMeans DEF ValidateRegister
      <3>5. ValidFields(user'[g])
        BY <3>1, <3>3, <3>4 DEF ValidFields
      <3> QED BY <3>1, <3>5 DEF PlanValid
    <2> QED BY <2>1, <2>2
  <1>4. CASE UpdateRead(g)
    <2>1. CASE pc'[g] = "idle"
      BY <2>1 DEF PlanValid
    <2>2. CASE pc'[g] # "idle"
      <3>1. PICK a \in GetByID(users, req[g].id) :
               /\ a.err = "nil" /\ ValidUpdate(req[g]) /\ req' = req
               /\ pc'[g] \in {"update_stamp", "update_check"}
               /\ user'[g] = IF req[g].name = Nil THEN a.user
                             ELSE [a.user EXCEPT !.name = req[g].name]
        BY <1>4, <2>2 DEF UpdateRead, Refuse, Return, Answer, Goto
      <3>2. a.user \in User /\ ValidFields(a.user)
        BY <3>1, ReadOutcome, NilAssumption DEF StoredFields, StoreOK
      <3>3. req[g].name # Nil => req[g].name \in Name /\ ValidName(req[g].name)
        BY <3>1 DEF Request, ValidUpdate
      <3>4. ValidFields(user[g])'
        BY <3>1, <3>2, <3>3, ValidMeans DEF ValidFields, User
      <3> QED BY <3>1, <3>4 DEF PlanValid
    <2> QED BY <2>1, <2>2
  <1>5. CASE UpdateCheck(g)
    <2>1. CASE pc'[g] = "idle"
      BY <2>1 DEF PlanValid
    <2>2. CASE pc'[g] # "idle"
      <3>1. /\ pc'[g] = "update_stamp"
            /\ user'[g] = [user[g] EXCEPT !.email = NormalizeEmail(req[g].email)]
        BY <1>5, <2>2 DEF UpdateCheck, Refuse, Return, Answer, Goto
      <3>2. /\ user[g] \in User /\ ValidFields(user[g]) /\ req[g].email \in Email
            /\ req[g].email # Nil /\ ValidUpdate(req[g])
        BY <1>5, NilAssumption DEF UpdateCheck, Shape, Holding, PlanValid
      <3>3. ValidFields(user[g])'
        BY <3>1, <3>2, ValidMeans DEF ValidFields, ValidUpdate, User
      <3> QED BY <3>1, <3>3 DEF PlanValid
    <2> QED BY <2>1, <2>2
  <1>6. CASE UpdateStamp(g)
    <2>1. PICK t : /\ pc'[g] = "update_write"
                   /\ user'[g] = [user[g] EXCEPT !.updated = t]
      BY <1>6 DEF UpdateStamp, Goto
    <2>2. user[g] \in User /\ ValidFields(user[g])
      BY <1>6 DEF UpdateStamp, Shape, Holding, PlanValid
    <2>3. ValidFields(user[g])'
      BY <2>1, <2>2 DEF ValidFields, User
    <2> QED BY <2>1, <2>3 DEF PlanValid
  <1>7. CASE \/ RegisterInsert(g) \/ UpdateWrite(g) \/ DeleteRow(g) \/ Settle(g)
             \/ AuthenticateRead(g) \/ AuthenticateIssue(g) \/ GetRead(g)
    <2>1. CASE Settle(g)
      BY <2>1, EndClasses DEF PlanValid
    <2>2. CASE ~Settle(g)
      <3>1. pc'[g] \in {"idle", "auth_issue"}
        BY <1>7, <2>2 DEF RegisterInsert, UpdateWrite, DeleteRow, AuthenticateRead,
                    AuthenticateIssue, GetRead, Write, Refuse, Return, Answer, Goto
      <3> QED BY <3>1 DEF PlanValid
    <2> QED BY <2>1, <2>2
  <1> QED BY <1>1, <1>2, <1>3, <1>4, <1>5, <1>6, <1>7 DEF Step

(* What is written is valid, so what is stored stays valid.                *)
LEMMA StoredFieldsNext ==
    ASSUME TypeInv, StoredFields, \A g \in Goroutine : PlanValid(g), [Next]_vars
    PROVE  StoredFields'
  <1>1. CASE UNCHANGED db
    BY <1>1 DEF StoredFields, db
  <1>2. ASSUME NEW g \in Goroutine, Inserted(g)
        PROVE  StoredFields'
    <2>1. user[g] \in User /\ user[g].id \in UserID /\ ValidFields(user[g])
      BY <1>2 DEF Inserted, TypeInv, Shape, Holding, PlanValid, User
    <2> QED BY <1>2, <2>1 DEF Inserted, Inserts, StoredFields, TypeInv, StoreOK, Table
  <1>3. ASSUME NEW g \in Goroutine, Changed(g)
        PROVE  StoredFields'
    <2>1. user[g] \in User /\ user[g].id \in UserID /\ ValidFields(user[g])
      BY <1>3 DEF Changed, TypeInv, Shape, Holding, PlanValid, User
    <2> DEFINE row == [users[user[g].id] EXCEPT !.email = user[g].email,
                          !.name = user[g].name, !.updated = user[g].updated]
    <2>2. users[user[g].id] \in User /\ users' = [users EXCEPT ![user[g].id] = row]
      BY <1>3, <2>1 DEF Changed, Changes, TypeInv, StoreOK, Table
    <2>3. row.email = user[g].email /\ row.name = user[g].name
      BY <2>2 DEF User
    <2> HIDE DEF row
    <2>4. ValidFields(row)
      BY <2>1, <2>3 DEF ValidFields
    <2> QED BY <2>1, <2>2, <2>4 DEF StoredFields, TypeInv, StoreOK, Table
  <1>4. ASSUME NEW g \in Goroutine, Removed(g)
        PROVE  StoredFields'
    BY <1>4 DEF Removed, Removes, StoredFields, TypeInv, StoreOK, Table
  <1> QED BY <1>1, <1>2, <1>3, <1>4, TableStep

(* Every row ever stored is valid.                                         *)
THEOREM RowsValid == Spec => []StoredValid
  <1> DEFINE Valid == StoredFields /\ \A g \in Goroutine : PlanValid(g)
  <1>1. Init => Valid
    <2> SUFFICES ASSUME Init PROVE Valid
      OBVIOUS
    <2>1. StoredFields
      <3> SUFFICES ASSUME NEW id \in UserID, users[id] # NoUser
                   PROVE  ValidFields(users[id])
        BY DEF StoredFields
      <3>1. users[id] \in User /\ ValidRow(users[id])
        BY SeedAssumption DEF Init, Table
      <3> QED BY <3>1, ValidMeans DEF ValidRow, ValidEmail, ValidFields, User
    <2>2. \A g \in Goroutine : PlanValid(g)
      BY DEF Init, PlanValid
    <2> QED BY <2>1, <2>2
  <1>2. TypeInv /\ Valid /\ [Next]_vars => Valid'
    <2> SUFFICES ASSUME TypeInv, Valid, [Next]_vars PROVE \A g \in Goroutine : PlanValid(g)'
      BY StoredFieldsNext
    <2>1. CASE UNCHANGED vars
      BY <2>1 DEF vars, local, PlanValid
    <2>2. ASSUME NEW g \in Goroutine, Call(g) \/ Step(g) \/ Settle(g)
          PROVE  \A h \in Goroutine : PlanValid(h)'
      <3>1. PlanValid(g)' /\ Others(g)
        BY <2>2, PlanValidStep, StepClasses
      <3> QED BY <3>1 DEF Others, PlanValid
    <2>3. ASSUME NEW r, Crash(r)
          PROVE  \A g \in Goroutine : PlanValid(g)'
      BY <2>3, CrashAt DEF PlanValid
    <2> QED BY <2>1, <2>2, <2>3 DEF Next, Quiesce
  <1>3. Valid => StoredValid
    BY DEF StoredFields, ValidFields, StoredValid
  <1> QED BY <1>1, <1>2, <1>3, TypeAlways, PTL DEF Spec

-----------------------------------------------------------------------------
(* Tokens.  A login that has accepted a password holds the row of an       *)
(* account born with that password, and what an account was born with      *)
(* never changes.                                                          *)
Owns(b, id, password) == b[id] # NoUser /\ Matches(b[id].hash, password)

Accepted(g) == /\ pc[g] = "auth_issue" => Owns(born, user[g].id, req[g].password)
               /\ reply[g] # NoReply /\ reply[g].token # Nil =>
                     Owns(born, reply[g].token.sub, req[g].password)

(* An account keeps the row it was born with.                              *)
LEMMA BornStays ==
    ASSUME TypeInv, History, [Next]_vars, NEW id \in UserID, born[id] # NoUser
    PROVE  born'[id] = born[id]
  BY TableStep DEF Inserted, Changed, Removed, History, PlanFresh, db,
                   TypeInv, StoreOK, Table

(* A goroutine that does not move loses nothing.                           *)
LEMMA AcceptedStays ==
    ASSUME TypeInv, History, [Next]_vars, NEW g \in Goroutine, Accepted(g),
           pc'[g] = pc[g], pc[g] = "auth_issue" => user'[g] = user[g],
           req'[g] = req[g], reply'[g] = reply[g]
    PROVE  Accepted(g)'
  <1> USE DEF TypeInv, LocalOK
  <1>1. CASE pc[g] = "auth_issue"
    <2>1. user[g].id \in UserID
      BY <1>1 DEF Shape, Holding, User
    <2> QED BY <1>1, <2>1, BornStays DEF Accepted, Owns, Reply, Token
  <1>2. CASE pc[g] # "auth_issue"
    <2>1. CASE reply[g] # NoReply /\ reply[g].token # Nil
      <3>1. reply[g].token.sub \in UserID
        BY <2>1 DEF Reply, Token
      <3> QED BY <1>2, <2>1, <3>1, BornStays DEF Accepted, Owns
    <2>2. CASE ~(reply[g] # NoReply /\ reply[g].token # Nil)
      BY <1>2, <2>2 DEF Accepted
    <2> QED BY <2>1, <2>2
  <1> QED BY <1>1, <1>2

(* Only AuthenticateRead accepts a password, and only AuthenticateIssue    *)
(* answers with a token.                                                   *)
LEMMA AcceptedStep ==
    ASSUME TypeInv, History, NEW g \in Goroutine, Accepted(g),
           Call(g) \/ Step(g) \/ Settle(g)
    PROVE  Accepted(g)'
  <1> USE DEF TypeInv
  <1>1. CASE Call(g)
    <2>1. reply'[g] = NoReply /\ pc'[g] \in Op
      BY <1>1 DEF Call, RegisterCall, AuthenticateCall, GetCall, UpdateCall, DeleteCall,
                  Receive, NoRequest, Op, LocalOK
    <2> QED BY <2>1 DEF Accepted, Op
  <1>2. CASE AuthenticateRead(g) /\ pc'[g] # "idle"
    <2>1. PICK a \in GetByEmail(users, NormalizeEmail(req[g].email)) :
             /\ a.err = "nil" /\ Matches(a.user.hash, req[g].password)
             /\ Goto(g, "auth_issue", a.user)
      BY <1>2 DEF AuthenticateRead, Refuse, Return, Answer, LocalOK
    <2>2. PICK i \in UserID : a.user = users[i] /\ a.user \in User
      BY <2>1, ReadOutcome DEF StoreOK
    <2>3. a.user.id = i /\ born[i] # NoUser /\ born[i].hash = a.user.hash
      BY <2>2, NilAssumption DEF StoreOK, History, RowsBorn
    <2>4. born' = born /\ user'[g] = a.user /\ req' = req /\ reply' = reply
      BY <1>2, <2>1 DEF AuthenticateRead, Goto, LocalOK, db
    <2>5. Owns(born', user'[g].id, req'[g].password)
      BY <2>1, <2>3, <2>4 DEF Owns
    <2> QED BY <2>4, <2>5 DEF Accepted
  <1>3. CASE AuthenticateIssue(g) /\ reply'[g].token # Nil
    <2>1. /\ Owns(born, user[g].id, req[g].password)
          /\ pc'[g] = "idle" /\ req' = req /\ born' = born
          /\ reply'[g].token.sub = user[g].id
      BY <1>3 DEF AuthenticateIssue, Refuse, Return, Answer, LocalOK, Accepted, db
    <2> QED BY <2>1 DEF Accepted
  <1>4. CASE Step(g) /\ ~(AuthenticateRead(g) /\ pc'[g] # "idle")
                     /\ ~(AuthenticateIssue(g) /\ reply'[g].token # Nil)
    <2>1. pc'[g] # "auth_issue" /\ (reply'[g] = reply[g] \/ reply'[g].token = Nil)
      <3> USE DEF Goto, Answer, Return, Refuse, Write, LocalOK
      <3>1. CASE RegisterCheck(g) \/ RegisterBuild(g) \/ RegisterInsert(g)
        BY <3>1 DEF RegisterCheck, RegisterBuild, RegisterInsert
      <3>2. CASE UpdateRead(g) \/ UpdateCheck(g) \/ UpdateStamp(g) \/ UpdateWrite(g)
        BY <3>2 DEF UpdateRead, UpdateCheck, UpdateStamp, UpdateWrite
      <3>3. CASE GetRead(g) \/ DeleteRow(g)
        BY <3>3 DEF GetRead, DeleteRow
      <3>4. CASE AuthenticateRead(g)
        BY <1>4, <3>4 DEF AuthenticateRead
      <3>5. CASE AuthenticateIssue(g)
        BY <1>4, <3>5 DEF AuthenticateIssue
      <3>6. CASE Abandon(g)
        BY <3>6 DEF Abandon
      <3> QED BY <1>4, <3>1, <3>2, <3>3, <3>4, <3>5, <3>6 DEF Step
    <2>2. req'[g] = req[g]
      BY <1>4 DEF Step, RegisterCheck, RegisterBuild, RegisterInsert, UpdateRead,
           UpdateCheck, UpdateStamp, UpdateWrite, GetRead, DeleteRow, AuthenticateRead,
           AuthenticateIssue, Abandon, Goto, Answer, Return, Refuse, Write
    <2>3. CASE reply'[g] = reply[g] /\ reply[g] # NoReply /\ reply[g].token # Nil
      <3>1. reply[g].token.sub \in UserID
        BY <2>3 DEF LocalOK, Reply, Token
      <3>2. [Next]_vars
        BY <1>4 DEF Next
      <3> QED BY <2>1, <2>2, <2>3, <3>1, <3>2, BornStays DEF Accepted, Owns
    <2> QED BY <2>1, <2>3 DEF Accepted
  <1>5. CASE Settle(g)
    <2>1. pc[g] = "idle" /\ pc' = pc /\ req' = req /\ reply' = reply
      BY <1>5 DEF Settle, Shape
    <2>2. [Next]_vars
      BY <1>5 DEF Next
    <2> QED BY <2>1, <2>2, AcceptedStays
  <1> QED BY <1>1, <1>2, <1>3, <1>4, <1>5

(* Every token ever issued names an account whose password was presented.  *)
THEOREM TokensSound == Spec => []TokenSound
  <1> DEFINE AllAccepted == \A g \in Goroutine : Accepted(g)
  <1>1. Init => AllAccepted
    BY DEF Init, Accepted
  <1>2. TypeInv /\ History /\ AllAccepted /\ [Next]_vars => AllAccepted'
    <2> SUFFICES ASSUME TypeInv, History, AllAccepted, [Next]_vars
                 PROVE  AllAccepted'
      OBVIOUS
    <2>1. CASE UNCHANGED vars
      BY <2>1, AcceptedStays DEF vars, local
    <2>2. ASSUME NEW g \in Goroutine, Call(g) \/ Step(g) \/ Settle(g)
          PROVE  AllAccepted'
      BY <2>2, AcceptedStep, AcceptedStays, StepClasses DEF Others
    <2>3. ASSUME NEW r, Crash(r)
          PROVE  AllAccepted'
      <3>1. ASSUME NEW g \in Goroutine, Host[g] = r
            PROVE  Accepted(g)'
        BY <2>3, <3>1 DEF Crash, Accepted
      <3>2. ASSUME NEW g \in Goroutine, Host[g] # r
            PROVE  Accepted(g)'
        BY <2>3, <3>2, AcceptedStays, CrashAt
      <3> QED BY <3>1, <3>2
    <2> QED BY <2>1, <2>2, <2>3 DEF Next, Quiesce
  <1>3. AllAccepted => TokenSound
    BY DEF Accepted, Owns, TokenSound
  <1> QED BY <1>1, <1>2, <1>3, HistoryAlways, PTL DEF Spec

-----------------------------------------------------------------------------
(* Honest answers.                                                         *)
Honest(g) ==
    reply[g] # NoReply /\ req[g].op \in {"register", "update", "delete"} =>
        /\ reply[g].err = "nil" => wrote[g] = "row"
        /\ reply[g].err \notin {"nil", "internal"} => wrote[g] = "none"
        /\ reply[g].err = "nil" /\ req[g].op = "register" =>
              reply[g].user \in User /\ born[reply[g].user.id] = reply[g].user

(* An answer once given stays honest, since no row is born twice.          *)
LEMMA HonestStays ==
    ASSUME TypeInv, History, [Next]_vars, NEW g \in Goroutine, Honest(g),
           req'[g] = req[g], reply'[g] = reply[g], wrote'[g] = wrote[g]
    PROVE  Honest(g)'
  <1>1. ASSUME reply[g].user \in User, born[reply[g].user.id] = reply[g].user
        PROVE  born'[reply[g].user.id] = reply[g].user
    <2>1. reply[g].user.id \in UserID /\ born[reply[g].user.id] # NoUser
      BY <1>1, NilAssumption DEF User
    <2> QED BY <1>1, <2>1, BornStays
  <1> QED BY <1>1 DEF Honest

(* The three write steps report what their statement did.                  *)
LEMMA HonestWrite ==
    ASSUME TypeInv, NEW g \in Goroutine,
           RegisterInsert(g) \/ UpdateWrite(g) \/ DeleteRow(g)
    PROVE  Honest(g)'
  <1>1. PICK w : Ends(g, w) /\ Write(g, w, IF At(g) = "delete" THEN NoUser ELSE user[g])
    BY WriteEnds
  <1>2. /\ w.wrote \in {"none", "row"}
        /\ w.err = "nil" => w.wrote = "row"
        /\ w.err \notin {"nil", "internal"} => w.wrote = "none"
    BY <1>1, EndsOutcome
  <1>3. /\ wrote'[g] = w.wrote /\ reply'[g].err = w.err /\ req'[g] = req[g]
        /\ w.err = "nil" => reply'[g].user = IF At(g) = "delete" THEN NoUser ELSE user[g]
    BY <1>1 DEF Write, Answer, TypeInv, LocalOK
  <1>4. CASE At(g) = "register_insert"
    <2>1. user[g] \in User /\ user[g].id \in UserID
      BY <1>4 DEF TypeInv, Shape, Holding, User
    <2>2. w.wrote = "row" => born'[user[g].id] = user[g]
      BY <1>1, <1>4, <2>1 DEF Ends, TypeInv, StoreOK, Table
    <2> QED BY <1>2, <1>3, <1>4, <2>1, <2>2 DEF Honest
  <1>5. CASE At(g) \in {"update_write", "delete"}
    <2>1. req[g].op \in {"update", "delete"}
      BY <1>5 DEF TypeInv, Shape, Updating
    <2> QED BY <1>2, <1>3, <2>1 DEF Honest
  <1> QED BY <1>1, <1>4, <1>5 DEF Ends

(* The other steps give no answer, refuse before any statement ran, or     *)
(* answer a call that writes nothing; and of a statement it has left, a    *)
(* method said nothing.                                                    *)
LEMMA HonestStep ==
    ASSUME TypeInv, History, NEW g \in Goroutine, Honest(g),
           Call(g) \/ Step(g) \/ Settle(g)
    PROVE  Honest(g)'
  <1> USE DEF TypeInv
  <1>0. [Next]_vars
    BY DEF Next
  <1>1. CASE Call(g)
    <2>1. reply'[g] = NoReply
      BY <1>1 DEF Call, RegisterCall, AuthenticateCall, GetCall, UpdateCall, DeleteCall,
                  Receive, LocalOK
    <2> QED BY <2>1 DEF Honest
  <1>2. CASE RegisterInsert(g) \/ UpdateWrite(g) \/ DeleteRow(g)
    BY <1>2, HonestWrite
  <1>3. CASE AuthenticateRead(g) \/ AuthenticateIssue(g) \/ GetRead(g)
    <2>1. req'[g] = req[g] /\ req[g].op \in {"auth", "get"}
      BY <1>3 DEF AuthenticateRead, AuthenticateIssue, GetRead, Refuse, Return, Answer,
                  Goto, Shape
    <2> QED BY <2>1 DEF Honest
  <1>4. CASE \/ RegisterCheck(g) \/ RegisterBuild(g)
             \/ UpdateRead(g) \/ UpdateCheck(g) \/ UpdateStamp(g)
    <2>1. /\ wrote'[g] = "none" /\ wrote[g] = "none" /\ req'[g] = req[g]
          /\ reply'[g] = reply[g] \/ reply'[g].err # "nil"
      <3> USE DEF Refuse, Return, Answer, Goto, LocalOK, Shape
      <3>1. CASE RegisterCheck(g)
        BY <3>1 DEF RegisterCheck
      <3>2. CASE RegisterBuild(g)
        BY <3>2 DEF RegisterBuild
      <3>3. CASE UpdateRead(g)
        BY <3>3 DEF UpdateRead
      <3>4. CASE UpdateCheck(g)
        BY <3>4 DEF UpdateCheck
      <3>5. CASE UpdateStamp(g)
        BY <3>5 DEF UpdateStamp
      <3> QED BY <1>4, <3>1, <3>2, <3>3, <3>4, <3>5
    <2>2. CASE reply'[g] = reply[g]
      BY <1>0, <2>1, <2>2, HonestStays
    <2>3. CASE reply'[g].err # "nil"
      BY <2>1, <2>3 DEF Honest
    <2> QED BY <2>1, <2>2, <2>3
  <1>5. CASE Abandon(g)
    <2>1. reply'[g].err = "internal"
      BY <1>5 DEF Abandon, LocalOK
    <2> QED BY <2>1 DEF Honest
  <1>6. CASE Settle(g)
    <2>1. reply'[g] = NoReply \/ reply'[g].err = "internal"
      BY <1>6 DEF Settle, Shape
    <2> QED BY <2>1 DEF Honest
  <1> QED BY <1>1, <1>2, <1>3, <1>4, <1>5, <1>6 DEF Step

(* Every answer tells the truth about the write behind it.                 *)
THEOREM AnswersHonest == Spec => []HonestAnswers
  <1> DEFINE AllHonest == \A g \in Goroutine : Honest(g)
  <1>1. Init => AllHonest
    BY DEF Init, Honest
  <1>2. TypeInv /\ History /\ AllHonest /\ [Next]_vars => AllHonest'
    <2> SUFFICES ASSUME TypeInv, History, AllHonest, [Next]_vars
                 PROVE  AllHonest'
      OBVIOUS
    <2>1. CASE UNCHANGED vars
      BY <2>1, HonestStays DEF vars, local
    <2>2. ASSUME NEW g \in Goroutine, Call(g) \/ Step(g) \/ Settle(g)
          PROVE  AllHonest'
      BY <2>2, HonestStep, HonestStays, StepClasses DEF Others
    <2>3. ASSUME NEW r, Crash(r)
          PROVE  AllHonest'
      <3>1. ASSUME NEW g \in Goroutine, Host[g] = r
            PROVE  Honest(g)'
        BY <2>3, <3>1 DEF Crash, Honest
      <3>2. ASSUME NEW g \in Goroutine, Host[g] # r
            PROVE  Honest(g)'
        BY <2>3, <3>2, HonestStays, CrashAt
      <3> QED BY <3>1, <3>2
    <2> QED BY <2>1, <2>2, <2>3 DEF Next, Quiesce
  <1>3. AllHonest => HonestAnswers
    BY DEF Honest, HonestAnswers
  <1> QED BY <1>1, <1>2, <1>3, HistoryAlways, PTL DEF Spec

-----------------------------------------------------------------------------
(***************************************************************************)
(* The directory: every step of a goroutine is one it allows to a client,  *)
(* or leaves it as it was.                                                 *)
(***************************************************************************)

(* What a goroutine carries from one statement to the next.  A             *)
(* registration has a row made of its arguments, which were found valid;   *)
(* an update has a copy of the account it was asked for, as born but for   *)
(* the columns that change, with the new fields set on it; the address is  *)
(* set once it was looked up.                                              *)
Planned(g) ==
    /\ At(g) \in {"register_build", "register_insert"} => ValidateRegister(req[g])
    /\ At(g) = "register_insert" =>
          /\ Hashable(req[g].password)
          /\ user[g].email = NormalizeEmail(req[g].email)
          /\ user[g].name = TrimSpace(req[g].name)
          /\ user[g].hash = req[g].password
          /\ user[g].updated = user[g].created

Copying == {"update_check", "update_stamp", "update_write"}

Copied(g) ==
    At(g) \in Copying =>
        /\ user[g].id = req[g].id /\ born[req[g].id] # NoUser
        /\ user[g].hash = born[req[g].id].hash
        /\ user[g].created = born[req[g].id].created
        /\ req[g].name # Nil => user[g].name = req[g].name
        /\ req[g].email # Nil /\ At(g) # "update_check" =>
              user[g].email = NormalizeEmail(req[g].email)

(* Every account was born with the hash of a password of 8 bytes or more,  *)
(* as ValidateRegister requires.                                           *)
HashesLong == \A id \in UserID : born[id] # NoUser => PasswordLen[born[id].hash] >= 8

Carried == HashesLong /\ \A g \in Goroutine : Planned(g) /\ Copied(g)

(* A goroutine that does not move keeps what it carries: what an account   *)
(* was born with never changes.                                            *)
LEMMA CarriedStays ==
    ASSUME TypeInv, History, [Next]_vars, NEW g \in Goroutine, Planned(g), Copied(g),
           At(g)' # "idle" => At(g)' = At(g) /\ user'[g] = user[g],
           req'[g] = req[g]
    PROVE  (Planned(g) /\ Copied(g))'
  <1>1. Planned(g)'
    BY DEF Planned
  <1>2. CASE At(g)' \in Copying
    <2>1. At(g) \in Copying /\ req[g].id \in UserID
      BY <1>2 DEF TypeInv, Shape, Updating, Copying
    <2>2. born'[req[g].id] = born[req[g].id]
      BY <2>1, BornStays DEF Copied
    <2> QED BY <1>1, <1>2, <2>1, <2>2 DEF Copied, Copying
  <1>3. CASE At(g)' \notin Copying
    BY <1>1, <1>3 DEF Copied
  <1> QED BY <1>2, <1>3

(* RegisterCheck lets only valid arguments through, and RegisterBuild      *)
(* makes the row of them.                                                  *)
LEMMA PlannedStep ==
    ASSUME TypeInv, NEW g \in Goroutine, Planned(g),
           Call(g) \/ Step(g) \/ Settle(g), ~Abandon(g)
    PROVE  Planned(g)'
  <1>a. left'[g] = "none"
    BY NoneLeft
  <1>b. pc[g] # "idle" => left[g] = "none"
    BY Attended
  <1>c. Settle(g) => pc'[g] = "idle"
    BY DEF Settle, TypeInv, Shape
  <1> USE <1>a, <1>b DEF TypeInv, LocalOK
  <1>1. CASE Call(g)
    <2>1. pc'[g] \in Op
      BY <1>1 DEF Call, RegisterCall, AuthenticateCall, GetCall, UpdateCall, DeleteCall,
                  Receive, NoRequest, Op
    <2> QED BY <2>1 DEF Planned, Op
  <1>2. CASE RegisterCheck(g)
    BY <1>2 DEF RegisterCheck, Refuse, Return, Answer, Goto, Planned
  <1>3. CASE RegisterBuild(g) /\ pc'[g] # "idle"
    <2>1. /\ pc[g] = "register_build" /\ pc'[g] = "register_insert" /\ req' = req
          /\ Hashable(req[g].password)
          /\ user'[g].email = NormalizeEmail(req[g].email)
          /\ user'[g].name = TrimSpace(req[g].name)
          /\ user'[g].hash = req[g].password
          /\ user'[g].updated = user'[g].created
      BY <1>3 DEF RegisterBuild, Refuse, Return, Answer, Goto
    <2> QED BY <2>1 DEF Planned
  <1>4. CASE /\ Step(g) \/ Settle(g)
             /\ ~RegisterCheck(g) /\ ~(RegisterBuild(g) /\ pc'[g] # "idle")
    <2>1. pc'[g] \notin {"register_build", "register_insert"}
      BY <1>4, <1>c DEF Step, RegisterBuild, RegisterInsert, UpdateRead,
           UpdateCheck, UpdateStamp, UpdateWrite, GetRead, DeleteRow, AuthenticateRead,
           AuthenticateIssue, Goto, Answer, Return, Refuse, Write
    <2> QED BY <2>1 DEF Planned
  <1> QED BY <1>1, <1>2, <1>3, <1>4

(* UpdateRead makes the copy and sets the new name on it; UpdateCheck sets *)
(* the new address, which an update that skips it finds on the copy.       *)
LEMMA CopiedStep ==
    ASSUME TypeInv, History, NEW g \in Goroutine, Copied(g),
           Call(g) \/ Step(g) \/ Settle(g), ~Abandon(g)
    PROVE  Copied(g)'
  <1>a. left'[g] = "none"
    BY NoneLeft
  <1>b. pc[g] # "idle" => left[g] = "none"
    BY Attended
  <1>c. Settle(g) => pc'[g] = "idle"
    BY DEF Settle, TypeInv, Shape
  <1> USE <1>a, <1>b DEF TypeInv, LocalOK
  <1>1. CASE Call(g)
    <2>1. pc'[g] \in Op
      BY <1>1 DEF Call, RegisterCall, AuthenticateCall, GetCall, UpdateCall, DeleteCall,
                  Receive, NoRequest, Op
    <2> QED BY <2>1 DEF Copied, Copying, Op
  <1>2. CASE UpdateRead(g) /\ pc'[g] # "idle"
    <2>1. PICK a \in GetByID(users, req[g].id) :
             /\ a.err = "nil" /\ req' = req /\ born' = born
             /\ pc'[g] = IF req[g].email = Nil \/ NormalizeEmail(req[g].email) = a.user.email
                         THEN "update_stamp" ELSE "update_check"
             /\ user'[g] = IF req[g].name = Nil THEN a.user
                           ELSE [a.user EXCEPT !.name = req[g].name]
      BY <1>2 DEF UpdateRead, Refuse, Return, Answer, Goto, db
    <2>2. PICK i \in UserID : a.user = users[i] /\ a.user \in User /\ a.user.id = req[g].id
      BY <2>1, ReadOutcome DEF StoreOK
    <2>3. /\ i = req[g].id /\ born[i] # NoUser
          /\ a.user.hash = born[i].hash /\ a.user.created = born[i].created
      BY <2>2, NilAssumption DEF StoreOK, History, RowsBorn
    <2>4. /\ user'[g].id = a.user.id /\ user'[g].hash = a.user.hash
          /\ user'[g].created = a.user.created /\ user'[g].email = a.user.email
          /\ req[g].name # Nil => user'[g].name = req[g].name
      BY <2>1, <2>2 DEF User
    <2> QED BY <2>1, <2>2, <2>3, <2>4 DEF Copied, Copying
  <1>3. CASE UpdateCheck(g) /\ pc'[g] # "idle"
    <2>1. /\ pc[g] = "update_check" /\ pc'[g] = "update_stamp"
          /\ user'[g] = [user[g] EXCEPT !.email = NormalizeEmail(req[g].email)]
          /\ req' = req /\ born' = born /\ user[g] \in User
      BY <1>3 DEF UpdateCheck, Refuse, Return, Answer, Goto, db, Shape, Holding
    <2>2. /\ user'[g].id = user[g].id /\ user'[g].hash = user[g].hash
          /\ user'[g].created = user[g].created /\ user'[g].name = user[g].name
          /\ user'[g].email = NormalizeEmail(req[g].email)
      BY <2>1 DEF User
    <2> QED BY <2>1, <2>2 DEF Copied, Copying
  <1>4. CASE UpdateStamp(g)
    <2>1. PICK now \in Readings :
          /\ pc[g] = "update_stamp" /\ pc'[g] = "update_write"
          /\ user'[g] = [user[g] EXCEPT !.updated = now]
          /\ req' = req /\ born' = born /\ user[g] \in User
      BY <1>4 DEF UpdateStamp, Goto, db, Shape, Holding
    <2>2. /\ user'[g].id = user[g].id /\ user'[g].hash = user[g].hash
          /\ user'[g].created = user[g].created /\ user'[g].name = user[g].name
          /\ user'[g].email = user[g].email
      BY <2>1 DEF User
    <2> QED BY <2>1, <2>2 DEF Copied, Copying
  <1>5. CASE /\ Step(g) \/ Settle(g)
             /\ ~UpdateStamp(g) /\ ~(UpdateRead(g) /\ pc'[g] # "idle")
             /\ ~(UpdateCheck(g) /\ pc'[g] # "idle")
    <2>1. pc'[g] \notin Copying
      BY <1>5, <1>c DEF Step, RegisterCheck, RegisterBuild, RegisterInsert, UpdateRead,
           UpdateCheck, UpdateWrite, GetRead, DeleteRow, AuthenticateRead,
           AuthenticateIssue, Goto, Answer, Return, Refuse, Write, Copying
    <2> QED BY <2>1 DEF Copied
  <1> QED BY <1>1, <1>2, <1>3, <1>4, <1>5

(* Only a registration adds a hash.                                        *)
LEMMA HashesLongNext ==
    ASSUME TypeInv, Carried, [Next]_vars
    PROVE  HashesLong'
  <1>1. CASE UNCHANGED born
    BY <1>1 DEF HashesLong, Carried
  <1>2. ASSUME NEW g \in Goroutine, Inserted(g)
        PROVE  HashesLong'
    <2>1. user[g] \in User /\ user[g].id \in UserID /\ PasswordLen[user[g].hash] >= 8
      BY <1>2 DEF Inserted, Carried, Planned, ValidateRegister, TypeInv, Shape, Holding,
                  User
    <2>2. born' = [born EXCEPT ![user[g].id] = user[g]]
      BY <1>2 DEF Inserted
    <2> QED BY <2>1, <2>2 DEF HashesLong, Carried, TypeInv, StoreOK, Table
  <1> QED BY <1>1, <1>2, TableStep DEF Changed, Removed, db

(* Whoever moves or dies, what the goroutines carry stays good.            *)
LEMMA CarriedNext ==
    ASSUME TypeInv, History, Carried, [Next]_vars
    PROVE  Carried'
  <1> SUFFICES \A g \in Goroutine : (Planned(g) /\ Copied(g))'
    BY HashesLongNext DEF Carried
  <1>1. CASE UNCHANGED vars
    BY <1>1, CarriedStays DEF vars, local, Carried
  <1>2. ASSUME NEW g \in Goroutine, Call(g) \/ Step(g) \/ Settle(g)
        PROVE  \A h \in Goroutine : (Planned(h) /\ Copied(h))'
    <2>1. Others(g)
      BY <1>2, StepClasses
    <2>2. \A h \in Goroutine \ {g} : (Planned(h) /\ Copied(h))'
      BY <2>1, CarriedStays DEF Others, Carried
    <2>3. CASE Abandon(g)
      BY <2>2, <2>3, TypeAbandon, CarriedStays DEF Abandon, Carried
    <2>4. CASE ~Abandon(g)
      BY <1>2, <2>2, <2>4, PlannedStep, CopiedStep DEF Carried
    <2> QED BY <2>3, <2>4
  <1>3. ASSUME NEW r, Crash(r)
        PROVE  \A g \in Goroutine : (Planned(g) /\ Copied(g))'
    BY <1>3, CrashAt, CarriedStays DEF Carried
  <1> QED BY <1>1, <1>2, <1>3 DEF Next, Quiesce

LEMMA CarriedInit == Init => Carried
  <1> SUFFICES ASSUME Init PROVE Carried
    OBVIOUS
  <1>1. ASSUME NEW id \in UserID, Seed[id] # NoUser
        PROVE  PasswordLen[Seed[id].hash] >= 8
    BY <1>1, SeedAssumption DEF ValidRow
  <1> QED BY <1>1 DEF Init, Carried, HashesLong, Planned, Copied, Copying

LEMMA CarriedAlways == Spec => []Carried
  <1>1. TypeInv /\ History /\ Carried /\ [Next]_vars => Carried'
    BY CarriedNext
  <1> QED BY <1>1, CarriedInit, HistoryAlways, PTL DEF Spec

-----------------------------------------------------------------------------
(* How the goroutines' variables appear in the directory.  A goroutine     *)
(* that is asked something, by what its method is for.                     *)
LEMMA AskedCall ==
    ASSUME TypeInv, NEW g \in Goroutine, pc[g] # "idle"
    PROVE  /\ req[g] # Nil /\ g \notin {h \in Goroutine : left[h] # "none"}
           /\ \A op : req[g].op = op => Directory!Waits(g, op)
  BY RequestAssumption, Attended DEF TypeInv, LocalOK, Directory!Waits

(* Only the goroutine that moves sees anything new.                        *)
LEMMA OthersSee ==
    ASSUME NEW g \in Goroutine, Others(g)
    PROVE  [h \in Goroutine |-> Seen(h)]'
               = [[h \in Goroutine |-> Seen(h)] EXCEPT ![g] = Seen(g)']
  <1>1. \A h \in Goroutine \ {g} : Seen(h)' = Seen(h)
    BY DEF Others, Seen
  <1> QED BY <1>1

(* When a method returns, the directory's call is answered.                *)
LEMMA AnswerAnswers ==
    ASSUME TypeInv, NEW g \in Goroutine, pc[g] # "idle", Others(g),
           NEW op, req[g].op = op,
           NEW err, NEW u, NEW t, Answer(g, err, u, t)
    PROVE  /\ Directory!Answers(g, op)
           /\ reply'[g] = [err |-> err, user |-> u, token |-> t]
  <1>0. left[g] = "none" /\ pc'[g] = "idle" /\ left' = left
    BY Attended DEF Answer, TypeInv, LocalOK
  <1>1. Seen(g)' = NoUser
    BY <1>0 DEF Seen
  <1>2. [h \in Goroutine |-> Seen(h)]'
           = [[h \in Goroutine |-> Seen(h)] EXCEPT ![g] = NoUser]
    BY <1>1, OthersSee
  <1>3. [h \in Goroutine |-> IF At(h) # "idle" THEN req[h] ELSE Nil]'
           = [[h \in Goroutine |-> IF At(h) # "idle" THEN req[h] ELSE Nil] EXCEPT ![g] = Nil]
    BY <1>0 DEF Others
  <1>4. reply' = [reply EXCEPT ![g] = [err |-> err, user |-> u, token |-> t]]
        /\ reply'[g] = [err |-> err, user |-> u, token |-> t]
    BY DEF Answer, TypeInv, LocalOK
  <1>5. {h \in Goroutine : left[h] # "none"}' = {h \in Goroutine : left[h] # "none"}
    BY <1>0
  <1> QED BY <1>2, <1>3, <1>4, <1>5, AskedCall DEF Directory!Answers

(* A method that returns an error before any write denies the call.        *)
LEMMA RefusalDenies ==
    ASSUME TypeInv, NEW g \in Goroutine, pc[g] # "idle", Others(g),
           NEW op, req[g].op = op,
           NEW err, Refuse(g, err), UNCHANGED db
    PROVE  Directory!Answers(g, op) /\ Directory!Denies(g, err)
  BY AnswerAnswers DEF Refuse, Return, db, Directory!Denies, Directory!Says,
                       Directory!directory

(* A write statement that failed without effect.                           *)
LEMMA WriteDenies ==
    ASSUME TypeInv, NEW g \in Goroutine, pc[g] # "idle", Others(g),
           NEW op, req[g].op = op,
           NEW w, NEW u, Write(g, w, u), w.err # "nil", UNCHANGED db
    PROVE  Directory!Answers(g, op) /\ Directory!Denies(g, w.err)
  BY AnswerAnswers DEF Write, db, Directory!Denies, Directory!Says,
                       Directory!directory

(* A step to the next cut asks and answers nothing.                        *)
LEMMA GotoSilent ==
    ASSUME TypeInv, NEW g \in Goroutine, pc[g] # "idle", Others(g),
           NEW s \in Steps, NEW u, Goto(g, s, u), UNCHANGED db
    PROVE  /\ UNCHANGED <<users, {id \in UserID : born[id] # NoUser},
                          [h \in Goroutine |-> IF At(h) # "idle" THEN req[h] ELSE Nil],
                          reply, {h \in Goroutine : left[h] # "none"}>>
           /\ [h \in Goroutine |-> Seen(h)]'
                 = [[h \in Goroutine |-> Seen(h)] EXCEPT ![g] = Seen(g)']
           /\ Seen(g)' = Seen(g) => UNCHANGED Directory!vars
  <1>1. [h \in Goroutine |-> Seen(h)]'
           = [[h \in Goroutine |-> Seen(h)] EXCEPT ![g] = Seen(g)']
    BY OthersSee
  <1>2. [h \in Goroutine |-> IF At(h) # "idle" THEN req[h] ELSE Nil]'
           = [h \in Goroutine |-> IF At(h) # "idle" THEN req[h] ELSE Nil]
    BY Attended DEF Goto, TypeInv, LocalOK, Steps
  <1>3. users' = users /\ born' = born /\ reply' = reply /\ left' = left
    BY DEF Goto, db
  <1>4. Seen(g)' = Seen(g) => [h \in Goroutine |-> Seen(h)]' = [h \in Goroutine |-> Seen(h)]
    BY <1>1
  <1> QED BY <1>1, <1>2, <1>3, <1>4 DEF Directory!vars, Directory!directory

-----------------------------------------------------------------------------
(* An insertion, now or late, is a new account made of what the call asks. *)
LEMMA InsertedIsNew ==
    ASSUME TypeInv, History, Carried, NEW g \in Goroutine, Inserted(g)
    PROVE  \E id \in UserID \ {id \in UserID : born[id] # NoUser} :
              Directory!NewAccount(g, id) /\ users'[id] = user[g]
  <1>1. /\ At(g) = "register_insert" /\ user[g] \in User /\ user[g].id \in UserID
        /\ born[user[g].id] = NoUser /\ users[user[g].id] = NoUser
    BY DEF Inserted, TypeInv, Shape, Holding, User, History, PlanFresh, RowsBorn
  <1> PICK id \in UserID : id = user[g].id
    BY <1>1
  <1>2. /\ users' = [users EXCEPT ![id] = user[g]] /\ users'[id] = user[g]
        /\ \A i \in UserID : users[i] # NoUser => users[i].email # user[g].email
    BY <1>1 DEF Inserted, Inserts, TypeInv, StoreOK, Table
  <1>3. /\ {i \in UserID : born[i] # NoUser}' = {i \in UserID : born[i] # NoUser} \cup {id}
        /\ id \notin {i \in UserID : born[i] # NoUser}
    BY <1>1, NilAssumption DEF Inserted, TypeInv, StoreOK, Table
  <1>4. user[g] = [id |-> id, email |-> NormalizeEmail(req[g].email),
                   name |-> TrimSpace(req[g].name), hash |-> req[g].password,
                   created |-> user[g].created, updated |-> user[g].created]
    BY <1>1 DEF Carried, Planned, User
  <1>5. /\ ValidateRegister(req[g]) /\ Hashable(req[g].password)
        /\ user[g].email = NormalizeEmail(req[g].email)
    BY <1>1 DEF Carried, Planned
  <1>6. Directory!NewAccount(g, id)
    BY <1>1, <1>2, <1>3, <1>4, <1>5 DEF Directory!NewAccount,
       Directory!Taken, Directory!Hashable, Hashable, Directory!ValidateRegister,
       Directory!ValidEmail, Directory!NormalizeEmail, Directory!ValidName,
       Directory!TrimSpace, Directory!Bytes, ValidateRegister, ValidEmail,
       NormalizeEmail, ValidName, TrimSpace, Bytes
  <1> QED BY <1>2, <1>3, <1>6

(* Register: the directory's step is RegisterInsert, or the refusal.       *)
LEMMA RegisterImplements ==
    ASSUME TypeInv, History, Carried, NEW g \in Goroutine, Others(g),
           RegisterCheck(g) \/ RegisterBuild(g) \/ RegisterInsert(g)
    PROVE  Directory!Register(g) \/ UNCHANGED Directory!vars
  <1>1. pc[g] # "idle" /\ left[g] = "none" /\ req[g].op = "register"
    BY Attended
       DEF RegisterCheck, RegisterBuild, RegisterInsert, TypeInv, Shape, Registering
  <1>2. CASE RegisterCheck(g)
    <2> DEFINE email == NormalizeEmail(req[g].email)
    <2>1. CASE ~ValidateRegister(req[g]) /\ Refuse(g, "invalid_input")
      <3>1. Directory!Answers(g, "register") /\ Directory!Denies(g, "invalid_input")
        BY <1>1, <1>2, <2>1, RefusalDenies DEF RegisterCheck
      <3> QED BY <1>1, <2>1, <3>1 DEF Directory!Register, Directory!ValidateRegister,
                 Directory!ValidEmail, Directory!NormalizeEmail, Directory!ValidName,
                 Directory!TrimSpace, Directory!Bytes, ValidateRegister, ValidEmail,
                 NormalizeEmail, ValidName, TrimSpace, Bytes
    <2>2. CASE Refuse(g, "internal")
      <3>1. Directory!Answers(g, "register") /\ Directory!Denies(g, "internal")
        BY <1>1, <1>2, <2>2, RefusalDenies DEF RegisterCheck
      <3> QED BY <3>1 DEF Directory!Register
    <2>3. ASSUME NEW a \in GetByEmail(users, email), a.err = "nil", Refuse(g, "conflict")
          PROVE  Directory!Register(g)
      <3>1. Directory!Answers(g, "register") /\ Directory!Denies(g, "conflict")
        BY <1>1, <1>2, <2>3, RefusalDenies DEF RegisterCheck
      <3>2. \E id \in UserID : users[id] # NoUser /\ users[id].email = email
        BY <2>3, ReadOutcome, NilAssumption DEF TypeInv, StoreOK
      <3> QED BY <1>1, <3>1, <3>2 DEF Directory!Register, Directory!Taken,
                 Directory!NormalizeEmail, NormalizeEmail
    <2>4. CASE Goto(g, "register_build", NoUser)
      <3>1. Seen(g)' = Seen(g)
        BY <1>1, <1>2, <2>4 DEF RegisterCheck, Goto, TypeInv, LocalOK, Seen
      <3> QED BY <1>1, <1>2, <2>4, <3>1, GotoSilent DEF RegisterCheck, Steps
    <2> QED BY <1>2, <2>1, <2>2, <2>3, <2>4 DEF RegisterCheck
  <1>3. CASE RegisterBuild(g)
    <2>1. CASE Refuse(g, "internal")
      <3>1. Directory!Answers(g, "register") /\ Directory!Denies(g, "internal")
        BY <1>1, <1>3, <2>1, RefusalDenies DEF RegisterBuild
      <3> QED BY <3>1 DEF Directory!Register
    <2>2. ASSUME NEW u, Goto(g, "register_insert", u)
          PROVE  UNCHANGED Directory!vars
      <3>1. Seen(g)' = Seen(g)
        BY <1>1, <1>3, <2>2 DEF RegisterBuild, Goto, TypeInv, LocalOK, Seen
      <3> QED BY <1>1, <1>3, <2>2, <3>1, GotoSilent DEF RegisterBuild, Steps
    <2> QED BY <1>3, <2>1, <2>2 DEF RegisterBuild
  <1>4. CASE RegisterInsert(g)
    <2>1. /\ pc[g] = "register_insert" /\ user[g] \in User /\ user[g].id \in UserID
          /\ born[user[g].id] = NoUser /\ users[user[g].id] = NoUser
      BY <1>4 DEF RegisterInsert, TypeInv, Shape, Holding, User, History, PlanFresh, RowsBorn
    <2>2. PICK w \in Create(users, user[g]) :
             /\ Write(g, w, user[g])
             /\ born' = IF w.wrote = "row" THEN [born EXCEPT ![user[g].id] = user[g]] ELSE born
      BY <1>4 DEF RegisterInsert
    <2>3. /\ w.err \in {"nil", "conflict", "internal"} /\ w.wrote \in {"none", "row"}
          /\ w.err = "nil" => w.wrote = "row"
          /\ w.err = "conflict" => w.wrote = "none"
          /\ w.wrote = "none" => w.table = users
          /\ w.wrote = "row" => Inserts(users, w.table, user[g])
          /\ w.err = "conflict" => \E i \in UserID :
                users[i] # NoUser /\ (users[i].id = user[g].id \/ users[i].email = user[g].email)
      BY <2>1, <2>2, CreateOutcome DEF TypeInv, StoreOK
    <2>4. user[g].email = NormalizeEmail(req[g].email)
      BY <1>1, <2>1 DEF Carried, Planned
    <2>5. CASE w.wrote = "none"
      <3>1. UNCHANGED db /\ w.err # "nil"
        BY <2>2, <2>3, <2>5 DEF Write, db
      <3>2. Directory!Answers(g, "register") /\ Directory!Denies(g, w.err)
        BY <1>1, <2>2, <3>1, WriteDenies
      <3>3. w.err = "conflict" =>
               \E id \in UserID : users[id] # NoUser /\ users[id].email = user[g].email
        BY <2>1, <2>3 DEF TypeInv, StoreOK
      <3> QED BY <1>1, <2>3, <2>4, <3>1, <3>2, <3>3 DEF Directory!Register, Directory!Taken,
                 Directory!NormalizeEmail, NormalizeEmail
    <2>6. CASE w.wrote = "row"
      <3>1. Inserted(g)
        BY <2>1, <2>2, <2>3, <2>6, Attended DEF Inserted, Write
      <3>2. PICK id \in UserID \ {id \in UserID : born[id] # NoUser} :
               Directory!NewAccount(g, id) /\ users'[id] = user[g]
        BY <3>1, InsertedIsNew
      <3>3. /\ Directory!Answers(g, "register")
            /\ reply'[g] = [err |-> w.err, user |-> IF w.err = "nil" THEN user[g] ELSE NoUser,
                            token |-> Nil]
        BY <1>1, <2>2, AnswerAnswers DEF Write
      <3>4. Directory!Reports(g, users'[id])
        BY <2>3, <2>6, <3>2, <3>3 DEF Directory!Reports, Directory!Says
      <3> QED BY <3>2, <3>3, <3>4 DEF Directory!Register
    <2> QED BY <2>3, <2>5, <2>6
  <1> QED BY <1>2, <1>3, <1>4

(* Authenticate: the directory recognizes a client when AuthenticateRead   *)
(* has compared the password; a login that is refused has no account.      *)
LEMMA Unknown ==
    ASSUME TypeInv, History, Carried, EmailsUnique, StoredValid,
           NEW g \in Goroutine, pc[g] = "auth",
           \/ NormalizeEmail(req[g].email).text = BlankEmail
           \/ PasswordLen[req[g].password] = 0
           \/ \E a \in GetByEmail(users, NormalizeEmail(req[g].email)) :
                 \/ a.err = "not_found"
                 \/ a.err = "nil" /\ ~Matches(a.user.hash, req[g].password),
           NEW id \in UserID
    PROVE  ~Directory!Known(g, id)
  <1> SUFFICES ASSUME /\ users[id] # NoUser
                      /\ users[id].email = NormalizeEmail(req[g].email)
                      /\ Matches(users[id].hash, req[g].password)
               PROVE  FALSE
    BY Attended DEF Directory!Known, Directory!NormalizeEmail, NormalizeEmail,
       Directory!Matches, Matches
  <1>1. req[g].password \in Password /\ users[id] \in User
    BY Attended DEF TypeInv, Shape, StoreOK, Table
  <1>2. CASE NormalizeEmail(req[g].email).text = BlankEmail
    BY <1>2, EmailAssumption DEF StoredValid
  <1>3. CASE PasswordLen[req[g].password] = 0
    <2>1. users[id].hash = req[g].password
      BY <1>1, <1>3, PasswordAssumption DEF Matches
    <2>2. PasswordLen[users[id].hash] >= 8
      BY DEF History, RowsBorn, Carried, HashesLong
    <2> QED BY <1>3, <2>1, <2>2
  <1>4. ASSUME NEW a \in GetByEmail(users, NormalizeEmail(req[g].email)), a.err = "not_found"
        PROVE  FALSE
    BY <1>4, MissOutcome
  <1>5. ASSUME NEW a \in GetByEmail(users, NormalizeEmail(req[g].email)), a.err = "nil",
               ~Matches(a.user.hash, req[g].password)
        PROVE  FALSE
    <2>1. PICK i \in UserID : /\ a.user = users[i] /\ a.user \in User
                              /\ a.user.email = NormalizeEmail(req[g].email)
      BY <1>5, ReadOutcome DEF TypeInv, StoreOK
    <2>2. i = id
      BY <2>1, NilAssumption DEF EmailsUnique
    <2> QED BY <1>5, <2>1, <2>2
  <1> QED BY <1>2, <1>3, <1>4, <1>5

(* A login that finds the row recognises the account; the token is the     *)
(* answer for the account as it was then.                                  *)
LEMMA AuthenticateImplements ==
    ASSUME TypeInv, History, Carried, EmailsUnique, StoredValid,
           NEW g \in Goroutine, Others(g),
           AuthenticateRead(g) \/ AuthenticateIssue(g)
    PROVE  Directory!Recognize(g) \/ Directory!Authenticate(g)
  <1>1. pc[g] # "idle" /\ left[g] = "none" /\ req[g].op = "auth"
    BY Attended DEF AuthenticateRead, AuthenticateIssue, TypeInv, Shape
  <1>2. CASE AuthenticateRead(g)
    <2>1. pc[g] = "auth" /\ UNCHANGED db
      BY <1>2 DEF AuthenticateRead
    <2>2. CASE Refuse(g, "internal")
      <3>1. Directory!Answers(g, "auth") /\ Directory!Denies(g, "internal")
        BY <1>1, <2>1, <2>2, RefusalDenies
      <3> QED BY <3>1 DEF Directory!Authenticate, Directory!Denies
    <2>3. ASSUME Refuse(g, "invalid_credentials"),
                 \/ NormalizeEmail(req[g].email).text = BlankEmail
                 \/ PasswordLen[req[g].password] = 0
                 \/ \E a \in GetByEmail(users, NormalizeEmail(req[g].email)) :
                       \/ a.err = "not_found"
                       \/ a.err = "nil" /\ ~Matches(a.user.hash, req[g].password)
          PROVE  Directory!Authenticate(g)
      <3>1. Directory!Answers(g, "auth") /\ Directory!Denies(g, "invalid_credentials")
        BY <1>1, <2>1, <2>3, RefusalDenies
      <3>2. \A id \in UserID : ~Directory!Known(g, id)
        BY <2>1, <2>3, Unknown
      <3> QED BY <3>1, <3>2 DEF Directory!Authenticate, Directory!Denies
    <2>4. ASSUME NEW a \in GetByEmail(users, NormalizeEmail(req[g].email)), a.err = "nil",
                 Matches(a.user.hash, req[g].password), Goto(g, "auth_issue", a.user)
          PROVE  Directory!Recognize(g)
      <3>1. PICK i \in UserID : /\ a.user = users[i] /\ a.user \in User
                                /\ a.user.email = NormalizeEmail(req[g].email)
        BY <2>4, ReadOutcome DEF TypeInv, StoreOK
      <3>2. Seen(g) = NoUser /\ Seen(g)' = users[i]
        BY <1>1, <2>1, <2>4, <3>1 DEF Goto, TypeInv, LocalOK, Seen
      <3>3. users[i] # NoUser
        BY <3>1, NilAssumption
      <3>4. /\ users' = users /\ UNCHANGED {id \in UserID : born[id] # NoUser} /\ reply' = reply
            /\ UNCHANGED {h \in Goroutine : left[h] # "none"}
            /\ UNCHANGED [h \in Goroutine |-> IF At(h) # "idle" THEN req[h] ELSE Nil]
            /\ [h \in Goroutine |-> Seen(h)]'
                  = [[h \in Goroutine |-> Seen(h)] EXCEPT ![g] = Seen(g)']
        BY <1>1, <2>1, <2>4, GotoSilent DEF Steps
      <3>5. Directory!Known(g, i)
        BY <1>1, <2>4, <3>1, <3>3 DEF Directory!Known, Directory!NormalizeEmail,
           NormalizeEmail, Directory!Matches, Matches
      <3>6. Directory!Waits(g, "auth") /\ UNCHANGED Directory!directory
        BY <1>1, <3>4, AskedCall DEF Directory!directory
      <3> QED BY <3>1, <3>2, <3>4, <3>5, <3>6 DEF Directory!Recognize
    <2> QED BY <1>2, <2>2, <2>3, <2>4 DEF AuthenticateRead
  <1>3. CASE AuthenticateIssue(g)
    <2>1. pc[g] = "auth_issue" /\ UNCHANGED db
      BY <1>3 DEF AuthenticateIssue
    <2>2. CASE Refuse(g, "internal")
      <3>1. Directory!Answers(g, "auth") /\ Directory!Denies(g, "internal")
        BY <1>1, <2>1, <2>2, RefusalDenies
      <3> QED BY <3>1 DEF Directory!Authenticate, Directory!Denies
    <2>3. CASE Return(g, "nil", user[g], [sub |-> user[g].id, email |-> user[g].email])
      <3>1. /\ Directory!Answers(g, "auth")
            /\ reply'[g] = [err |-> "nil", user |-> user[g],
                            token |-> [sub |-> user[g].id, email |-> user[g].email]]
        BY <1>1, <2>3, AnswerAnswers DEF Return
      <3>2. Seen(g) = user[g] /\ user[g] # NoUser
        BY <1>1, <2>1, NilAssumption DEF Seen, TypeInv, Shape, Holding
      <3>3. UNCHANGED <<users, {id \in UserID : born[id] # NoUser}>>
        BY <2>1 DEF db
      <3> QED BY <3>1, <3>2, <3>3
                 DEF Directory!Authenticate, Directory!Says, Directory!directory
    <2> QED BY <1>3, <2>2, <2>3 DEF AuthenticateIssue
  <1> QED BY <1>2, <1>3

(* A read is its only statement.                                           *)
LEMMA GetImplements ==
    ASSUME TypeInv, NEW g \in Goroutine, Others(g), GetRead(g)
    PROVE  Directory!Get(g)
  <1>1. /\ pc[g] # "idle" /\ left[g] = "none" /\ req[g].op = "get"
        /\ req[g].id \in UserID /\ UNCHANGED db
    BY Attended DEF GetRead, TypeInv, Shape
  <1>2. UNCHANGED Directory!directory
    BY <1>1 DEF db, Directory!directory
  <1>3. ASSUME NEW a \in GetByID(users, req[g].id), a.err = "nil", Return(g, "nil", a.user, Nil)
        PROVE  Directory!Get(g)
    <2>1. /\ Directory!Answers(g, "get")
          /\ reply'[g] = [err |-> "nil", user |-> a.user, token |-> Nil]
      BY <1>1, <1>3, AnswerAnswers DEF Return
    <2>2. a.user = users[req[g].id] /\ a.user # NoUser
      BY <1>1, <1>3, ReadOutcome, NilAssumption DEF TypeInv, StoreOK
    <2> QED BY <1>1, <1>2, <2>1, <2>2 DEF Directory!Get, Directory!Says
  <1>4. ASSUME NEW a \in GetByID(users, req[g].id), a.err = "not_found", Refuse(g, "not_found")
        PROVE  Directory!Get(g)
    <2>1. Directory!Answers(g, "get") /\ Directory!Denies(g, "not_found")
      BY <1>1, <1>4, RefusalDenies
    <2>2. users[req[g].id] = NoUser
      BY <1>1, <1>4, MissOutcome DEF TypeInv, StoreOK
    <2> QED BY <1>1, <1>2, <2>1, <2>2 DEF Directory!Get
  <1>5. CASE Refuse(g, "internal")
    <2>1. Directory!Answers(g, "get") /\ Directory!Denies(g, "internal")
      BY <1>1, <1>5, RefusalDenies
    <2> QED BY <1>2, <2>1 DEF Directory!Get
  <1> QED BY <1>3, <1>4, <1>5 DEF GetRead

(* A row that goes, now or late, is the account the call asks for.         *)
LEMMA RemovedIsRemoval ==
    ASSUME TypeInv, NEW g \in Goroutine, Removed(g)
    PROVE  Directory!Removal(g)
  BY DEF Removed, Removes, Directory!Removal

(* A delete is its only statement, whatever becomes of its answer.         *)
LEMMA DeleteImplements ==
    ASSUME TypeInv, NEW g \in Goroutine, Others(g), DeleteRow(g)
    PROVE  Directory!Delete(g)
  <1>1. /\ pc[g] = "delete" /\ left[g] = "none" /\ req[g].op = "delete"
        /\ req[g].id \in UserID /\ born' = born
    BY Attended DEF DeleteRow, TypeInv, Shape
  <1>2. PICK w \in Delete(users, req[g].id) : Write(g, w, NoUser)
    BY DEF DeleteRow
  <1>3. /\ w.err \in {"nil", "not_found", "internal"}
        /\ w.wrote \in {"none", "row"}
        /\ w.err = "nil" => w.wrote = "row"
        /\ w.err = "not_found" => w.wrote = "none"
        /\ w.wrote = "none" => w.table = users
        /\ w.wrote = "row" => users[req[g].id] # NoUser /\ Removes(users, w.table, req[g].id)
        /\ w.err = "not_found" => users[req[g].id] = NoUser
    BY <1>1, <1>2, DeleteOutcome DEF TypeInv, StoreOK
  <1>4. CASE w.wrote = "none"
    <2>1. UNCHANGED db /\ w.err # "nil"
      BY <1>1, <1>2, <1>3, <1>4 DEF Write, db
    <2>2. Directory!Answers(g, "delete") /\ Directory!Denies(g, w.err)
      BY <1>1, <1>2, <2>1, WriteDenies
    <2> QED BY <1>1, <1>3, <2>1, <2>2 DEF Directory!Delete
  <1>5. CASE w.wrote = "row"
    <2>1. /\ Directory!Answers(g, "delete")
          /\ reply'[g] = [err |-> w.err, user |-> NoUser, token |-> Nil]
      BY <1>1, <1>2, AnswerAnswers DEF Write
    <2>2. Directory!Reports(g, NoUser)
      BY <1>3, <1>5, <2>1 DEF Directory!Reports, Directory!Says
    <2>3. Directory!Removal(g)
      BY <1>1, <1>2, <1>3, <1>5, RemovedIsRemoval DEF Removed, Write
    <2> QED BY <2>1, <2>2, <2>3 DEF Directory!Delete
  <1> QED BY <1>3, <1>4, <1>5

-----------------------------------------------------------------------------
(* Update: UpdateRead looks at the account, UpdateWrite changes it; what   *)
(* the call has seen is kept in between.                                   *)
LEMMA UpdateReadImplements ==
    ASSUME TypeInv, NEW g \in Goroutine, Others(g), UpdateRead(g)
    PROVE  Directory!Look(g) \/ Directory!Update(g)
  <1>1. /\ pc[g] = "update" /\ left[g] = "none" /\ req[g].op = "update"
        /\ req[g].id \in UserID /\ UNCHANGED db
    BY Attended DEF UpdateRead, TypeInv, Shape, Updating
  <1>2. ASSUME NEW a \in GetByID(users, req[g].id), a.err = "not_found", Refuse(g, "not_found")
        PROVE  Directory!Update(g)
    <2>1. Directory!Answers(g, "update") /\ Directory!Denies(g, "not_found")
      BY <1>1, <1>2, RefusalDenies
    <2>2. users[req[g].id] = NoUser
      BY <1>1, <1>2, MissOutcome DEF TypeInv, StoreOK
    <2> QED BY <1>1, <2>1, <2>2 DEF Directory!Update
  <1>3. CASE Refuse(g, "internal")
    <2>1. Directory!Answers(g, "update") /\ Directory!Denies(g, "internal")
      BY <1>1, <1>3, RefusalDenies
    <2> QED BY <2>1 DEF Directory!Update
  <1>4. CASE ~ValidUpdate(req[g]) /\ Refuse(g, "invalid_input")
    <2>1. Directory!Answers(g, "update") /\ Directory!Denies(g, "invalid_input")
      BY <1>1, <1>4, RefusalDenies
    <2> QED BY <1>1, <1>4, <2>1 DEF Directory!Update, Directory!ValidUpdate,
               Directory!ValidEmail, Directory!NormalizeEmail, Directory!ValidName,
               Directory!Bytes, ValidUpdate, ValidEmail, NormalizeEmail, ValidName, Bytes
  <1>5. ASSUME NEW a \in GetByID(users, req[g].id), a.err = "nil", ValidUpdate(req[g]),
               NEW s \in {"update_stamp", "update_check"},
               Goto(g, s, IF req[g].name = Nil THEN a.user
                          ELSE [a.user EXCEPT !.name = req[g].name])
        PROVE  Directory!Look(g)
    <2>1. a.user \in User /\ a.user = users[req[g].id] /\ a.user # NoUser
      BY <1>1, <1>5, ReadOutcome, NilAssumption DEF TypeInv, StoreOK
    <2>2. /\ pc'[g] = s /\ req' = req /\ left'[g] = "none"
          /\ user'[g] = IF req[g].name = Nil THEN a.user
                        ELSE [a.user EXCEPT !.name = req[g].name]
      BY <1>1, <1>5 DEF Goto, TypeInv, LocalOK
    <2>3. user'[g].email = a.user.email /\ (req[g].name = Nil => user'[g].name = a.user.name)
      BY <2>1, <2>2 DEF User
    <2>4. /\ Seen(g) = NoUser
          /\ Seen(g)' = [email |-> IF req[g].email = Nil THEN a.user.email ELSE Nil,
                         name |-> IF req[g].name = Nil THEN a.user.name ELSE Nil]
      BY <1>1, <2>2, <2>3 DEF Seen
    <2>5. /\ users' = users /\ UNCHANGED {id \in UserID : born[id] # NoUser} /\ reply' = reply
          /\ UNCHANGED {h \in Goroutine : left[h] # "none"}
          /\ UNCHANGED [h \in Goroutine |-> IF At(h) # "idle" THEN req[h] ELSE Nil]
          /\ [h \in Goroutine |-> Seen(h)]'
                = [[h \in Goroutine |-> Seen(h)] EXCEPT ![g] = Seen(g)']
      BY <1>1, <1>5, GotoSilent DEF Steps
    <2>6. Directory!ValidUpdate(req[g])
      BY <1>5 DEF Directory!ValidUpdate, Directory!ValidEmail, Directory!NormalizeEmail,
         Directory!ValidName, Directory!Bytes, ValidUpdate, ValidEmail, NormalizeEmail,
         ValidName, Bytes
    <2>7. Directory!Waits(g, "update") /\ UNCHANGED Directory!directory
      BY <1>1, <2>5, AskedCall DEF Directory!directory
    <2>8. [h \in Goroutine |-> IF At(h) # "idle" THEN req[h] ELSE Nil][g] = req[g]
      BY <1>1
    <2>9. /\ [h \in Goroutine |-> Seen(h)][g] = NoUser
          /\ users[req[g].id] # NoUser
          /\ [h \in Goroutine |-> Seen(h)]' =
                [[h \in Goroutine |-> Seen(h)] EXCEPT ![g] =
                    [email |-> IF req[g].email = Nil THEN users[req[g].id].email ELSE Nil,
                     name |-> IF req[g].name = Nil THEN users[req[g].id].name ELSE Nil]]
      BY <2>1, <2>4, <2>5
    <2> HIDE DEF At
    <2> QED BY <2>5, <2>6, <2>7, <2>8, <2>9 DEF Directory!Look
  <1> QED BY <1>2, <1>3, <1>4, <1>5 DEF UpdateRead

(* The fields an update writes are those it was asked for, and the others  *)
(* as it has seen them.                                                    *)
LEMMA WrittenFields ==
    ASSUME TypeInv, Carried, NEW g \in Goroutine, At(g) = "update_write"
    PROVE  /\ Seen(g) # NoUser /\ Directory!NewEmail(g) = user[g].email
           /\ Directory!NewName(g) = user[g].name
  <1>1. Seen(g) = [email |-> IF req[g].email = Nil THEN user[g].email ELSE Nil,
                   name |-> IF req[g].name = Nil THEN user[g].name ELSE Nil]
    BY DEF Seen
  <1>2. user[g] \in User
    BY DEF TypeInv, Shape, Holding
  <1>3. /\ req[g].name # Nil => user[g].name = req[g].name
        /\ req[g].email # Nil => user[g].email = NormalizeEmail(req[g].email)
    BY DEF Carried, Copied, Copying
  <1>4. user[g].email \in Email /\ user[g].name \in Name
    BY <1>2 DEF User
  <1>5. Seen(g) \in [email : Email \cup {Nil}, name : Name \cup {Nil}]
    BY <1>1, <1>4
  <1>6. Directory!NewEmail(g) = IF req[g].email = Nil THEN Seen(g).email
                                ELSE NormalizeEmail(req[g].email)
    BY DEF Directory!NewEmail, Directory!NormalizeEmail, NormalizeEmail
  <1>7. Directory!NewName(g) = IF req[g].name = Nil THEN Seen(g).name ELSE req[g].name
    BY DEF Directory!NewName
  <1> QED BY <1>1, <1>3, <1>5, <1>6, <1>7, SeenAssumption

(* Between the two instants of an update nothing is seen, unless the       *)
(* look-up of the new address refuses it.                                  *)
LEMMA UpdateCheckImplements ==
    ASSUME TypeInv, NEW g \in Goroutine, Others(g), UpdateCheck(g) \/ UpdateStamp(g)
    PROVE  Directory!Update(g) \/ UNCHANGED Directory!vars
  <1>1. /\ pc[g] # "idle" /\ left[g] = "none" /\ req[g].op = "update" /\ UNCHANGED db
        /\ pc[g] \in {"update_check", "update_stamp"} /\ user[g] \in User
    BY Attended DEF UpdateCheck, UpdateStamp, TypeInv, Shape, Updating, Holding
  <1>2. ASSUME NEW s \in {"update_stamp", "update_write"}, NEW u, Goto(g, s, u),
               req[g].email = Nil => u.email = user[g].email,
               u.name = user[g].name
        PROVE  UNCHANGED Directory!vars
    <2>1. Seen(g)' = Seen(g)
      BY <1>1, <1>2 DEF Goto, TypeInv, LocalOK, Seen
    <2> QED BY <1>1, <1>2, <2>1, GotoSilent DEF Steps
  <1>3. CASE UpdateCheck(g)
    <2>1. pc[g] = "update_check" /\ req[g].email \in Email /\ req[g].email # Nil
      BY <1>1, <1>3, NilAssumption DEF UpdateCheck, TypeInv, Shape
    <2>2. CASE Refuse(g, "internal")
      <3>1. Directory!Answers(g, "update") /\ Directory!Denies(g, "internal")
        BY <1>1, <2>2, RefusalDenies
      <3> QED BY <3>1 DEF Directory!Update
    <2>3. ASSUME NEW a \in GetByEmail(users, NormalizeEmail(req[g].email)), a.err = "nil",
                 Refuse(g, "conflict")
          PROVE  Directory!Update(g)
      <3>1. Directory!Answers(g, "update") /\ Directory!Denies(g, "conflict")
        BY <1>1, <2>3, RefusalDenies
      <3>2. \E id \in UserID : users[id] # NoUser
                               /\ users[id].email = NormalizeEmail(req[g].email)
        BY <2>3, ReadOutcome, NilAssumption DEF TypeInv, StoreOK
      <3>3. Directory!Clash(g)
        BY <1>1, <2>1, <3>2 DEF Directory!Clash, Directory!Taken, Directory!NormalizeEmail,
           NormalizeEmail
      <3> QED BY <3>1, <3>3 DEF Directory!Update
    <2>4. CASE Goto(g, "update_stamp", [user[g] EXCEPT !.email = NormalizeEmail(req[g].email)])
      <3>1. [user[g] EXCEPT !.email = NormalizeEmail(req[g].email)].name = user[g].name
        BY <1>1 DEF User
      <3> QED BY <1>2, <2>1, <2>4, <3>1
    <2> QED BY <1>3, <2>2, <2>3, <2>4 DEF UpdateCheck
  <1>4. CASE UpdateStamp(g)
    <2>1. PICK now \in Readings :
             Goto(g, "update_write", [user[g] EXCEPT !.updated = now])
      BY <1>4 DEF UpdateStamp
    <2>2. /\ [user[g] EXCEPT !.updated = now].email = user[g].email
          /\ [user[g] EXCEPT !.updated = now].name = user[g].name
      BY <1>1 DEF User
    <2> QED BY <1>2, <2>1, <2>2
  <1> QED BY <1>3, <1>4

(* The row an UPDATE leaves is the copy it wrote, if the copy has the      *)
(* columns that do not change.                                             *)
LEMMA WrittenRow ==
    ASSUME NEW row \in User, NEW u \in User,
           row.id = u.id, row.hash = u.hash, row.created = u.created
    PROVE  [row EXCEPT !.email = u.email, !.name = u.name, !.updated = u.updated] = u
  <1> DEFINE new == [row EXCEPT !.email = u.email, !.name = u.name, !.updated = u.updated]
  <1>1. new \in User
    BY DEF User
  <1>2. /\ new.id = u.id /\ new.hash = u.hash /\ new.created = u.created
        /\ new.email = u.email /\ new.name = u.name /\ new.updated = u.updated
    BY DEF User
  <1> HIDE DEF new
  <1>3. new = [id |-> new.id, email |-> new.email, name |-> new.name, hash |-> new.hash,
               created |-> new.created, updated |-> new.updated]
    BY <1>1 DEF User
  <1>4. u = [id |-> u.id, email |-> u.email, name |-> u.name, hash |-> u.hash,
             created |-> u.created, updated |-> u.updated]
    BY DEF User
  <1>5. new = u
    BY <1>2, <1>3, <1>4
  <1> QED BY <1>5 DEF new

(* A row that changes, now or late, is the account the call asks for, with *)
(* those fields: the copy the call was working on.                         *)
LEMMA ChangedIsChange ==
    ASSUME TypeInv, History, Carried, NEW g \in Goroutine, Changed(g)
    PROVE  Directory!Change(g) /\ users'[req[g].id] = user[g]
  <1> DEFINE id == req[g].id
  <1>1. /\ At(g) = "update_write" /\ id \in UserID /\ user[g] \in User /\ user[g].id = id
    BY DEF Changed, TypeInv, Shape, Updating, Holding, Carried, Copied, Copying
  <1>2. /\ users[id] # NoUser /\ users[id] \in User
        /\ users' = [users EXCEPT ![id] =
              [users[id] EXCEPT !.email = user[g].email, !.name = user[g].name,
                                !.updated = user[g].updated]]
    BY <1>1 DEF Changed, Changes, TypeInv, StoreOK, Table
  <1>3. /\ users'[id] = [users[id] EXCEPT !.email = user[g].email, !.name = user[g].name,
                                          !.updated = user[g].updated]
        /\ users' = [users EXCEPT ![id] = users'[id]]
        /\ users'[id].updated = user[g].updated
    BY <1>1, <1>2 DEF TypeInv, StoreOK, Table, User
  <1>4. users'[id] = user[g]
    <2>1. /\ users[id].id = user[g].id /\ users[id].hash = user[g].hash
          /\ users[id].created = user[g].created
      BY <1>1, <1>2 DEF Carried, Copied, Copying, History, RowsBorn, TypeInv, StoreOK
    <2> QED BY <1>1, <1>2, <1>3, <2>1, WrittenRow
  <1>5. \A other \in UserID \ {id} : users[other] # NoUser
                                        => users[other].email # user[g].email
    BY <1>1 DEF Changed, Changes, TypeInv, StoreOK
  <1>6. UNCHANGED {i \in UserID : born[i] # NoUser}
    BY DEF Changed
  <1>7. Directory!Change(g)
    BY <1>1, <1>2, <1>3, <1>5, <1>6, WrittenFields
       DEF Directory!Change, Directory!TakenByOther
  <1> QED BY <1>4, <1>7

(* The write of an update is its second instant: the row becomes what the  *)
(* directory makes of the fields that were looked at.                      *)
LEMMA UpdateWriteImplements ==
    ASSUME TypeInv, History, Carried, NEW g \in Goroutine, Others(g), UpdateWrite(g)
    PROVE  Directory!Update(g)
  <1>1. /\ pc[g] = "update_write" /\ left[g] = "none" /\ req[g].op = "update"
        /\ req[g].id \in UserID /\ user[g] \in User /\ user[g].id = req[g].id
        /\ born' = born
    BY Attended DEF UpdateWrite, TypeInv, Shape, Updating, Holding, Carried, Copied, Copying
  <1>2. PICK w \in Update(users, user[g]) : Write(g, w, user[g])
    BY DEF UpdateWrite
  <1>3. /\ w.err \in {"nil", "conflict", "not_found", "internal"}
        /\ w.wrote \in {"none", "row"}
        /\ w.err = "nil" => w.wrote = "row"
        /\ w.err \in {"conflict", "not_found"} => w.wrote = "none"
        /\ w.wrote = "none" => w.table = users
        /\ w.wrote = "row" => Changes(users, w.table, user[g])
        /\ w.err = "not_found" => users[req[g].id] = NoUser
        /\ w.err = "conflict" => \E i \in UserID :
              users[i] # NoUser /\ users[i].email = user[g].email /\ users[i].id # req[g].id
    BY <1>1, <1>2, UpdateOutcome DEF TypeInv, StoreOK
  <1>4. CASE w.wrote = "none"
    <2>1. UNCHANGED db /\ w.err # "nil"
      BY <1>1, <1>2, <1>3, <1>4 DEF Write, db
    <2>2. Directory!Answers(g, "update") /\ Directory!Denies(g, w.err)
      BY <1>1, <1>2, <2>1, WriteDenies
    <2>3. w.err = "conflict" => Directory!Clash(g)
      <3>1. w.err = "conflict" => \E i \in UserID \ {req[g].id} :
               users[i] # NoUser /\ users[i].email = user[g].email
        BY <1>3 DEF TypeInv, StoreOK
      <3> QED BY <1>1, <3>1, WrittenFields DEF Directory!Clash, Directory!TakenByOther
    <2> QED BY <1>1, <1>3, <2>1, <2>2, <2>3 DEF Directory!Update
  <1>5. CASE w.wrote = "row"
    <2>1. /\ Directory!Answers(g, "update")
          /\ reply'[g] = [err |-> w.err, user |-> IF w.err = "nil" THEN user[g] ELSE NoUser,
                          token |-> Nil]
      BY <1>1, <1>2, AnswerAnswers DEF Write
    <2>2. Changed(g)
      BY <1>1, <1>2, <1>3, <1>5 DEF Changed, Write
    <2>3. Directory!Change(g) /\ users'[req[g].id] = user[g]
      BY <2>2, ChangedIsChange
    <2>4. Directory!Reports(g, users'[req[g].id])
      BY <1>3, <1>5, <2>1, <2>3 DEF Directory!Reports, Directory!Says
    <2> QED BY <1>1, <2>1, <2>3, <2>4 DEF Directory!Update
  <1> QED BY <1>3, <1>4, <1>5

-----------------------------------------------------------------------------
(* A call that arrives is asked of the directory, a crash loses the calls  *)
(* and the answers of its replica, and nothing else is seen.               *)
LEMMA CallImplements ==
    ASSUME TypeInv, NEW g \in Goroutine, Others(g), Call(g)
    PROVE  Directory!Ask(g)
  <1> SUFFICES ASSUME NEW r \in Request, Receive(g, r), r.op \in Op
               PROVE  Directory!Ask(g)
    <2> USE DEF Request, NoRequest, Op
    <2>1. CASE RegisterCall(g)
      BY <2>1, InputAssumption DEF RegisterCall
    <2>2. CASE AuthenticateCall(g)
      BY <2>2, InputAssumption DEF AuthenticateCall
    <2>3. CASE GetCall(g)
      BY <2>3 DEF GetCall
    <2>4. CASE UpdateCall(g)
      BY <2>4, InputAssumption DEF UpdateCall
    <2>5. CASE DeleteCall(g)
      BY <2>5 DEF DeleteCall
    <2> QED BY <2>1, <2>2, <2>3, <2>4, <2>5 DEF Call
  <1>2. /\ pc[g] = "idle" /\ pc'[g] \in Op /\ req'[g] = r
        /\ reply' = [reply EXCEPT ![g] = NoReply]
        /\ users' = users /\ born' = born /\ left' = left /\ left[g] = "none"
    BY DEF Receive, TypeInv, LocalOK, db
  <1>3. Seen(g)' = Seen(g)
    BY <1>2 DEF Seen, Op
  <1>4. UNCHANGED [h \in Goroutine |-> Seen(h)]
    BY <1>3, OthersSee
  <1>5. r # Nil /\ pc'[g] # "idle"
    BY <1>2, RequestAssumption DEF Op
  <1>6. [h \in Goroutine |-> IF At(h) # "idle" THEN req[h] ELSE Nil]'
           = [[h \in Goroutine |-> IF At(h) # "idle" THEN req[h] ELSE Nil] EXCEPT ![g] = r]
    BY <1>2, <1>5 DEF Others
  <1>7. UNCHANGED {id \in UserID : born[id] # NoUser}
    BY <1>2
  <1> QED BY <1>2, <1>4, <1>5, <1>6, <1>7 DEF Directory!Ask, Directory!directory

(* A method that leaves its statement gives up its change.                 *)
LEMMA AbandonImplements ==
    ASSUME TypeInv, NEW g \in Goroutine, Abandon(g)
    PROVE  Directory!GiveUp(g)
  <1>1. /\ pc[g] \in Writes /\ pc[g] # "idle" /\ left[g] = "none"
        /\ At(g)' = At(g) /\ req' = req /\ user' = user
    BY Attended, TypeAbandon DEF Abandon, Writes
  <1>2. \E op \in Directory!Changes : Directory!Waits(g, op)
    <2>1. req[g].op \in Directory!Changes
      BY <1>1 DEF TypeInv, Shape, Registering, Updating, Writes, Directory!Changes
    <2> QED BY <1>1, <2>1, AskedCall
  <1>3. Others(g) /\ UNCHANGED Directory!directory
    BY TypeAbandon DEF Abandon, db, Directory!directory
  <1>4. UNCHANGED [h \in Goroutine |-> Seen(h)]
    <2>1. Seen(g)' = Seen(g)
      BY <1>1 DEF Seen
    <2> QED BY <1>3, <2>1, OthersSee
  <1>5. UNCHANGED [h \in Goroutine |-> IF At(h) # "idle" THEN req[h] ELSE Nil]
    BY <1>1, <1>3 DEF Others
  <1>6. {h \in Goroutine : left[h] # "none"}' = {h \in Goroutine : left[h] # "none"} \cup {g}
    BY <1>1 DEF Abandon, TypeInv, LocalOK, Writes
  <1>7. /\ reply'[g] = [err |-> "internal", user |-> NoUser, token |-> Nil]
        /\ reply' = [reply EXCEPT ![g] = reply'[g]]
    BY DEF Abandon, TypeInv, LocalOK
  <1> QED BY <1>2, <1>3, <1>4, <1>5, <1>6, <1>7 DEF Directory!GiveUp, Directory!Says

(* A statement that was left makes the change late, or never.              *)
LEMMA SettleImplements ==
    ASSUME TypeInv, History, Carried, NEW g \in Goroutine, Settle(g)
    PROVE  Directory!Late(g)
  <1>1. /\ left[g] \in Writes /\ left[g] # "none" /\ At(g) = left[g]
        /\ pc'[g] = "idle" /\ left' = [left EXCEPT ![g] = "none"] /\ left'[g] = "none"
        /\ reply' = reply
    BY DEF Settle, TypeInv, LocalOK, Shape
  <1>2. Others(g)
    BY TypeSettle
  <1>3. {h \in Goroutine : left[h] # "none"}' = {h \in Goroutine : left[h] # "none"} \ {g}
    BY <1>1, <1>2 DEF Others
  <1>4. [h \in Goroutine |-> Seen(h)]'
           = [[h \in Goroutine |-> Seen(h)] EXCEPT ![g] = NoUser]
    <2>1. Seen(g)' = NoUser
      BY <1>1 DEF Seen
    <2> QED BY <1>2, <2>1, OthersSee
  <1>5. [h \in Goroutine |-> IF At(h) # "idle" THEN req[h] ELSE Nil]'
           = [[h \in Goroutine |-> IF At(h) # "idle" THEN req[h] ELSE Nil] EXCEPT ![g] = Nil]
    BY <1>1, <1>2 DEF Others
  <1>6. PICK w : Ends(g, w)
    BY SettleEnds
  <1>7. \/ /\ req[g].op = "register"
           /\ \E id \in UserID \ {i \in UserID : born[i] # NoUser} : Directory!NewAccount(g, id)
        \/ req[g].op = "update" /\ Directory!Change(g)
        \/ req[g].op = "delete" /\ Directory!Removal(g)
        \/ UNCHANGED Directory!directory
    <2>1. CASE UNCHANGED db
      BY <2>1 DEF db, Directory!directory
    <2>2. CASE Inserted(g)
      BY <2>2, InsertedIsNew DEF Inserted, TypeInv, Shape, Registering
    <2>3. CASE Changed(g)
      BY <2>3, ChangedIsChange DEF Changed, TypeInv, Shape, Updating
    <2>4. CASE Removed(g)
      BY <2>4, RemovedIsRemoval DEF Removed, TypeInv, Shape
    <2> QED BY <1>6, <2>1, <2>2, <2>3, <2>4, EndsOutcome
  <1>8. [h \in Goroutine |-> IF At(h) # "idle" THEN req[h] ELSE Nil][g] = req[g]
    BY <1>1 DEF Writes
  <1> QED BY <1>1, <1>3, <1>4, <1>5, <1>7, <1>8 DEF Directory!Late

(* The calls of a replica that dies are lost together, but for the writes  *)
(* that run.                                                               *)
LEMMA CrashImplements ==
    ASSUME TypeInv, NEW r, Crash(r)
    PROVE  \E S \in SUBSET Goroutine : \E L \in SUBSET S : Directory!Lose(S, L)
  <1> PICK S \in SUBSET Goroutine : S = {g \in Goroutine : Host[g] = r}
    OBVIOUS
  <1> PICK L \in SUBSET S : L = {g \in S : pc[g] \in Writes}
    OBVIOUS
  <1> DEFINE Adrift == {g \in Goroutine : left[g] # "none"}
  <1>1. ASSUME NEW g \in L
        PROVE  \E op \in Directory!Changes : Directory!Waits(g, op)
    <2>1. pc[g] # "idle" /\ left[g] = "none"
      BY Attended DEF Writes
    <2>2. req[g].op \in Directory!Changes
      BY <2>1 DEF TypeInv, Shape, Registering, Updating, Writes, Directory!Changes
    <2> QED BY <2>1, <2>2, AskedCall
  <1>2. Adrift' = Adrift \cup L
    BY DEF Crash, Writes
  <1>3. ASSUME NEW g \in Goroutine
        PROVE  IF g \in S \ (L \cup Adrift) THEN At(g)' = "idle"
               ELSE At(g)' = At(g) /\ req'[g] = req[g] /\ (At(g) # "idle" => user'[g] = user[g])
    BY DEF Crash, TypeInv, Shape, LocalOK, Writes
  <1>4. [g \in Goroutine |-> Seen(g)]'
           = [g \in Goroutine |-> IF g \in S \ (L \cup Adrift) THEN NoUser
                                  ELSE [h \in Goroutine |-> Seen(h)][g]]
    <2>1. ASSUME NEW g \in Goroutine
          PROVE  Seen(g)' = IF g \in S \ (L \cup Adrift) THEN NoUser ELSE Seen(g)
      <3> HIDE DEF Adrift, At
      <3> QED BY <1>3 DEF Seen
    <2> QED BY <2>1
  <1>5. [g \in Goroutine |-> IF At(g) # "idle" THEN req[g] ELSE Nil]'
           = [g \in Goroutine |-> IF g \in S \ (L \cup Adrift) THEN Nil
                 ELSE [h \in Goroutine |-> IF At(h) # "idle" THEN req[h] ELSE Nil][g]]
    <2> HIDE DEF Adrift, At
    <2> QED BY <1>3
  <1>6. /\ UNCHANGED Directory!directory
        /\ reply' = [g \in Goroutine |-> IF g \in S THEN NoReply ELSE reply[g]]
    BY DEF Crash, db, Directory!directory
  <1>7. Directory!Lose(S, L)
    BY <1>1, <1>2, <1>4, <1>5, <1>6 DEF Directory!Lose
  <1> QED BY <1>7

(* Each action of a goroutine is its counterpart in the directory.         *)
LEMMA StepImplements ==
    ASSUME TypeInv, History, Carried, EmailsUnique, StoredValid,
           NEW g \in Goroutine, Call(g) \/ Step(g) \/ Settle(g)
    PROVE  Directory!Next \/ UNCHANGED Directory!vars
  <1>1. Others(g)
    BY StepClasses
  <1>2. CASE Call(g)
    BY <1>1, <1>2, CallImplements DEF Directory!Next
  <1>3. CASE RegisterCheck(g) \/ RegisterBuild(g) \/ RegisterInsert(g)
    BY <1>1, <1>3, RegisterImplements DEF Directory!Next
  <1>4. CASE AuthenticateRead(g) \/ AuthenticateIssue(g)
    BY <1>1, <1>4, AuthenticateImplements DEF Directory!Next
  <1>5. CASE GetRead(g)
    BY <1>1, <1>5, GetImplements DEF Directory!Next
  <1>6. CASE UpdateRead(g)
    BY <1>1, <1>6, UpdateReadImplements DEF Directory!Next
  <1>7. CASE UpdateCheck(g) \/ UpdateStamp(g)
    BY <1>1, <1>7, UpdateCheckImplements DEF Directory!Next
  <1>8. CASE UpdateWrite(g)
    BY <1>1, <1>8, UpdateWriteImplements DEF Directory!Next
  <1>9. CASE DeleteRow(g)
    BY <1>1, <1>9, DeleteImplements DEF Directory!Next
  <1>10. CASE Abandon(g)
    BY <1>10, AbandonImplements DEF Directory!Next
  <1>11. CASE Settle(g)
    BY <1>11, SettleImplements DEF Directory!Next
  <1> QED BY <1>2, <1>3, <1>4, <1>5, <1>6, <1>7, <1>8, <1>9, <1>10, <1>11 DEF Step

(* A step that changes nothing is not seen in the directory.               *)
LEMMA SilentImplements ==
    ASSUME UNCHANGED vars
    PROVE  UNCHANGED Directory!vars
  <1>1. /\ users' = users /\ born' = born /\ pc' = pc /\ req' = req /\ user' = user
        /\ reply' = reply /\ left' = left
    BY DEF vars, db, local
  <1>2. [g \in Goroutine |-> Seen(g)]' = [g \in Goroutine |-> Seen(g)]
    BY <1>1 DEF Seen
  <1> QED BY <1>1, <1>2 DEF Directory!vars, Directory!directory

(* The service implements the directory: whatever the interleaving, the    *)
(* failed statements and the crashes, each call takes effect at one        *)
(* instant, its answer is true at that instant, and a write changes no     *)
(* more than its caller asked for and the fields Update wrote back.  The   *)
(* instant comes before the answer, unless that is an internal error or    *)
(* never given; then it may come after it, once at most.                   *)
THEOREM ServiceImplementsDirectory == Spec => ImplementsDirectory
  <1>1. Init => Directory!Init
    BY DEF Init, Directory!Init, Seen
  <1>2. TypeInv /\ History /\ Carried /\ EmailsUnique /\ StoredValid /\ [Next]_vars
           => [Directory!Next]_(Directory!vars)
    <2> SUFFICES ASSUME TypeInv, History, Carried, EmailsUnique, StoredValid, [Next]_vars
                 PROVE  Directory!Next \/ UNCHANGED Directory!vars
      OBVIOUS
    <2>1. ASSUME NEW g \in Goroutine, Call(g) \/ Step(g) \/ Settle(g)
          PROVE  Directory!Next \/ UNCHANGED Directory!vars
      BY <2>1, StepImplements
    <2>2. ASSUME NEW r, Crash(r)
          PROVE  Directory!Next
      BY <2>2, CrashImplements DEF Directory!Next
    <2>3. CASE UNCHANGED vars
      BY <2>3, SilentImplements
    <2> QED BY <2>1, <2>2, <2>3 DEF Next, Quiesce
  <1> QED BY <1>1, <1>2, HistoryAlways, CarriedAlways, UniqueEmails, RowsValid, PTL
             DEF Spec, ImplementsDirectory, Directory!Spec
=============================================================================
