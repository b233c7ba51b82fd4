--------------------------- MODULE UserRepository ---------------------------
(***************************************************************************)
(* The Postgres adapter (internal/adapter/postgres/user_repository.go).    *)
(*                                                                         *)
(* Every method is one auto-committed statement on the users table, so it  *)
(* is given here as the set of its possible outcomes on a table tbl, a     *)
(* total function from ids to rows or NoUser.  A read answers              *)
(* [user, err]; a write [table, err, wrote], wrote telling whether it      *)
(* changed a row.  Any statement may fail ("internal": timeout,            *)
(* cancelled context, lost connection).  A write that fails so may have    *)
(* been committed before, or may be committed later: of the latter the     *)
(* outcome is that of the statement at that later instant (UserService).   *)
(***************************************************************************)
EXTENDS Domain

Table == [UserID -> User \cup {NoUser}]

Rows(tbl) == {tbl[id] : id \in UserID} \ {NoUser}

Holders(tbl, e) == {r \in Rows(tbl) : r.email = e}

(* scanOne: the row the query found, ErrNotFound on no rows, or an error.  *)
ScanOne(rows) ==
    {[user |-> NoUser, err |-> "internal"]} \cup
    IF rows = {} THEN {[user |-> NoUser, err |-> "not_found"]}
                 ELSE {[user |-> r, err |-> "nil"] : r \in rows}

GetByID(tbl, id) == ScanOne({r \in Rows(tbl) : r.id = id})

GetByEmail(tbl, e) == ScanOne(Holders(tbl, e))

-----------------------------------------------------------------------------
Effect == {"none", "row"}

(* A statement that can be applied and has ended: it is applied, or it     *)
(* fails on either side of its commit.                                     *)
Applied(tbl, new) ==
    {[table |-> new, err |-> e, wrote |-> "row"] : e \in {"nil", "internal"}}
    \cup {[table |-> tbl, err |-> "internal", wrote |-> "none"]}

(* A statement the database refuses, or that touches no row.               *)
Refused(tbl, error) ==
    {[table |-> tbl, err |-> e, wrote |-> "none"] : e \in {error, "internal"}}

(* Not the code: no UNIQUE constraint on email.                            *)
CreateUnconstrained(tbl, u) ==
    IF \E r \in Rows(tbl) : r.id = u.id
    THEN Refused(tbl, "conflict")
    ELSE Applied(tbl, [tbl EXCEPT ![u.id] = u])

(* Not the code: the driver's error passed on instead of ErrConflict.      *)
CreateUntranslated(tbl, u) ==
    IF \E r \in Rows(tbl) : r.id = u.id \/ r.email = u.email
    THEN Refused(tbl, "23505")
    ELSE Applied(tbl, [tbl EXCEPT ![u.id] = u])

(* INSERT, under the primary key on id and the UNIQUE constraint on email. *)
Create(tbl, u) ==
    IF \E r \in Rows(tbl) : r.id = u.id \/ r.email = u.email
    THEN Refused(tbl, "conflict")
    ELSE Applied(tbl, [tbl EXCEPT ![u.id] = u])

(* Not the code: an update that inserts the row it does not find.          *)
UpdateUpsert(tbl, u) ==
    IF \E r \in Holders(tbl, u.email) : r.id # u.id
    THEN Refused(tbl, "conflict")
    ELSE Applied(tbl, [tbl EXCEPT ![u.id] = u])

(* Not the code: RowsAffected() = 0 goes unnoticed.                        *)
UpdateUnnoticed(tbl, u) ==
    IF tbl[u.id] = NoUser
    THEN Refused(tbl, "nil")
    ELSE IF \E r \in Holders(tbl, u.email) : r.id # u.id
    THEN Refused(tbl, "conflict")
    ELSE Applied(tbl, [tbl EXCEPT ![u.id].email = u.email,
                                  ![u.id].name = u.name,
                                  ![u.id].updated = u.updated])

(* UPDATE of email, name and updated_at by id.                             *)
Update(tbl, u) ==
    IF tbl[u.id] = NoUser
    THEN Refused(tbl, "not_found")
    ELSE IF \E r \in Holders(tbl, u.email) : r.id # u.id
    THEN Refused(tbl, "conflict")
    ELSE Applied(tbl, [tbl EXCEPT ![u.id].email = u.email,
                                  ![u.id].name = u.name,
                                  ![u.id].updated = u.updated])

(* Not the code: RowsAffected() = 0 goes unnoticed.                        *)
DeleteUnnoticed(tbl, id) ==
    IF tbl[id] = NoUser
    THEN Refused(tbl, "nil")
    ELSE Applied(tbl, [tbl EXCEPT ![id] = NoUser])

(* DELETE by id.                                                           *)
Delete(tbl, id) ==
    IF tbl[id] = NoUser
    THEN Refused(tbl, "not_found")
    ELSE Applied(tbl, [tbl EXCEPT ![id] = NoUser])
=============================================================================
