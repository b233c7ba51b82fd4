------------------------------- MODULE Domain -------------------------------
(***************************************************************************)
(* The user entity and its validation rules (internal/domain/user.go).     *)
(*                                                                         *)
(* Strings are abstracted to what the rules tell apart.  An e-mail address *)
(* is the text it normalises to and whether it is already in that form;    *)
(* a name is its trimmed text and the number of blanks around it; a        *)
(* password is a value with a length and the part of it bcrypt looks at.   *)
(***************************************************************************)
EXTENDS Naturals

CONSTANTS
    UserID,       \* the UUIDs that can occur
    EmailText,    \* normalised e-mail texts
    BlankEmail,   \* the empty text
    WithAt,       \* the texts that contain an "@"
    NameText,     \* trimmed names
    NameLen,      \* the length of a trimmed name, in bytes
    Password,     \* passwords
    PasswordLen,  \* the length of a password, in bytes
    BcryptKey,    \* the first 72 bytes of a password: all that bcrypt uses
    Nil,          \* Go's nil: a field the request does not carry
    NoUser        \* a nil *User, or no row

Email == [text : EmailText, tidy : BOOLEAN]
Name  == [text : NameText, pad : Nat]

(* A row of the users table and the domain entity; hash stands for the     *)
(* bcrypt hash of that password.                                           *)
User == [id : UserID, email : Email, name : Name, hash : Password,
         created : Nat, updated : Nat]

ASSUME EmailAssumption == WithAt \subseteq EmailText /\ BlankEmail \notin WithAt
ASSUME NameAssumption == NameLen \in [NameText -> Nat]
ASSUME PasswordAssumption ==
    /\ PasswordLen \in [Password -> Nat]
    /\ BcryptKey \in [Password -> Password]
    /\ \A p \in Password : IF PasswordLen[p] <= 72
                           THEN BcryptKey[p] = p
                           ELSE PasswordLen[BcryptKey[p]] = 72
ASSUME NilAssumption == Nil \notin Email \cup Name \cup Password \cup UserID
                        /\ NoUser \notin User

-----------------------------------------------------------------------------
NormalizeEmail(e) == [e EXCEPT !.tidy = TRUE]

(* Both e-mail rules of the code: ValidateRegister and Update apply them   *)
(* to the normalised address.                                              *)
ValidEmail(e) == e.text # BlankEmail /\ e.text \in WithAt

TrimSpace(n) == [n EXCEPT !.pad = 0]

Bytes(n) == NameLen[n.text] + n.pad

(* Register applies the rule to the trimmed name, Update to the name as it *)
(* was sent.                                                               *)
ValidName(n) == Bytes(n) \in 1 .. 100

ValidateRegister(in) ==
    /\ ValidEmail(NormalizeEmail(in.email))
    /\ ValidName(TrimSpace(in.name))
    /\ PasswordLen[in.password] >= 8

(* Not the code: the name measured as Register measures it, but not        *)
(* trimmed for it.                                                         *)
ValidUpdateTrimmed(in) ==
    /\ in.name # Nil => ValidName(TrimSpace(in.name))
    /\ in.email # Nil => ValidEmail(NormalizeEmail(in.email))

(* The rules Update applies to the fields it is sent.                      *)
ValidUpdate(in) ==
    /\ in.name # Nil => ValidName(in.name)
    /\ in.email # Nil => ValidEmail(NormalizeEmail(in.email))

(* bcrypt.GenerateFromPassword refuses more than 72 bytes;                 *)
(* CompareHashAndPassword does not, and ignores the rest.                  *)
Hashable(p) == PasswordLen[p] <= 72
Matches(hash, p) == BcryptKey[p] = hash
=============================================================================
