------------------------------- MODULE Paging -------------------------------
(***************************************************************************)
(* GET /users through its three layers (user_handler.go, user_service.go,  *)
(* user_repository.go), read page after page by a client while accounts    *)
(* are registered and deleted.  Of a row only the id and created_at are    *)
(* left: updates change neither.  The client is one that asks next for     *)
(* what follows the rows it has, up to an empty page; a failed request it  *)
(* sends again.                                                            *)
(***************************************************************************)
EXTENDS Integers, FiniteSetsExt, SequencesExt

CONSTANTS
    UserID,
    NoUser,        \* the zero User
    Created,       \* created_at: the instant each account is stamped with
    DefaultLimit,  \* 20
    MaxLimit,      \* 100
    MaxInt,        \* the largest int
    Limits,        \* what the client may send as limit ...
    Starts         \* ... and as offset, to begin with the first row

(* A query parameter: left out, no number, out of the range of int, or a   *)
(* number.                                                                 *)
Parameter == [form : {"absent", "junk", "huge", "number"}, n : Int]
Number(i) == [form |-> "number", n |-> i]

ASSUME UserIDAssumption == IsFiniteSet(UserID)
ASSUME LimitAssumption ==
    /\ DefaultLimit \in 1 .. MaxLimit /\ MaxLimit \in Nat
    /\ MaxInt \in Nat /\ MaxInt > MaxLimit + Cardinality(UserID)
ASSUME ParameterAssumption == Limits \cup Starts \subseteq Parameter
ASSUME CreatedAssumption == Created \in [UserID -> Nat]

VARIABLES
    rows,     \* the accounts in the users table
    used,     \* history: those that ever were
    first,    \* history: the accounts there when the client began
    limit,    \* the limit the client sends
    offset,   \* the offset it sends
    got,      \* the rows it has received
    phase     \* "scan" or "done"

table == <<rows, used>>
client == <<first, limit, offset, got, phase>>
vars == <<table, client>>

Init ==
    /\ rows \in SUBSET UserID
    /\ used = rows /\ first = rows
    /\ limit \in Limits /\ offset \in Starts
    /\ got = <<>>
    /\ phase = "scan"

-----------------------------------------------------------------------------
(* The handler: strconv.Atoi with its error ignored; out of range it still *)
(* answers the nearest int.                                                *)
Atoi(p, default) == CASE p.form = "absent" -> default
                      [] p.form = "junk" -> 0
                      [] p.form = "huge" -> MaxInt
                      [] p.form = "number" -> p.n

OffsetOf(p) == Atoi(p, 0)

(* Not the code: the limit taken as it is.                                 *)
PageSizeUnbounded(n) == IF n <= 0 THEN DefaultLimit ELSE n

(* The service: both brought into their ranges without a word.             *)
PageSize(n) == IF n <= 0 THEN DefaultLimit ELSE Min({n, MaxLimit})
PageStart(n) == Max({n, 0})

ASSUME StartAssumption == \A p \in Starts : PageStart(OffsetOf(p)) = 0

(* Not the code: in the order the table happens to have.                   *)
OrderedByNothing(s) == SetToSeqs(s)

(* The orders ORDER BY created_at DESC admits: rows of one instant may     *)
(* come out one way now and the other way with the next page.              *)
Ordered(s) ==
    {o \in SetToSeqs(s) :
        \A i, j \in DOMAIN o : i < j => Created[o[i]] >= Created[o[j]]}

(* Not the code: the slice made with a length instead of none.             *)
PagesPadded(size, start) ==
    {[i \in 1 .. size |-> NoUser] \o SubSeq(o, start + 1, Min({start + size, Len(o)})) :
        o \in Ordered(rows)}

(* Not the code: an empty page taken for an error.                         *)
PagesOrNotFound(size, start) ==
    {SubSeq(o, start + 1, Min({start + size, Len(o)})) : o \in Ordered(rows)} \ {<<>>}

(* The repository: one statement, on one snapshot.                         *)
Pages(size, start) ==
    {SubSeq(o, start + 1, Min({start + size, Len(o)})) : o \in Ordered(rows)}

-----------------------------------------------------------------------------
(* Not the code: the rows so far, and rows.Err not looked at.              *)
ListFailsSilently ==
    /\ phase = "scan"
    /\ phase' = "done"
    /\ UNCHANGED <<table, first, limit, offset, got>>

(* The statement fails, or its rows stop half-way: an error, no rows.      *)
ListFails ==
    /\ phase = "scan"
    /\ UNCHANGED vars

List ==
    /\ phase = "scan"
    /\ \E p \in Pages(PageSize(Atoi(limit, DefaultLimit)), PageStart(OffsetOf(offset))) :
          IF p = <<>>
          THEN phase' = "done" /\ UNCHANGED <<offset, got>>
          ELSE /\ got' = got \o p
               /\ offset' = Number(Len(got'))
               /\ UNCHANGED phase
    /\ UNCHANGED <<table, first, limit>>

(* A registration is committed, with the instant its replica read earlier: *)
(* it may come anywhere in the order.                                      *)
Register(u) ==
    /\ phase = "scan" /\ u \notin used
    /\ rows' = rows \cup {u} /\ used' = used \cup {u}
    /\ UNCHANGED client

Delete(u) ==
    /\ phase = "scan" /\ u \in rows
    /\ rows' = rows \ {u}
    /\ UNCHANGED <<used, client>>

(* Not a deadlock: the client has finished.                                *)
Finished == phase = "done" /\ UNCHANGED vars

Next == \/ List \/ ListFails
        \/ \E u \in UserID : Register(u) \/ Delete(u)
        \/ Finished

Spec == Init /\ [][Next]_vars

(* The client goes on asking and the database does not fail every time.    *)
FairSpec == Spec /\ WF_vars(List)

-----------------------------------------------------------------------------
Added == used \ first
Deleted == used \ rows
Ties == \E u, v \in used : u # v /\ Created[u] = Created[v]

PagingTypeOK ==
    /\ first \subseteq used /\ rows \subseteq used /\ used \subseteq UserID
    /\ offset \in Parameter /\ phase \in {"scan", "done"}
    /\ got \in Seq(used)

(* As long as no two rows share an instant: a client that has come to the  *)
(* end has missed, of the accounts that were there all the time, at most   *)
(* one for each account deleted meanwhile, whatever limit it sent          *)
(* (user_service.go:122-130, user_repository.go:81-103).                   *)
MissesOnlyByDeletes ==
    phase = "done" /\ ~Ties =>
        Cardinality((first \cap rows) \ ToSet(got)) <= Cardinality(Deleted)

(* And it receives an account twice at most once for each account that was *)
(* registered meanwhile (user_repository.go:81-82).                        *)
RepeatsOnlyByInserts ==
    ~Ties => Len(got) - Cardinality(ToSet(got)) <= Cardinality(Added)

(* No answer holds more than MaxLimit rows, and no page but the last is    *)
(* shorter than asked for: each request brings the client on by as much as *)
(* it may (user_service.go:122-127).                                       *)
PagesFilled ==
    [][got' # got =>
          LET n == Len(got') - Len(got)
              asked == Atoi(limit, DefaultLimit)
          IN /\ n <= MaxLimit
             /\ asked > 0 /\ Len(got') < Cardinality(rows) =>
                   n = Min({asked, MaxLimit})]_vars

(* Every scan comes to an end, however many come and go meanwhile          *)
(* (user_handler.go:37).                                                   *)
ScanEnds == <>(phase = "done")
=============================================================================
