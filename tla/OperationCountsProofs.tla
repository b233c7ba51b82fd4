----------------------- MODULE OperationCountsProofs ------------------------
(***************************************************************************)
(* The counters of the service's answers can be read against the table,    *)
(* for every number of goroutines, replicas, accounts and calls.           *)
(***************************************************************************)
EXTENDS UserServiceProofs, OperationCounts, FiniteSetTheorems

(* A count for each replica, operation and result, and at most one that is *)
(* due in each goroutine.                                                  *)
CountsType == counted \in [Replica -> [Op \X Labels -> Nat]]
DueType == due \in [Goroutine -> {Nil} \cup (Op \X Labels)]

(* The accounts of the seed are not among those registered since.          *)
SeedBorn == \A id \in UserID : Seed[id] # NoUser => born[id] # NoUser

(* The operations whose rows are counted, the rows, and the goroutines     *)
(* that answered and left the statement to the database.                   *)
Tallied == {"register", "delete"}
Accounts(op) == IF op = "register" THEN Registered ELSE Gone
Statement(op) == IF op = "register" THEN "register_insert" ELSE "delete"
Late(op) == {g \in Goroutine : left[g] = Statement(op)}

(* What is counted is finite, however many goroutines, replicas and ids    *)
(* there may be: it grows by one at a time.                                *)
FiniteCounts == /\ \A op \in Tallied : /\ IsFiniteSet(Accounts(op))
                                       /\ ~died => IsFiniteSet(Late(op))
                /\ \A op \in Op, result \in Labels : /\ IsFiniteSet(Ticks(op, result))
                                                     /\ IsFiniteSet(Due(op, result))

(* What is counted or about to be.                                         *)
Shown(op, result) == Total(op, result) + Cardinality(Due(op, result))

(* A statement that was left has been counted as an error already, so what *)
(* was counted covers the rows that may still come.                        *)
Balanced(op) ==
    /\ Shown(op, "success") <= Cardinality(Accounts(op))
    /\ ~died => Cardinality(Accounts(op)) + Cardinality(Late(op))
                   <= Shown(op, "success") + Shown(op, "error")

(* The inductive invariant.                                                *)
Counted == /\ CountsType /\ DueType /\ SeedBorn /\ FiniteCounts
           /\ \A op \in Tallied : Balanced(op)

(* The replica r counts once.                                              *)
Increments(r, op, result) == counted' = [counted EXCEPT ![r][<<op, result>>] = @ + 1]

(* One increment, in one replica, of one counter.                          *)
LEMMA OneIncrement ==
    ASSUME CountsType, NEW r \in Replica, NEW op \in Op, NEW result \in Labels,
           Increments(r, op, result)
    PROVE  /\ CountsType'
           /\ \A q \in Replica, p \in Op, s \in Labels :
                 counted'[q][<<p, s>>] = counted[q][<<p, s>>]
                       + (IF q = r /\ p = op /\ s = result THEN 1 ELSE 0)
  <1> DEFINE row == [counted[r] EXCEPT ![<<op, result>>] = counted[r][<<op, result>>] + 1]
  <1>1. counted[r] \in [Op \X Labels -> Nat] /\ counted[r][<<op, result>>] \in Nat
    BY DEF CountsType
  <1>2. /\ row \in [Op \X Labels -> Nat]
        /\ \A p \in Op, s \in Labels : row[<<p, s>>] = counted[r][<<p, s>>]
                                       + (IF p = op /\ s = result THEN 1 ELSE 0)
    BY <1>1
  <1>3. counted' = [counted EXCEPT ![r] = row]
    BY DEF Increments
  <1> HIDE DEF row
  <1>4. \A q \in Replica : counted'[q] = IF q = r THEN row ELSE counted[q]
    BY <1>3 DEF CountsType
  <1>5. \A q \in Replica, p \in Op, s \in Labels : counted[q][<<p, s>>] \in Nat
    BY DEF CountsType
  <1> QED BY <1>2, <1>3, <1>4, <1>5 DEF CountsType, Replica

(* It adds one tick.                                                       *)
LEMMA OneTick ==
    ASSUME CountsType, NEW r \in Replica, NEW op \in Op, NEW result \in Labels,
           Increments(r, op, result), NEW p \in Op, NEW s \in Labels
    PROVE  IF p = op /\ s = result
           THEN \E tick : tick \notin Ticks(p, s) /\ Ticks(p, s)' = Ticks(p, s) \cup {tick}
           ELSE Ticks(p, s)' = Ticks(p, s)
  <1>1. /\ \A x : x \in Ticks(p, s) <=>
              \E q \in Replica : x \in {q} \X (1 .. counted[q][<<p, s>>])
        /\ \A x : x \in Ticks(p, s)' <=>
              \E q \in Replica : x \in {q} \X (1 .. counted'[q][<<p, s>>])
    BY DEF Ticks, Replica
  <1>2. \A q \in Replica : counted[q][<<p, s>>] \in Nat
    BY DEF CountsType
  <1>3. CASE p = op /\ s = result
    <2> DEFINE n == counted[r][<<p, s>>]
    <2>1. \A q \in Replica : counted'[q][<<p, s>>] = IF q = r THEN n + 1 ELSE counted[q][<<p, s>>]
      BY <1>2, <1>3, OneIncrement
    <2>2. n \in Nat /\ 1 .. n + 1 = (1 .. n) \cup {n + 1} /\ n + 1 \notin 1 .. n
      BY <1>2
    <2>3. Ticks(p, s)' = Ticks(p, s) \cup {<<r, n + 1>>}
      BY <1>1, <2>1, <2>2
    <2>4. <<r, n + 1>> \notin Ticks(p, s)
      BY <1>1, <2>2
    <2> QED BY <1>3, <2>3, <2>4
  <1>4. CASE ~(p = op /\ s = result)
    <2>1. \A q \in Replica : counted'[q][<<p, s>>] = counted[q][<<p, s>>]
      BY <1>2, <1>4, OneIncrement
    <2>2. Ticks(p, s)' = Ticks(p, s)
      BY <1>1, <2>1
    <2> QED BY <1>4, <2>2
  <1> QED BY <1>3, <1>4

(* So one total grows by one.                                              *)
LEMMA TotalsGrow ==
    ASSUME CountsType, NEW r \in Replica, NEW op \in Op, NEW result \in Labels,
           Increments(r, op, result),
           \A p \in Op, s \in Labels : IsFiniteSet(Ticks(p, s))
    PROVE  /\ CountsType' /\ \A p \in Op, s \in Labels : IsFiniteSet(Ticks(p, s)')
           /\ \A p \in Op, s \in Labels :
                 Total(p, s)' = Total(p, s) + (IF p = op /\ s = result THEN 1 ELSE 0)
  <1>1. ASSUME NEW p \in Op, NEW s \in Labels
        PROVE  /\ IsFiniteSet(Ticks(p, s)')
               /\ Total(p, s)' = Total(p, s) + (IF p = op /\ s = result THEN 1 ELSE 0)
    <2>1. CASE p = op /\ s = result
      <3>1. PICK tick : tick \notin Ticks(p, s) /\ Ticks(p, s)' = Ticks(p, s) \cup {tick}
        BY <2>1, OneTick
      <3> QED BY <2>1, <3>1, FS_AddElement DEF Total
    <2>2. CASE ~(p = op /\ s = result)
      <3>1. Ticks(p, s)' = Ticks(p, s)
        BY <2>2, OneTick
      <3> QED BY <2>2, <3>1, FS_CardinalityType DEF Total
    <2> QED BY <2>1, <2>2
  <1> QED BY <1>1, OneIncrement

(* A replica that dies forgets some.                                       *)
LEMMA TicksForgotten ==
    ASSUME CountsType, NEW r \in Replica, counted' = [counted EXCEPT ![r] = NoneCounted],
           NEW p \in Op, NEW s \in Labels, IsFiniteSet(Ticks(p, s))
    PROVE  CountsType' /\ IsFiniteSet(Ticks(p, s)') /\ Total(p, s)' <= Total(p, s)
  <1>1. CountsType'
    BY DEF CountsType, NoneCounted
  <1>2. \A q \in Replica : counted'[q][<<p, s>>] = IF q = r THEN 0 ELSE counted[q][<<p, s>>]
    BY DEF CountsType, NoneCounted
  <1>3. Ticks(p, s)' \subseteq Ticks(p, s)
    <2>1. \A q \in Replica : {q} \X (1 .. counted'[q][<<p, s>>]) \subseteq {q} \X (1 .. counted[q][<<p, s>>])
      BY <1>2
    <2> QED BY <2>1 DEF Ticks, Replica
  <1> QED BY <1>1, <1>3, FS_Subset DEF Total

-----------------------------------------------------------------------------
(* Sets that gain or lose one element.                                     *)
LEMMA OneMore ==
    ASSUME NEW S, NEW T, NEW x, IsFiniteSet(S), x \notin S, T = S \cup {x}
    PROVE  IsFiniteSet(T) /\ Cardinality(T) = Cardinality(S) + 1
  BY FS_AddElement

LEMMA OneLess ==
    ASSUME NEW S, NEW T, NEW x, IsFiniteSet(S), x \in S, T = S \ {x}
    PROVE  IsFiniteSet(T) /\ Cardinality(T) = Cardinality(S) - 1
  BY FS_RemoveElement

(* An increment that comes due, ...                                        *)
Becomes(g, key) == due' = [due EXCEPT ![g] = key]

LEMMA DueGrows ==
    ASSUME DueType, NEW g \in Goroutine, due[g] = Nil,
           NEW op \in Op, NEW s \in Labels, Becomes(g, <<op, s>>),
           \A p \in Op, t \in Labels : IsFiniteSet(Due(p, t))
    PROVE  /\ DueType' /\ \A p \in Op, t \in Labels : IsFiniteSet(Due(p, t)')
           /\ \A p \in Op, t \in Labels : Cardinality(Due(p, t)') =
                 Cardinality(Due(p, t)) + (IF p = op /\ t = s THEN 1 ELSE 0)
  <1>1. <<op, s>> \in Op \X Labels
    OBVIOUS
  <1>2. DueType' /\ \A h \in Goroutine : due'[h] = IF h = g THEN <<op, s>> ELSE due[h]
    BY <1>1 DEF DueType, Becomes
  <1>3. ASSUME NEW p \in Op, NEW t \in Labels
        PROVE  /\ IsFiniteSet(Due(p, t)')
               /\ Cardinality(Due(p, t)') =
                     Cardinality(Due(p, t)) + (IF p = op /\ t = s THEN 1 ELSE 0)
    <2>0. Cardinality(Due(p, t)) \in Nat
      BY FS_CardinalityType
    <2>1. CASE p = op /\ t = s
      <3>1. g \notin Due(p, t) /\ Due(p, t)' = Due(p, t) \cup {g}
        BY <1>1, <1>2, <2>1, DueAssumption DEF Due
      <3> QED BY <2>1, <3>1, OneMore
    <2>2. CASE ~(p = op /\ t = s)
      <3>1. Due(p, t)' = Due(p, t)
        BY <1>2, <2>2, DueAssumption DEF Due
      <3> QED BY <2>0, <2>2, <3>1
    <2> QED BY <2>1, <2>2
  <1> QED BY <1>2, <1>3

(* ... and one that is made.                                               *)
LEMMA DueShrinks ==
    ASSUME DueType, NEW g \in Goroutine, NEW op \in Op, NEW s \in Labels,
           due[g] = <<op, s>>, due' = [due EXCEPT ![g] = Nil],
           \A p \in Op, t \in Labels : IsFiniteSet(Due(p, t))
    PROVE  /\ DueType' /\ \A p \in Op, t \in Labels : IsFiniteSet(Due(p, t)')
           /\ \A p \in Op, t \in Labels : Cardinality(Due(p, t)') =
                 Cardinality(Due(p, t)) - (IF p = op /\ t = s THEN 1 ELSE 0)
  <1>1. <<op, s>> \in Op \X Labels
    OBVIOUS
  <1>2. DueType' /\ \A h \in Goroutine : due'[h] = IF h = g THEN Nil ELSE due[h]
    BY DEF DueType
  <1>3. ASSUME NEW p \in Op, NEW t \in Labels
        PROVE  /\ IsFiniteSet(Due(p, t)')
               /\ Cardinality(Due(p, t)') =
                     Cardinality(Due(p, t)) - (IF p = op /\ t = s THEN 1 ELSE 0)
    <2>0. Cardinality(Due(p, t)) \in Nat
      BY FS_CardinalityType
    <2>1. CASE p = op /\ t = s
      <3>1. g \in Due(p, t) /\ Due(p, t)' = Due(p, t) \ {g}
        BY <1>1, <1>2, <2>1, DueAssumption DEF Due
      <3> QED BY <2>1, <3>1, OneLess
    <2>2. CASE ~(p = op /\ t = s)
      <3>1. Due(p, t)' = Due(p, t)
        BY <1>2, <2>2, DueAssumption DEF Due
      <3> QED BY <2>0, <2>2, <3>1
    <2> QED BY <2>1, <2>2
  <1> QED BY <1>2, <1>3

-----------------------------------------------------------------------------
(* What the changes of the table do to the accounts registered and gone.   *)
LEMMA InsertedAccounts ==
    ASSUME TypeInv, History, SeedBorn, NEW g \in Goroutine, Inserted(g)
    PROVE  /\ user[g].id \notin Registered /\ Registered' = Registered \cup {user[g].id}
           /\ Gone' = Gone
  <1>1. /\ user[g] \in User /\ user[g].id \in UserID /\ born[user[g].id] = NoUser
        /\ Seed[user[g].id] = NoUser /\ user[g] # NoUser
    BY NilAssumption DEF Inserted, TypeInv, Shape, Holding, User, History, PlanFresh, SeedBorn
  <1>2. \A id \in UserID : /\ born'[id] = IF id = user[g].id THEN user[g] ELSE born[id]
                           /\ users'[id] = IF id = user[g].id THEN user[g] ELSE users[id]
    BY <1>1 DEF Inserted, Inserts, TypeInv, StoreOK, Table
  <1> QED BY <1>1, <1>2 DEF Registered, Gone

(* An update changes neither set, and a delete adds one account to those   *)
(* gone.                                                                   *)
LEMMA ChangedAccounts ==
    ASSUME TypeInv, NEW g \in Goroutine, Changed(g)
    PROVE  Registered' = Registered /\ Gone' = Gone
  <1>1. /\ user[g] \in User /\ user[g].id \in UserID
        /\ users[user[g].id] \in User /\ users[user[g].id] # NoUser
    BY DEF Changed, Changes, TypeInv, StoreOK, Table, Shape, Holding, User
  <1>2. users' \in Table /\ users'[user[g].id] \in User
    <2> DEFINE row == [users[user[g].id] EXCEPT !.email = user[g].email,
                          !.name = user[g].name, !.updated = user[g].updated]
    <2>1. row \in User
      BY <1>1 DEF User
    <2>2. users' = [users EXCEPT ![user[g].id] = row]
      BY DEF Changed, Changes
    <2> HIDE DEF row
    <2> QED BY <1>1, <2>1, <2>2 DEF TypeInv, StoreOK, Table
  <1>3. \A id \in UserID \ {user[g].id} : users'[id] = users[id]
    BY <1>1 DEF Changed, Changes, TypeInv, StoreOK, Table
  <1>4. \A id \in UserID : users'[id] = NoUser <=> users[id] = NoUser
    BY <1>1, <1>2, <1>3, NilAssumption
  <1> QED BY <1>4 DEF Changed, Registered, Gone

LEMMA RemovedAccounts ==
    ASSUME TypeInv, History, NEW g \in Goroutine, Removed(g), req[g].id \in UserID,
           users[req[g].id] # NoUser
    PROVE  /\ Registered' = Registered
           /\ req[g].id \notin Gone /\ Gone' = Gone \cup {req[g].id}
  <1>1. \A id \in UserID : users'[id] = IF id = req[g].id THEN NoUser ELSE users[id]
    BY DEF Removed, Removes, TypeInv, StoreOK, Table
  <1>2. born[req[g].id] # NoUser
    BY DEF History, RowsBorn
  <1> QED BY <1>1, <1>2 DEF Removed, Registered, Gone

LEMMA SeedBornNext ==
    ASSUME TypeInv, History, SeedBorn, [Next]_vars
    PROVE  SeedBorn'
  BY BornStays DEF SeedBorn

-----------------------------------------------------------------------------
(* A statement that takes effect adds one account to those its operation   *)
(* is counted by, and none to the other's.                                 *)
LEMMA AccountsGrow ==
    ASSUME TypeInv, History, SeedBorn, FiniteCounts, NEW g \in Goroutine,
           Inserted(g) \/ Changed(g) \/ Removed(g), NEW op \in Tallied
    PROVE  /\ IsFiniteSet(Accounts(op)')
           /\ Cardinality(Accounts(op)') =
                 Cardinality(Accounts(op)) + (IF At(g) = Statement(op) THEN 1 ELSE 0)
  <1>1. IsFiniteSet(Accounts(op)) /\ Cardinality(Accounts(op)) \in Nat
    BY FS_CardinalityType DEF FiniteCounts
  <1>2. CASE Inserted(g)
    <2>1. At(g) = "register_insert"
      BY <1>2 DEF Inserted
    <2>2. CASE op = "register"
      BY <1>1, <1>2, <2>1, <2>2, InsertedAccounts, OneMore DEF Accounts, Statement
    <2>3. CASE op = "delete"
      BY <1>1, <1>2, <2>1, <2>3, InsertedAccounts DEF Accounts, Statement
    <2> QED BY <2>2, <2>3 DEF Tallied
  <1>3. CASE Changed(g)
    <2>1. At(g) = "update_write" /\ Accounts(op)' = Accounts(op)
      BY <1>3, ChangedAccounts DEF Changed, Accounts
    <2> QED BY <1>1, <2>1 DEF Statement
  <1>4. CASE Removed(g)
    <2>1. /\ At(g) = "delete" /\ req[g].id \in UserID /\ users[req[g].id] # NoUser
      BY <1>4 DEF Removed, TypeInv, Shape
    <2>2. CASE op = "register"
      BY <1>1, <1>4, <2>1, <2>2, RemovedAccounts DEF Accounts, Statement
    <2>3. CASE op = "delete"
      BY <1>1, <1>4, <2>1, <2>3, RemovedAccounts, OneMore DEF Accounts, Statement
    <2> QED BY <2>2, <2>3 DEF Tallied
  <1> QED BY <1>2, <1>3, <1>4

(* What a write statement is counted as when its method answers.           *)
LEMMA WriteCounts ==
    ASSUME TypeInv, NEW g \in Goroutine,
           RegisterInsert(g) \/ UpdateWrite(g) \/ DeleteRow(g)
    PROVE  LET s == Label(pc[g], reply'[g].err) IN
           /\ req[g].op \in {"register", "update", "delete"} /\ s \in Labels
           /\ UNCHANGED left /\ At(g) = pc[g]
           /\ \A op \in Tallied : At(g) = Statement(op) <=> req[g].op = op
           /\ \/ UNCHANGED db /\ s # "success"
              \/ Inserted(g) \/ Changed(g) \/ Removed(g)
           /\ \/ UNCHANGED db
              \/ s \in {"success", "error"}
  <1> DEFINE s == Label(pc[g], reply'[g].err)
  <1>1. PICK w : Ends(g, w) /\ Write(g, w, IF At(g) = "delete" THEN NoUser ELSE user[g])
    BY WriteEnds
  <1>2. /\ w.err \in Errors /\ w.wrote \in {"none", "row"}
        /\ w.err = "nil" => w.wrote = "row"
        /\ w.err \notin {"nil", "internal"} => w.wrote = "none"
        /\ w.wrote = "none" => UNCHANGED db
        /\ w.wrote = "row" => Inserted(g) \/ Changed(g) \/ Removed(g)
    BY <1>1, EndsOutcome
  <1>3. pc[g] \in Writes /\ left[g] = "none"
    BY Attended DEF RegisterInsert, UpdateWrite, DeleteRow, Writes
  <1>4. reply'[g].err = w.err /\ UNCHANGED left
    BY <1>1 DEF Write, Answer, TypeInv, LocalOK
  <1>5. At(g) = pc[g]
    BY <1>3 DEF At
  <1>6. /\ pc[g] = "register_insert" => req[g].op = "register"
        /\ pc[g] = "update_write" => req[g].op = "update"
        /\ pc[g] = "delete" => req[g].op = "delete"
    BY <1>5 DEF TypeInv, Shape, Registering, Updating
  <1>7. /\ s \in Labels
        /\ s = "success" => w.err = "nil"
        /\ w.err \in {"nil", "internal"} => s \in {"success", "error"}
    BY <1>2, <1>4 DEF Label, Result, Labels, Errors
  <1>8. \A op \in Tallied : At(g) = Statement(op) <=> req[g].op = op
    BY <1>3, <1>5, <1>6 DEF Writes, Tallied, Statement
  <1>9. req[g].op \in {"register", "update", "delete"}
    BY <1>3, <1>6 DEF Writes
  <1>10. (UNCHANGED db /\ s # "success") \/ Inserted(g) \/ Changed(g) \/ Removed(g)
    BY <1>2, <1>7
  <1>11. UNCHANGED db \/ s \in {"success", "error"}
    BY <1>2, <1>7
  <1> QED BY <1>4, <1>5, <1>7, <1>8, <1>9, <1>10, <1>11

(* A statement that is left to the database is counted as an error.        *)
LEMMA AbandonCounts ==
    ASSUME TypeInv, NEW g \in Goroutine, Abandon(g)
    PROVE  /\ UNCHANGED db /\ left' = [left EXCEPT ![g] = pc[g]] /\ left[g] = "none"
           /\ req[g].op \in Op /\ Label(pc[g], reply'[g].err) = "error"
           /\ \A op \in Tallied : pc[g] = Statement(op) <=> req[g].op = op
  <1>1. pc[g] \in Writes /\ left[g] = "none"
    BY Attended DEF Abandon, Writes
  <1>2. reply'[g].err = "internal"
    BY DEF Abandon, TypeInv, LocalOK
  <1>3. /\ pc[g] = "register_insert" => req[g].op = "register"
        /\ pc[g] = "update_write" => req[g].op = "update"
        /\ pc[g] = "delete" => req[g].op = "delete"
    BY <1>1 DEF At, TypeInv, Shape, Registering, Updating
  <1>4. req[g].op \in Op /\ \A op \in Tallied : pc[g] = Statement(op) <=> req[g].op = op
    BY <1>1, <1>3 DEF Writes, Tallied, Statement, Op
  <1>5. Label(pc[g], reply'[g].err) = "error"
    BY <1>1, <1>2 DEF Writes, Label, Result
  <1> QED BY <1>1, <1>4, <1>5 DEF Abandon

(* No other step of a method changes a table, or counts a registration or  *)
(* a deletion as a success.                                                *)
LEMMA OtherCounts ==
    ASSUME TypeInv, NEW g \in Goroutine, Step(g), ~RegisterInsert(g), ~UpdateWrite(g),
           ~DeleteRow(g), ~Abandon(g)
    PROVE  /\ UNCHANGED <<db, left>> /\ req[g].op \in Op
           /\ pc'[g] = "idle" => Label(pc[g], reply'[g].err) \in Labels
           /\ pc'[g] = "idle" /\ req[g].op \in Tallied =>
                 Label(pc[g], reply'[g].err) # "success"
  <1>1. req[g].op \in Op
    BY DEF TypeInv, LocalOK, Request
  <1>2. UNCHANGED <<db, left>>
    BY DEF Step, RegisterCheck, RegisterBuild, AuthenticateRead, AuthenticateIssue, GetRead,
           UpdateRead, UpdateCheck, UpdateStamp, Goto, Answer, Return, Refuse
  <1>3. pc'[g] = "idle" => /\ reply'[g].err \in Errors
                           /\ reply'[g].err = "nil" => req[g].op \in {"auth", "get"}
                           /\ pc[g] \notin {"register_insert", "update_write"}
    <2>0. pc[g] # "idle" => left[g] = "none"
      BY Attended
    <2> USE DEF At, Goto, Answer, Return, Refuse, TypeInv, LocalOK, Shape, Errors, Steps
    <2>1. CASE RegisterCheck(g)
      BY <2>0, <2>1 DEF RegisterCheck
    <2>2. CASE RegisterBuild(g)
      BY <2>0, <2>2 DEF RegisterBuild
    <2>3. CASE UpdateRead(g)
      BY <2>0, <2>3 DEF UpdateRead
    <2>4. CASE UpdateCheck(g)
      BY <2>0, <2>4 DEF UpdateCheck
    <2>5. CASE UpdateStamp(g)
      BY <2>0, <2>5 DEF UpdateStamp
    <2>6. CASE AuthenticateRead(g)
      BY <2>0, <2>6 DEF AuthenticateRead
    <2>7. CASE AuthenticateIssue(g)
      BY <2>0, <2>7 DEF AuthenticateIssue
    <2>8. CASE GetRead(g)
      BY <2>0, <2>8 DEF GetRead
    <2> QED BY <2>1, <2>2, <2>3, <2>4, <2>5, <2>6, <2>7, <2>8 DEF Step
  <1>4. pc'[g] = "idle" => Label(pc[g], reply'[g].err) = Result[reply'[g].err]
    BY <1>3 DEF Label
  <1>5. \A e \in Errors : Result[e] \in Labels /\ (Result[e] = "success" => e = "nil")
    BY DEF Errors, Result, Labels
  <1> QED BY <1>1, <1>2, <1>3, <1>4, <1>5 DEF Tallied

-----------------------------------------------------------------------------
(* The numbers that are compared are numbers.                              *)
LEMMA CountsAreNumbers ==
    ASSUME FiniteCounts
    PROVE  /\ \A op \in Op, s \in Labels : /\ Total(op, s) \in Nat
                                           /\ Cardinality(Due(op, s)) \in Nat
           /\ \A op \in Tallied : /\ Cardinality(Accounts(op)) \in Nat
                                  /\ ~died => Cardinality(Late(op)) \in Nat
           /\ \A op \in Tallied : op \in Op
           /\ "success" \in Labels /\ "error" \in Labels
  BY FS_CardinalityType DEF FiniteCounts, Total, Tallied, Op, Labels

(* Where nothing is counted and no account comes or goes, the counts stay  *)
(* good.                                                                   *)
LEMMA CountedStays ==
    ASSUME Counted, UNCHANGED <<counted, due, died, db, left>>
    PROVE  Counted'
  <1>1. /\ \A op \in Op, s \in Labels : /\ Ticks(op, s)' = Ticks(op, s)
                                        /\ Total(op, s)' = Total(op, s)
                                        /\ Due(op, s)' = Due(op, s)
        /\ \A op \in Tallied : Accounts(op)' = Accounts(op) /\ Late(op)' = Late(op)
    BY DEF Ticks, Total, Due, Accounts, Registered, Gone, Late, db
  <1>2. CountsType' /\ DueType' /\ SeedBorn'
    BY DEF Counted, CountsType, DueType, SeedBorn, db
  <1>3. FiniteCounts'
    BY <1>1 DEF Counted, FiniteCounts
  <1>4. \A op \in Tallied : Shown(op, "success")' = Shown(op, "success")
                            /\ Shown(op, "error")' = Shown(op, "error")
    BY <1>1 DEF Shown, Tallied, Op, Labels
  <1>5. \A op \in Tallied : Balanced(op)'
    BY <1>1, <1>4 DEF Counted, Balanced
  <1> QED BY <1>2, <1>3, <1>5 DEF Counted

(* A method that returns: its increment comes due as its statement ends,   *)
(* or is left to the database.                                             *)
LEMMA CountedAnswer ==
    ASSUME TypeInv, History, Counted, NEW g \in Goroutine, CountedStep(g), pc'[g] = "idle"
    PROVE  Counted'
  <1>1. PICK o \in Op, s \in Labels :
           /\ due' = [due EXCEPT ![g] = <<o, s>>]
           /\ \/ UNCHANGED <<db, left>> /\ (o \in Tallied => s # "success")
              \/ /\ UNCHANGED left /\ s \in {"success", "error"}
                 /\ Inserted(g) \/ Changed(g) \/ Removed(g)
                 /\ \A op \in Tallied : At(g) = Statement(op) <=> o = op
              \/ /\ UNCHANGED db /\ left' = [left EXCEPT ![g] = pc[g]] /\ left[g] = "none"
                 /\ s = "error" /\ \A op \in Tallied : pc[g] = Statement(op) <=> o = op
    <2>0. Step(g) /\ due' = [due EXCEPT ![g] = <<req[g].op, Label(pc[g], reply'[g].err)>>]
      BY DEF CountedStep
    <2>1. CASE RegisterInsert(g) \/ UpdateWrite(g) \/ DeleteRow(g)
      <3>1. req[g].op \in Op
        BY <2>1, WriteCounts DEF Op
      <3> QED BY <2>0, <2>1, <3>1, WriteCounts DEF db
    <2>2. CASE Abandon(g)
      <3>1. "error" \in Labels
        BY DEF Labels
      <3> QED BY <2>0, <2>2, <3>1, AbandonCounts
    <2>3. CASE ~(RegisterInsert(g) \/ UpdateWrite(g) \/ DeleteRow(g) \/ Abandon(g))
      BY <2>0, <2>3, OtherCounts
    <2> QED BY <2>1, <2>2, <2>3
  <1>2. /\ CountsType /\ DueType /\ SeedBorn /\ FiniteCounts
        /\ \A op \in Tallied : Balanced(op)
    BY DEF Counted
  <1>3. Step(g) /\ due[g] = Nil /\ UNCHANGED <<counted, died>>
    BY DEF CountedStep
  <1>4. SeedBorn' /\ CountsType'
    BY <1>2, <1>3, SeedBornNext DEF Next, CountsType
  <1>5. \A p \in Op, t \in Labels : /\ Ticks(p, t)' = Ticks(p, t)
                                    /\ Total(p, t)' = Total(p, t)
    BY <1>3 DEF Ticks, Total
  <1>6. /\ DueType' /\ \A p \in Op, t \in Labels : IsFiniteSet(Due(p, t)')
        /\ \A p \in Op, t \in Labels : Cardinality(Due(p, t)') =
              Cardinality(Due(p, t)) + (IF p = o /\ t = s THEN 1 ELSE 0)
    <2>1. \A p \in Op, t \in Labels : IsFiniteSet(Due(p, t))
      BY <1>2 DEF FiniteCounts
    <2>2. DueType /\ due[g] = Nil /\ Becomes(g, <<o, s>>)
      BY <1>1, <1>2, <1>3 DEF Becomes
    <2> QED BY <2>1, <2>2, DueGrows
  <1>7. ASSUME NEW op \in Tallied
        PROVE  /\ IsFiniteSet(Accounts(op)') /\ (~died => IsFiniteSet(Late(op)'))
               /\ Balanced(op)'
    <2>1. /\ op \in Op /\ "success" \in Labels /\ "error" \in Labels
          /\ IsFiniteSet(Accounts(op)) /\ (~died => IsFiniteSet(Late(op)))
          /\ Cardinality(Accounts(op)) \in Nat /\ (~died => Cardinality(Late(op)) \in Nat)
          /\ Shown(op, "success") \in Nat /\ Shown(op, "error") \in Nat
      BY <1>2, CountsAreNumbers DEF FiniteCounts, Shown
    <2>2. \A t \in {"success", "error"} : Shown(op, t)' =
              Shown(op, t) + (IF op = o /\ t = s THEN 1 ELSE 0)
      BY <1>2, <1>5, <1>6, <2>1, CountsAreNumbers DEF Shown
    <2>3. Balanced(op) /\ died' = died
      BY <1>2, <1>3
    <2>4. CASE UNCHANGED <<db, left>> /\ (o \in Tallied => s # "success")
      <3>1. Accounts(op)' = Accounts(op) /\ Late(op)' = Late(op)
        BY <2>4 DEF Accounts, Registered, Gone, Late, db
      <3> QED BY <2>1, <2>2, <2>3, <2>4, <3>1 DEF Balanced
    <2>5. CASE /\ UNCHANGED left /\ s \in {"success", "error"}
               /\ Inserted(g) \/ Changed(g) \/ Removed(g)
               /\ \A p \in Tallied : At(g) = Statement(p) <=> o = p
      <3>1. /\ IsFiniteSet(Accounts(op)')
            /\ Cardinality(Accounts(op)') =
                  Cardinality(Accounts(op)) + (IF op = o THEN 1 ELSE 0)
        BY <1>2, <2>5, AccountsGrow
      <3>2. Late(op)' = Late(op)
        BY <2>5 DEF Late
      <3> QED BY <2>1, <2>2, <2>3, <2>5, <3>1, <3>2 DEF Balanced
    <2>6. CASE /\ UNCHANGED db /\ left' = [left EXCEPT ![g] = pc[g]] /\ left[g] = "none"
               /\ s = "error" /\ \A p \in Tallied : pc[g] = Statement(p) <=> o = p
      <3>1. Accounts(op)' = Accounts(op)
        BY <2>6 DEF Accounts, Registered, Gone, db
      <3>2. \A h \in Goroutine : left'[h] = IF h = g THEN pc[g] ELSE left[h]
        BY <2>6 DEF TypeInv, LocalOK
      <3>3. CASE op = o
        <4>1. g \notin Late(op) /\ Late(op)' = Late(op) \cup {g}
          BY <2>6, <3>2, <3>3 DEF Late, Statement
        <4>2. ~died => /\ IsFiniteSet(Late(op)')
                       /\ Cardinality(Late(op)') = Cardinality(Late(op)) + 1
          BY <2>1, <4>1, OneMore
        <4> QED BY <2>1, <2>2, <2>3, <2>6, <3>1, <3>3, <4>2 DEF Balanced
      <3>4. CASE op # o
        <4>1. Late(op)' = Late(op)
          BY <2>6, <3>2, <3>4 DEF Late, Statement
        <4> QED BY <2>1, <2>2, <2>3, <3>1, <3>4, <4>1 DEF Balanced
      <3> QED BY <3>3, <3>4
    <2> QED BY <1>1, <2>4, <2>5, <2>6
  <1>8. FiniteCounts'
    BY <1>2, <1>3, <1>5, <1>6, <1>7 DEF FiniteCounts
  <1> QED BY <1>4, <1>6, <1>7, <1>8 DEF Counted

(* A step after which the method goes on counts nothing.                   *)
LEMMA CountedGoesOn ==
    ASSUME TypeInv, History, Counted, NEW g \in Goroutine, CountedStep(g), pc'[g] # "idle"
    PROVE  Counted'
  <1>1. /\ Step(g) /\ UNCHANGED <<counted, due, died>>
    BY DEF CountedStep
  <1>2. ~(RegisterInsert(g) \/ UpdateWrite(g) \/ DeleteRow(g) \/ Abandon(g))
    BY DEF RegisterInsert, UpdateWrite, DeleteRow, Abandon, Write, Answer, TypeInv, LocalOK
  <1>3. UNCHANGED <<db, left>>
    BY <1>1, <1>2, OtherCounts
  <1> QED BY <1>1, <1>3, CountedStays

(* An increment that was due is made.                                      *)
LEMMA CountedCount ==
    ASSUME Counted, NEW g \in Goroutine, Count(g)
    PROVE  Counted'
  <1>1. CountsType /\ DueType /\ SeedBorn /\ FiniteCounts /\ \A op \in Tallied : Balanced(op)
    BY DEF Counted
  <1>2. PICK o \in Op, s \in Labels : due[g] = <<o, s>>
    BY <1>1 DEF Count, DueType
  <1>3. /\ Increments(Host[g], o, s) /\ Host[g] \in Replica
        /\ due' = [due EXCEPT ![g] = Nil] /\ UNCHANGED <<db, left, died>>
    BY <1>2 DEF Count, Increments, Replica, vars, local
  <1>4. /\ CountsType' /\ \A p \in Op, t \in Labels : IsFiniteSet(Ticks(p, t)')
        /\ \A p \in Op, t \in Labels :
              Total(p, t)' = Total(p, t) + (IF p = o /\ t = s THEN 1 ELSE 0)
    BY <1>1, <1>3, TotalsGrow DEF FiniteCounts
  <1>5. /\ DueType' /\ \A p \in Op, t \in Labels : IsFiniteSet(Due(p, t)')
        /\ \A p \in Op, t \in Labels : Cardinality(Due(p, t)') =
              Cardinality(Due(p, t)) - (IF p = o /\ t = s THEN 1 ELSE 0)
    BY <1>1, <1>2, <1>3, DueShrinks DEF FiniteCounts
  <1>6. \A p \in Op, t \in Labels : Shown(p, t)' = Shown(p, t)
    BY <1>1, <1>4, <1>5, CountsAreNumbers DEF Shown
  <1>7. \A op \in Tallied : Accounts(op)' = Accounts(op) /\ Late(op)' = Late(op)
    BY <1>3 DEF Accounts, Registered, Gone, Late, db
  <1>8. FiniteCounts'
    BY <1>1, <1>3, <1>4, <1>5, <1>7 DEF FiniteCounts
  <1>9. \A op \in Tallied : Balanced(op)'
    BY <1>1, <1>3, <1>6, <1>7, CountsAreNumbers DEF Balanced
  <1>10. SeedBorn'
    BY <1>1, <1>3 DEF SeedBorn, db
  <1> QED BY <1>4, <1>5, <1>8, <1>9, <1>10 DEF Counted

(* A statement that was left ends: a row it brings or removes was counted  *)
(* as an error when the method answered.                                   *)
LEMMA CountedSettle ==
    ASSUME TypeInv, History, Counted, NEW g \in Goroutine, Settle(g),
           UNCHANGED <<counted, due, died>>
    PROVE  Counted'
  <1>1. CountsType /\ DueType /\ SeedBorn /\ FiniteCounts /\ \A op \in Tallied : Balanced(op)
    BY DEF Counted
  <1>2. SeedBorn' /\ CountsType' /\ DueType'
    BY <1>1, SeedBornNext DEF Next, CountsType, DueType
  <1>3. \A p \in Op, t \in Labels : /\ Ticks(p, t)' = Ticks(p, t)
                                    /\ Due(p, t)' = Due(p, t)
                                    /\ Shown(p, t)' = Shown(p, t)
    BY DEF Ticks, Due, Total, Shown
  <1>4. /\ left[g] \in Writes /\ At(g) = left[g]
        /\ UNCHANGED db \/ Inserted(g) \/ Changed(g) \/ Removed(g)
    <2>1. PICK w : left[g] \in Writes /\ Ends(g, w)
      BY SettleEnds
    <2> QED BY <2>1, EndsOutcome DEF At, Writes
  <1>5. \A h \in Goroutine : left'[h] = IF h = g THEN "none" ELSE left[h]
    BY DEF Settle, TypeInv, LocalOK
  <1>6. ASSUME NEW op \in Tallied
        PROVE  /\ IsFiniteSet(Accounts(op)') /\ (~died => IsFiniteSet(Late(op)'))
               /\ Balanced(op)'
    <2>1. /\ IsFiniteSet(Accounts(op)) /\ (~died => IsFiniteSet(Late(op)))
          /\ Cardinality(Accounts(op)) \in Nat /\ (~died => Cardinality(Late(op)) \in Nat)
          /\ Shown(op, "success") \in Nat /\ Shown(op, "error") \in Nat
          /\ op \in Op /\ "success" \in Labels /\ "error" \in Labels
      BY <1>1, CountsAreNumbers DEF FiniteCounts, Shown
    <2>2. /\ IsFiniteSet(Accounts(op)')
          /\ \/ Cardinality(Accounts(op)') = Cardinality(Accounts(op))
             \/ /\ left[g] = Statement(op)
                /\ Cardinality(Accounts(op)') = Cardinality(Accounts(op)) + 1
      <3>1. CASE UNCHANGED db
        <4>1. Accounts(op)' = Accounts(op)
          BY <3>1 DEF Accounts, Registered, Gone, db
        <4> QED BY <2>1, <4>1
      <3>2. CASE Inserted(g) \/ Changed(g) \/ Removed(g)
        BY <1>1, <1>4, <2>1, <3>2, AccountsGrow
      <3> QED BY <1>4, <3>1, <3>2
    <2>3. ~died => /\ IsFiniteSet(Late(op)')
                   /\ Cardinality(Late(op)') = Cardinality(Late(op))
                         - (IF left[g] = Statement(op) THEN 1 ELSE 0)
      <3>1. CASE left[g] = Statement(op)
        <4>1. g \in Late(op) /\ Late(op)' = Late(op) \ {g}
          BY <1>5, <3>1 DEF Late, Statement
        <4> QED BY <2>1, <3>1, <4>1, OneLess
      <3>2. CASE left[g] # Statement(op)
        <4>1. Late(op)' = Late(op)
          BY <1>5, <3>2 DEF Late, Statement
        <4> QED BY <2>1, <3>2, <4>1
      <3> QED BY <3>1, <3>2
    <2>4. Balanced(op) /\ died' = died
      BY <1>1
    <2>5. Shown(op, "success")' = Shown(op, "success") /\ Shown(op, "error")' = Shown(op, "error")
      BY <1>3, <2>1
    <2>6. Balanced(op)'
      BY <2>1, <2>2, <2>3, <2>4, <2>5 DEF Balanced
    <2> QED BY <2>2, <2>3, <2>6
  <1>7. FiniteCounts'
    BY <1>1, <1>3, <1>6 DEF FiniteCounts
  <1> QED BY <1>2, <1>6, <1>7 DEF Counted

(* A replica that dies forgets counts, and nothing of the table.           *)
LEMMA CountedRestart ==
    ASSUME Counted, NEW r \in Replica, Restart(r)
    PROVE  Counted'
  <1>1. CountsType /\ DueType /\ SeedBorn /\ FiniteCounts /\ \A op \in Tallied : Balanced(op)
    BY DEF Counted
  <1>2. /\ UNCHANGED db /\ died' = TRUE
        /\ counted' = [counted EXCEPT ![r] = NoneCounted]
        /\ due' = [g \in Goroutine |-> IF Host[g] = r THEN Nil ELSE due[g]]
    BY DEF Restart, Crash
  <1>3. "success" \in Labels /\ "register" \in Op
    BY DEF Labels, Op
  <1>4. ASSUME NEW p \in Op, NEW t \in Labels
        PROVE  /\ CountsType' /\ IsFiniteSet(Ticks(p, t)') /\ IsFiniteSet(Due(p, t)')
               /\ Total(p, t)' \in Nat /\ Total(p, t)' <= Total(p, t)
               /\ Cardinality(Due(p, t)') \in Nat
               /\ Cardinality(Due(p, t)') <= Cardinality(Due(p, t))
    <2>1. CountsType' /\ IsFiniteSet(Ticks(p, t)') /\ Total(p, t)' <= Total(p, t)
      BY <1>1, <1>2, TicksForgotten DEF FiniteCounts
    <2>2. Due(p, t)' \subseteq Due(p, t)
      BY <1>2, DueAssumption DEF Due
    <2>3. IsFiniteSet(Due(p, t)') /\ Cardinality(Due(p, t)') <= Cardinality(Due(p, t))
      BY <1>1, <2>2, FS_Subset DEF FiniteCounts
    <2> QED BY <2>1, <2>3, FS_CardinalityType DEF Total
  <1>5. \A op \in Tallied : Accounts(op)' = Accounts(op)
    BY <1>2 DEF Accounts, Registered, Gone, db
  <1>6. FiniteCounts'
    BY <1>1, <1>2, <1>4, <1>5 DEF FiniteCounts
  <1>7. ASSUME NEW op \in Tallied
        PROVE  Balanced(op)'
    <2>1. Shown(op, "success")' \in Nat /\ Shown(op, "success")' <= Shown(op, "success")
      BY <1>1, <1>3, <1>4, CountsAreNumbers DEF Shown
    <2>2. Cardinality(Accounts(op)) \in Nat /\ Shown(op, "success") \in Nat
      BY <1>1, <1>3, CountsAreNumbers DEF Shown
    <2> QED BY <1>1, <1>2, <1>5, <2>1, <2>2 DEF Balanced
  <1>8. DueType' /\ SeedBorn'
    BY <1>1, <1>2 DEF DueType, SeedBorn, db
  <1> QED BY <1>3, <1>4, <1>6, <1>7, <1>8 DEF Counted

(* Every step keeps the invariant.                                         *)
LEMMA CountedNext ==
    ASSUME TypeInv, History, Counted, [CountsNext]_countVars
    PROVE  Counted'
  <1>1. CASE UNCHANGED countVars
    BY <1>1, CountedStays DEF countVars, vars, local
  <1>2. ASSUME NEW g \in Goroutine, CountedStep(g)
        PROVE  Counted'
    BY <1>2, CountedAnswer, CountedGoesOn
  <1>3. ASSUME NEW g \in Goroutine, Count(g)
        PROVE  Counted'
    BY <1>3, CountedCount
  <1>4. ASSUME NEW r \in Replica, Restart(r)
        PROVE  Counted'
    BY <1>4, CountedRestart
  <1>5. CASE Uncounted
    <2>1. ASSUME NEW g \in Goroutine, Call(g), UNCHANGED <<counted, due, died>>
          PROVE  Counted'
      <3>1. UNCHANGED <<db, left>>
        BY <2>1 DEF Call, RegisterCall, AuthenticateCall, GetCall, UpdateCall, DeleteCall,
                    Receive
      <3> QED BY <2>1, <3>1, CountedStays
    <2>2. ASSUME NEW g \in Goroutine, Settle(g), UNCHANGED <<counted, due, died>>
          PROVE  Counted'
      BY <2>2, CountedSettle
    <2>3. ASSUME Quiesce, UNCHANGED <<counted, due, died>>
          PROVE  Counted'
      BY <2>3, CountedStays DEF Quiesce, vars, local
    <2> QED BY <1>5, <2>1, <2>2, <2>3 DEF Uncounted
  <1> QED BY <1>1, <1>2, <1>3, <1>4, <1>5 DEF CountsNext

(* No counts and no accounts yet.                                          *)
LEMMA CountedInit == CountsInit => Counted
  <1> SUFFICES ASSUME CountsInit PROVE Counted
    OBVIOUS
  <1>1. CountsType /\ DueType /\ SeedBorn
    BY DEF CountsInit, CountsType, DueType, SeedBorn, NoneCounted, Init
  <1>2. \A op \in Tallied : Accounts(op) = {} /\ Late(op) = {}
    BY DEF CountsInit, Init, Accounts, Registered, Gone, Late, Statement
  <1>3. \A op \in Op, result \in Labels : Ticks(op, result) = {} /\ Due(op, result) = {}
    BY DueAssumption DEF CountsInit, NoneCounted, Ticks, Due
  <1>4. FiniteCounts
    BY <1>2, <1>3, FS_EmptySet DEF FiniteCounts
  <1>5. \A op \in Tallied : Balanced(op)
    BY <1>2, <1>3, FS_EmptySet DEF Balanced, Shown, Total, Tallied, Op, Labels
  <1> QED BY <1>1, <1>4, <1>5 DEF Counted

(* The invariant is what the counters are compared by.                     *)
LEMMA CountedBacked == Counted => CountsBacked
  <1> SUFFICES ASSUME Counted PROVE CountsBacked
    OBVIOUS
  <1>1. FiniteCounts /\ Balanced("register") /\ Balanced("delete")
    BY DEF Counted, Tallied
  <1>2. /\ "register" \in Tallied /\ "delete" \in Tallied
        /\ Accounts("register") = Registered /\ Accounts("delete") = Gone
    BY DEF Tallied, Accounts
  <1> QED BY <1>1, <1>2, CountsAreNumbers DEF CountsBacked, Balanced, Shown

(* The counting service is the service.                                    *)
LEMMA CountingServes == CountsSpec => Spec
  <1>1. CountsInit => Init
    BY DEF CountsInit
  <1>2. [CountsNext]_countVars => [Next]_vars
    BY DEF CountsNext, CountedStep, Count, Restart, Uncounted, Next, Replica, countVars
  <1> QED BY <1>1, <1>2, PTL DEF CountsSpec, Spec

(* No replica counts an account created or deleted that is not; and while  *)
(* none has died, every one was counted or is about to be, as a success or *)
(* an error, also one that came or went after its method had answered: for *)
(* every number of goroutines, replicas, accounts and calls.               *)
THEOREM CountsAreBacked == CountsSpec => []CountsBacked
  <1>1. TypeInv /\ History /\ Counted /\ [CountsNext]_countVars => Counted'
    BY CountedNext
  <1> QED BY <1>1, CountedBacked, CountedInit, CountingServes, HistoryAlways, PTL
          DEF CountsSpec
=============================================================================
