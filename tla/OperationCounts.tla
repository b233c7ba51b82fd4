-------------------------- MODULE OperationCounts --------------------------
(***************************************************************************)
(* The counters of the service's answers (auth_login_total and             *)
(* user_operations_total, platform/metrics/metrics.go), over UserService.  *)
(* Each replica counts in its own memory: the counts go when it dies.  A   *)
(* statement is committed, and seen by others, before its goroutine counts *)
(* the outcome.                                                            *)
(***************************************************************************)
EXTENDS UserService

VARIABLES
    counted,  \* for each replica, how often it counted each operation and result
    due,      \* the increment a goroutine is at, between statement and return
    died      \* history: whether a replica has ever died

countVars == <<vars, counted, due, died>>

Replica == {Host[g] : g \in Goroutine}

Labels == {"success", "conflict", "not_found", "invalid", "error"}
NoneCounted == [key \in Op \X Labels |-> 0]

ASSUME DueAssumption == Nil \notin Op \X Labels

CountsInit ==
    /\ Init
    /\ counted = [r \in Replica |-> NoneCounted]
    /\ due = [g \in Goroutine |-> Nil]
    /\ died = FALSE

-----------------------------------------------------------------------------
Result == [nil |-> "success", conflict |-> "conflict", not_found |-> "not_found",
           invalid_input |-> "invalid", invalid_credentials |-> "invalid",
           internal |-> "error"]

(* Not the code: success counted ahead of the statement's error.           *)
LabelBeforeError(step, err) ==
    IF step \in {"register_insert", "update_write"} THEN "success" ELSE Result[err]

(* The label of an answer given at a step.  What goes wrong in the write   *)
(* statement of Register or Update is an error, whatever it is.            *)
Label(step, err) ==
    IF step \in {"register_insert", "update_write"} /\ err # "nil"
    THEN "error" ELSE Result[err]

(* A step of g's method; what ends the method is to be counted first.      *)
CountedStep(g) ==
    /\ due[g] = Nil
    /\ Step(g)
    /\ due' = IF pc'[g] = "idle"
              THEN [due EXCEPT ![g] = <<req[g].op, Label(pc[g], reply'[g].err)>>]
              ELSE due
    /\ UNCHANGED <<counted, died>>

(* incUserOp or incAuth; then the method returns.                          *)
Count(g) ==
    /\ due[g] # Nil
    /\ counted' = [counted EXCEPT ![Host[g]][due[g]] = @ + 1]
    /\ due' = [due EXCEPT ![g] = Nil]
    /\ UNCHANGED <<vars, died>>

(* The counters of the process that takes its place begin at zero.         *)
Restart(r) ==
    /\ Crash(r)
    /\ counted' = [counted EXCEPT ![r] = NoneCounted]
    /\ due' = [g \in Goroutine |-> IF Host[g] = r THEN Nil ELSE due[g]]
    /\ died' = TRUE

(* Nobody counts a statement that was left to the database.                *)
Uncounted ==
    /\ \/ \E g \in Goroutine : (due[g] = Nil /\ Call(g)) \/ Settle(g)
       \/ (\A g \in Goroutine : due[g] = Nil) /\ Quiesce
    /\ UNCHANGED <<counted, due, died>>

CountsNext ==
    \/ \E g \in Goroutine : CountedStep(g) \/ Count(g)
    \/ \E r \in Replica : Restart(r)
    \/ Uncounted

CountsSpec == CountsInit /\ [][CountsNext]_countVars

-----------------------------------------------------------------------------
(* The replicas' counts of an operation's result, added up: one tick for   *)
(* every increment that is not forgotten.                                  *)
Ticks(op, result) == UNION {{r} \X (1 .. counted[r][<<op, result>>]) : r \in Replica}
Total(op, result) == Cardinality(Ticks(op, result))

Registered == {id \in UserID : born[id] # NoUser /\ Seed[id] = NoUser}
Gone == {id \in UserID : born[id] # NoUser /\ users[id] = NoUser}

(* The goroutines that have not come to count this yet.                    *)
Due(op, result) == {g \in Goroutine : due[g] = <<op, result>>}

(* The counts can be read against the table: no replica counts an account  *)
(* created or deleted that is not, and two that race to delete one account *)
(* count one success; while no replica dies, what a success misses was     *)
(* counted as an error, even when the row came or went after the answer,   *)
(* or is about to be counted (user_service.go:65-69, 192-200).             *)
CountsBacked ==
    LET created == Cardinality(Registered)
        deleted == Cardinality(Gone)
        answered(op) == Total(op, "success") + Total(op, "error")
                        + Cardinality(Due(op, "success")) + Cardinality(Due(op, "error"))
    IN /\ Total("register", "success") + Cardinality(Due("register", "success")) <= created
       /\ Total("delete", "success") + Cardinality(Due("delete", "success")) <= deleted
       /\ ~died => created <= answered("register") /\ deleted <= answered("delete")
=============================================================================
