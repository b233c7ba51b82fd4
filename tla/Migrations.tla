----------------------------- MODULE Migrations -----------------------------
(***************************************************************************)
(* Replicas that migrate one database as they start                        *)
(* (internal/platform/database/postgres.go, RunMigrations).  golang-migrate *)
(* is modelled from its use: it serialises migrators with an advisory lock *)
(* of their session, which ends with the session, and marks the version    *)
(* dirty before it runs a migration and clean after it.                    *)
(***************************************************************************)
EXTENDS Naturals

CONSTANTS
    Replica,   \* the processes that start, any number of them at once
    NoReplica,
    Latest     \* the last migration in MIGRATIONS_PATH

ASSUME ReplicaAssumption == NoReplica \notin Replica
ASSUME LatestAssumption == Latest \in Nat \ {0}

VARIABLES
    version,  \* schema_migrations: the version ...
    dirty,    \* ... and "yes" while its migration has not been completed
    applied,  \* how often the statements of each migration were committed
    lock,     \* the replica whose session holds the advisory lock
    pc        \* where each replica is in RunMigrations

vars == <<version, dirty, applied, lock, pc>>

Locked == {"read", "mark", "apply", "clear", "unlock", "give_up"}
Where == {"down", "open", "wait", "abandon", "check", "up", "failed"} \cup Locked

Init ==
    /\ version = 0 /\ dirty = "no"
    /\ applied = [v \in 1 .. Latest |-> 0]
    /\ lock = NoReplica
    /\ pc = [r \in Replica |-> "down"]

Goto(r, s) == pc' = [pc EXCEPT ![r] = s]
data == <<version, dirty, applied>>

-----------------------------------------------------------------------------
(* The process is started, and started again after it failed.              *)
Start(r) ==
    /\ pc[r] \in {"down", "failed"}
    /\ Goto(r, "open")
    /\ UNCHANGED <<data, lock>>

(* migrate.New creates schema_migrations if it is not there, under the     *)
(* lock, for which it waits as long as it takes.                           *)
Open(r) ==
    /\ pc[r] = "open" /\ lock = NoReplica
    /\ Goto(r, "wait")
    /\ UNCHANGED <<data, lock>>

(* Not the code: a migrator without a lock.                                *)
LockIgnored(r) ==
    /\ pc[r] = "wait"
    /\ lock' = r
    /\ Goto(r, "read")
    /\ UNCHANGED data

(* Up waits for the lock, ...                                              *)
Lock(r) ==
    /\ pc[r] = "wait" /\ lock = NoReplica
    /\ lock' = r
    /\ Goto(r, "read")
    /\ UNCHANGED data

(* ... for 15 seconds, but its statement, pg_advisory_lock, goes on.       *)
LockTimeout(r) ==
    /\ pc[r] = "wait" /\ lock # NoReplica
    /\ Goto(r, "abandon")
    /\ UNCHANGED <<data, lock>>

(* The deferred m.Close waits for that statement: the session gets the     *)
(* lock nobody wants any more, and is then closed.                         *)
LockLate(r) ==
    /\ pc[r] = "abandon" /\ lock = NoReplica
    /\ lock' = r
    /\ Goto(r, "give_up")
    /\ UNCHANGED data

(* Not the code: the dirty mark goes unnoticed.                            *)
ReadVersionIgnoringDirty(r) ==
    /\ pc[r] = "read"
    /\ Goto(r, IF version = Latest THEN "unlock" ELSE "mark")
    /\ UNCHANGED <<data, lock>>

(* Not the code: one migration too many.                                   *)
ReadVersionOffByOne(r) ==
    /\ pc[r] = "read"
    /\ \/ dirty = "yes" /\ Goto(r, "give_up")
       \/ dirty = "no" /\ version > Latest /\ Goto(r, "unlock")
       \/ dirty = "no" /\ version <= Latest /\ Goto(r, "mark")
    /\ UNCHANGED <<data, lock>>

(* ErrDirty, ErrNoChange, or the first pending migration.                  *)
ReadVersion(r) ==
    /\ pc[r] = "read"
    /\ \/ dirty = "yes" /\ Goto(r, "give_up")
       \/ dirty = "no" /\ version = Latest /\ Goto(r, "unlock")
       \/ dirty = "no" /\ version < Latest /\ Goto(r, "mark")
    /\ UNCHANGED <<data, lock>>

(* Not the code: the version set clean before its statements have run.     *)
MarkClean(r) ==
    /\ pc[r] = "mark"
    /\ version' = version + 1
    /\ Goto(r, "apply")
    /\ UNCHANGED <<dirty, applied, lock>>

Mark(r) ==
    /\ pc[r] = "mark"
    /\ version' = version + 1 /\ dirty' = "yes"
    /\ Goto(r, "apply")
    /\ UNCHANGED <<applied, lock>>

(* All statements of the file, in one implicit transaction.                *)
Apply(r) ==
    /\ pc[r] = "apply"
    /\ applied' = [applied EXCEPT ![version] = @ + 1]
    /\ Goto(r, "clear")
    /\ UNCHANGED <<version, dirty, lock>>

Clear(r) ==
    /\ pc[r] = "clear"
    /\ dirty' = "no"
    /\ Goto(r, IF version = Latest THEN "unlock" ELSE "mark")
    /\ UNCHANGED <<version, applied, lock>>

(* A statement fails: Up stops where it is and leaves the mark as it is.   *)
StatementFails(r) ==
    /\ pc[r] \in {"read", "mark", "apply", "clear"}
    /\ Goto(r, "give_up")
    /\ UNCHANGED <<data, lock>>

(* Not the code: the lock kept on the way out with an error.               *)
UnlockOnSuccess(r) ==
    /\ pc[r] \in {"unlock", "give_up"}
    /\ lock' = IF pc[r] = "unlock" THEN NoReplica ELSE lock
    /\ Goto(r, IF pc[r] = "unlock" THEN "check" ELSE "failed")
    /\ UNCHANGED data

Unlock(r) ==
    /\ pc[r] \in {"unlock", "give_up"}
    /\ lock' = NoReplica
    /\ Goto(r, IF pc[r] = "unlock" THEN "check" ELSE "failed")
    /\ UNCHANGED data

(* The version is read again, without the lock, and logged.                *)
Check(r) ==
    /\ pc[r] = "check"
    /\ Goto(r, "up") \/ Goto(r, "failed")
    /\ UNCHANGED <<data, lock>>

-----------------------------------------------------------------------------
(* The session is lost, before or after the commit of a statement: the     *)
(* lock goes with it and RunMigrations returns an error.                   *)
Disconnect(r) ==
    /\ pc[r] \in {"open", "wait", "abandon", "check"} \cup Locked
    /\ lock' = IF lock = r THEN NoReplica ELSE lock
    /\ Goto(r, "failed")
    /\ UNCHANGED data

(* The process dies, and its session with it; signals are not caught yet   *)
(* (main.go:92, 132).                                                      *)
Die(r) ==
    /\ pc[r] # "down"
    /\ lock' = IF lock = r THEN NoReplica ELSE lock
    /\ Goto(r, "down")
    /\ UNCHANGED data

(* What a migrator does of itself once it was started, ...                 *)
Advance(r) == \/ LockTimeout(r) \/ ReadVersion(r) \/ Mark(r) \/ Apply(r)
              \/ Clear(r) \/ Unlock(r) \/ Check(r)

(* ... and when the lock is its.                                           *)
Granted(r) == Open(r) \/ Lock(r) \/ LockLate(r)

Next == \E r \in Replica : \/ Start(r) \/ Granted(r) \/ Advance(r)
                           \/ StatementFails(r) \/ Disconnect(r) \/ Die(r)

Spec == Init /\ [][Next]_vars

(* A migrator that can go on does: its statements end.  Postgres hands the *)
(* lock out in the order it was asked for, so no replica waits for it      *)
(* while others come and go.                                               *)
Fairness(r) == WF_vars(Advance(r)) /\ SF_vars(Granted(r))

FairSpec == Spec /\ \A r \in Replica : Fairness(r)

-----------------------------------------------------------------------------
MigrationsTypeOK ==
    /\ version \in 0 .. Latest /\ dirty \in {"yes", "no"}
    /\ applied \in [1 .. Latest -> Nat]
    /\ lock \in Replica \cup {NoReplica}
    /\ pc \in [Replica -> Where]

(* A replica that goes on to serve has the whole schema under it, wherever *)
(* others died, failed or are migrating; RunMigrations itself looks at the *)
(* dirty flag only to log it (postgres.go:57-60).                          *)
SchemaReady ==
    \A r \in Replica : pc[r] \in {"check", "up"} =>
        version = Latest /\ dirty = "no" /\ \A v \in 1 .. Latest : applied[v] = 1

(* No migration is run twice or before an earlier one, whoever takes over  *)
(* from whom (postgres.go:52).                                             *)
AppliedInOrder ==
    /\ \A v \in 1 .. Latest : applied[v] <= 1
    /\ \A v \in 2 .. Latest : applied[v] <= applied[v - 1]

(* A migration cut short is not gone over in silence: once nobody is left  *)
(* to finish it, no replica comes up any more until somebody repairs it    *)
(* (postgres.go:52-54).                                                    *)
CutShortStaysVisible ==
    [][dirty = "yes" /\ lock = NoReplica =>
          /\ dirty' = "yes"
          /\ \A r \in Replica : pc'[r] = "up" => pc[r] = "up"]_vars

(* Every start ends, with a replica that is up or one that has failed:     *)
(* none waits for the others for ever, though nothing limits the two waits *)
(* at either end (postgres.go:46, 50).                                     *)
StartEnds ==
    \A r \in Replica : pc[r] = "open" ~> pc[r] \in {"up", "failed", "down"}
=============================================================================
