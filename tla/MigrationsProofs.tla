-------------------------- MODULE MigrationsProofs --------------------------
(***************************************************************************)
(* The safety properties of Migrations, for every number of replicas and   *)
(* of migrations.  The argument: the lock leaves at most one replica in    *)
(* the middle of Up, and what is on disk - the version, its mark, which    *)
(* migrations were committed - agrees with where that replica is, and is   *)
(* settled when there is none.                                             *)
(***************************************************************************)
EXTENDS Migrations, TLAPS

OneInside == \A r \in Replica : pc[r] \in Locked => lock = r

(* Where the holder of the lock is tells what is on disk.                  *)
InStep ==
    \A r \in Replica :
        /\ pc[r] = "mark" => dirty = "no" /\ version < Latest
        /\ pc[r] = "apply" => dirty = "yes" /\ applied[version] = 0
        /\ pc[r] = "clear" => dirty = "yes" /\ applied[version] = 1
        /\ pc[r] \in {"unlock", "check", "up"} => dirty = "no" /\ version = Latest

(* All migrations before the version were committed once, none after it,   *)
(* and the version itself unless it is marked.                             *)
OnDisk ==
    /\ dirty = "yes" => version >= 1
    /\ \A v \in 1 .. Latest :
          /\ v < version \/ (v = version /\ dirty = "no") => applied[v] = 1
          /\ v = version => applied[v] \in {0, 1}
          /\ v > version => applied[v] = 0

IInv == MigrationsTypeOK /\ OneInside /\ InStep /\ OnDisk

LEMMA InitIInv == Init => IInv
BY ReplicaAssumption, LatestAssumption
   DEF Init, IInv, MigrationsTypeOK, OneInside, InStep, OnDisk, Where, Locked

(* A step of one replica that writes nothing and does not take the lock.   *)
LEMMA Quiet ==
    ASSUME IInv, NEW r \in Replica, NEW s \in Where, UNCHANGED data, Goto(r, s),
           UNCHANGED lock \/ (pc[r] \in Locked /\ lock' = NoReplica)
                          \/ lock' = (IF lock = r THEN NoReplica ELSE lock),
           s \in Locked => lock' = r,
           s = "mark" => dirty = "no" /\ version < Latest,
           s \notin {"apply", "clear"},
           s \in {"unlock", "check", "up"} => dirty = "no" /\ version = Latest
    PROVE  IInv'
<1>1. MigrationsTypeOK'
  BY DEF IInv, MigrationsTypeOK, data, Goto
<1>2. OneInside'
  <2>1. ASSUME NEW q \in Replica, pc'[q] \in Locked PROVE lock' = q
    <3>1. CASE q = r
      BY <2>1, <3>1 DEF IInv, MigrationsTypeOK, Goto
    <3>2. CASE q # r
      <4>1. pc[q] \in Locked /\ lock = q
        BY <2>1, <3>2 DEF IInv, MigrationsTypeOK, OneInside, Goto
      <4>2. ~(pc[r] \in Locked)
        BY <4>1, <3>2 DEF IInv, OneInside
      <4> QED BY <4>1, <4>2, <3>2
    <3> QED BY <3>1, <3>2
  <2> QED BY <2>1 DEF OneInside
<1>3. InStep'
  <2>1. \A q \in Replica : pc'[q] = IF q = r THEN s ELSE pc[q]
    BY DEF IInv, MigrationsTypeOK, Goto
  <2> QED BY <2>1 DEF IInv, InStep, data
<1>4. OnDisk'
  BY DEF IInv, OnDisk, data
<1> QED BY <1>1, <1>2, <1>3, <1>4 DEF IInv

(* The three steps that write: their replica holds the lock, so no other   *)
(* is inside, and none is past Up while there is something to do.          *)
LEMMA Alone ==
    ASSUME IInv, NEW r \in Replica, pc[r] \in {"mark", "apply", "clear"}
    PROVE  /\ lock = r
           /\ \A q \in Replica \ {r} :
                 pc[q] \notin Locked \cup {"check", "up"}
<1>1. lock = r
  BY DEF IInv, OneInside, Locked
<1>2. \A q \in Replica \ {r} : pc[q] \notin Locked
  BY <1>1 DEF IInv, OneInside
<1>3. dirty = "yes" \/ version < Latest
  BY DEF IInv, InStep
<1>4. \A q \in Replica \ {r} : pc[q] \notin {"check", "up"}
  BY <1>3, LatestAssumption DEF IInv, InStep, MigrationsTypeOK
<1> QED BY <1>1, <1>2, <1>4

LEMMA MarkIInv == ASSUME IInv, NEW r \in Replica, Mark(r) PROVE IInv'
<1>1. /\ lock = r
      /\ \A q \in Replica \ {r} : pc[q] \notin Locked \cup {"check", "up"}
  BY Alone DEF Mark
<1>2. \A q \in Replica : pc'[q] = IF q = r THEN "apply" ELSE pc[q]
  BY DEF IInv, MigrationsTypeOK, Mark, Goto
<1>3. dirty = "no" /\ version < Latest /\ version \in Nat
  BY DEF IInv, InStep, Mark, MigrationsTypeOK
<1>4. MigrationsTypeOK'
  BY <1>3, LatestAssumption DEF IInv, MigrationsTypeOK, Mark, Goto, Where, Locked
<1>5. OneInside'
  BY <1>1, <1>2 DEF OneInside, Mark
<1>6. OnDisk'
  BY <1>3, LatestAssumption DEF IInv, OnDisk, Mark, MigrationsTypeOK
<1>7. InStep'
  <2>1. applied[version + 1] = 0
    BY <1>3, LatestAssumption DEF IInv, OnDisk, MigrationsTypeOK
  <2> QED BY <2>1, <1>1, <1>2 DEF InStep, Mark, Locked
<1> QED BY <1>4, <1>5, <1>6, <1>7 DEF IInv

LEMMA ApplyIInv == ASSUME IInv, NEW r \in Replica, Apply(r) PROVE IInv'
<1>1. /\ lock = r
      /\ \A q \in Replica \ {r} : pc[q] \notin Locked \cup {"check", "up"}
  BY Alone DEF Apply
<1>2. \A q \in Replica : pc'[q] = IF q = r THEN "clear" ELSE pc[q]
  BY DEF IInv, MigrationsTypeOK, Apply, Goto
<1>3. /\ dirty = "yes" /\ applied[version] = 0 /\ version \in 1 .. Latest
      /\ applied' = [applied EXCEPT ![version] = 1]
  <2>1. dirty = "yes" /\ applied[version] = 0
    BY DEF IInv, InStep, Apply
  <2>2. version \in 1 .. Latest
    BY <2>1, LatestAssumption DEF IInv, OnDisk, MigrationsTypeOK
  <2> QED BY <2>1, <2>2 DEF Apply
<1>4. MigrationsTypeOK'
  BY <1>3 DEF IInv, MigrationsTypeOK, Apply, Goto, Where, Locked
<1>5. OneInside'
  BY <1>1, <1>2 DEF OneInside, Apply
<1>6. OnDisk'
  BY <1>3 DEF IInv, OnDisk, Apply, MigrationsTypeOK
<1>7. InStep'
  <2>1. applied'[version] = 1
    BY <1>3 DEF IInv, MigrationsTypeOK
  <2> QED BY <2>1, <1>1, <1>2, <1>3 DEF InStep, Apply, Locked
<1> QED BY <1>4, <1>5, <1>6, <1>7 DEF IInv

LEMMA ClearIInv == ASSUME IInv, NEW r \in Replica, Clear(r) PROVE IInv'
<1>1. /\ lock = r
      /\ \A q \in Replica \ {r} : pc[q] \notin Locked \cup {"check", "up"}
  BY Alone DEF Clear
<1>2. \A q \in Replica :
         pc'[q] = IF q = r THEN (IF version = Latest THEN "unlock" ELSE "mark") ELSE pc[q]
  BY DEF IInv, MigrationsTypeOK, Clear, Goto
<1>3. applied[version] = 1 /\ version \in 1 .. Latest
  BY LatestAssumption DEF IInv, InStep, OnDisk, Clear, MigrationsTypeOK
<1>4. MigrationsTypeOK'
  BY DEF IInv, MigrationsTypeOK, Clear, Goto, Where, Locked
<1>5. OneInside'
  BY <1>1, <1>2 DEF OneInside, Clear
<1>6. OnDisk'
  BY <1>3 DEF IInv, OnDisk, Clear, MigrationsTypeOK
<1>7. InStep'
  <2>1. version' = version /\ dirty' = "no" /\ (version # Latest => version < Latest)
    BY <1>3, LatestAssumption DEF Clear
  <2>2. ASSUME NEW q \in Replica
        PROVE  /\ pc'[q] = "mark" => version < Latest
               /\ pc'[q] \in {"unlock", "check", "up"} => version = Latest
               /\ pc'[q] \notin {"apply", "clear"}
    BY <1>1, <1>2, <2>1 DEF Locked
  <2> QED BY <2>1, <2>2 DEF InStep
<1> QED BY <1>4, <1>5, <1>6, <1>7 DEF IInv

LEMMA NextIInv == IInv /\ [Next]_vars => IInv'
<1> SUFFICES ASSUME IInv, [Next]_vars PROVE IInv'
  OBVIOUS
<1> USE DEF Where, Locked
<1>1. CASE UNCHANGED vars
  BY <1>1 DEF IInv, MigrationsTypeOK, OneInside, InStep, OnDisk, vars
<1>2. ASSUME NEW r \in Replica, Start(r) PROVE IInv'
  BY <1>2, Quiet DEF Start
<1>3. ASSUME NEW r \in Replica, Open(r) PROVE IInv'
  BY <1>3, Quiet DEF Open
<1>4. ASSUME NEW r \in Replica, Lock(r) PROVE IInv'
  <2>1. \A q \in Replica : pc[q] \notin Locked
    BY <1>4, ReplicaAssumption DEF IInv, OneInside, Lock
  <2>2. \A q \in Replica : pc'[q] = IF q = r THEN "read" ELSE pc[q]
    BY <1>4 DEF IInv, MigrationsTypeOK, Lock, Goto
  <2>3. MigrationsTypeOK' /\ OnDisk' /\ InStep'
    BY <1>4, <2>2 DEF IInv, MigrationsTypeOK, OnDisk, InStep, Lock, Goto, data
  <2>4. OneInside'
    BY <1>4, <2>1, <2>2 DEF OneInside, Lock
  <2> QED BY <2>3, <2>4 DEF IInv
<1>5. ASSUME NEW r \in Replica, LockTimeout(r) PROVE IInv'
  BY <1>5, Quiet DEF LockTimeout
<1>6. ASSUME NEW r \in Replica, ReadVersion(r) PROVE IInv'
  <2>1. lock = r /\ version \in 0 .. Latest /\ dirty \in {"yes", "no"}
    BY <1>6 DEF ReadVersion, IInv, OneInside, MigrationsTypeOK
  <2>2. CASE dirty = "yes" /\ Goto(r, "give_up")
    BY <1>6, <2>1, <2>2, Quiet DEF ReadVersion
  <2>3. CASE dirty = "no" /\ version = Latest /\ Goto(r, "unlock")
    BY <1>6, <2>1, <2>3, Quiet DEF ReadVersion
  <2>4. CASE dirty = "no" /\ version < Latest /\ Goto(r, "mark")
    BY <1>6, <2>1, <2>4, Quiet DEF ReadVersion
  <2> QED BY <1>6, <2>2, <2>3, <2>4 DEF ReadVersion
<1>7. ASSUME NEW r \in Replica, Unlock(r) PROVE IInv'
  <2>1. CASE pc[r] = "unlock"
    <3>1. dirty = "no" /\ version = Latest
      BY <2>1 DEF IInv, InStep
    <3>2. Goto(r, "check")
      BY <1>7, <2>1 DEF Unlock
    <3> QED BY <1>7, <2>1, <3>1, <3>2, Quiet DEF Unlock
  <2>2. CASE pc[r] = "give_up"
    <3>1. Goto(r, "failed")
      BY <1>7, <2>2 DEF Unlock
    <3> QED BY <1>7, <2>2, <3>1, Quiet DEF Unlock
  <2> QED BY <1>7, <2>1, <2>2 DEF Unlock
<1>8. ASSUME NEW r \in Replica, Check(r) PROVE IInv'
  <2>1. dirty = "no" /\ version = Latest
    BY <1>8 DEF Check, IInv, InStep
  <2>2. CASE Goto(r, "up")
    BY <1>8, <2>1, <2>2, Quiet DEF Check
  <2>3. CASE Goto(r, "failed")
    BY <1>8, <2>3, Quiet DEF Check
  <2> QED BY <1>8, <2>2, <2>3 DEF Check
<1>9. ASSUME NEW r \in Replica, StatementFails(r) PROVE IInv'
  <2>1. lock = r
    BY <1>9 DEF StatementFails, IInv, OneInside
  <2> QED BY <1>9, <2>1, Quiet DEF StatementFails
<1>10. ASSUME NEW r \in Replica, Disconnect(r) PROVE IInv'
  BY <1>10, Quiet DEF Disconnect
<1>11. ASSUME NEW r \in Replica, Die(r) PROVE IInv'
  BY <1>11, Quiet DEF Die
<1>12. ASSUME NEW r \in Replica, LockLate(r) PROVE IInv'
  <2>1. \A q \in Replica : pc[q] \notin Locked
    BY <1>12, ReplicaAssumption DEF IInv, OneInside, LockLate
  <2>2. \A q \in Replica : pc'[q] = IF q = r THEN "give_up" ELSE pc[q]
    BY <1>12 DEF IInv, MigrationsTypeOK, LockLate, Goto
  <2>3. MigrationsTypeOK' /\ OnDisk' /\ InStep'
    BY <1>12, <2>2 DEF IInv, MigrationsTypeOK, OnDisk, InStep, LockLate, Goto, data
  <2>4. OneInside'
    BY <1>12, <2>1, <2>2 DEF OneInside, LockLate
  <2> QED BY <2>3, <2>4 DEF IInv
<1> QED
  BY <1>1, <1>2, <1>3, <1>4, <1>5, <1>6, <1>7, <1>8, <1>9, <1>10, <1>11,
     <1>12, MarkIInv, ApplyIInv, ClearIInv DEF Next, Advance, Granted

THEOREM Inductive == Spec => []IInv
BY InitIInv, NextIInv, PTL DEF Spec

-----------------------------------------------------------------------------
(* Type correctness of the migrations model (postgres.go:45-62).           *)
THEOREM TypeCorrect == Spec => []MigrationsTypeOK
<1>1. IInv => MigrationsTypeOK
  BY DEF IInv
<1> QED BY <1>1, Inductive, PTL

(* A replica that comes up has the whole schema under it, whichever others *)
(* died, failed or are migrating (postgres.go:57-60).                      *)
THEOREM SchemaIsReady == Spec => []SchemaReady
<1>1. IInv => SchemaReady
  BY LatestAssumption DEF IInv, MigrationsTypeOK, InStep, OnDisk, SchemaReady
<1> QED BY <1>1, Inductive, PTL

(* No migration is run twice or before an earlier one (postgres.go:52).    *)
THEOREM InOrder == Spec => []AppliedInOrder
<1>1. ASSUME IInv PROVE AppliedInOrder
  <2>1. \A v \in 1 .. Latest :
           applied[v] \in {0, 1} /\ (applied[v] = 1 => v <= version)
                                /\ (v < version => applied[v] = 1)
    BY <1>1, LatestAssumption DEF IInv, MigrationsTypeOK, OnDisk
  <2>2. version \in Nat
    BY <1>1, LatestAssumption DEF IInv, MigrationsTypeOK
  <2>3. \A v \in 1 .. Latest : applied[v] <= 1
    BY <2>1
  <2>4. ASSUME NEW v \in 2 .. Latest PROVE applied[v] <= applied[v - 1]
    <3>1. v \in 1 .. Latest /\ v - 1 \in 1 .. Latest /\ v \in Nat
      BY LatestAssumption
    <3>2. CASE v <= version
      BY <2>1, <2>2, <3>1, <3>2
    <3>3. CASE ~(v <= version)
      BY <2>1, <2>2, <3>1, <3>3
    <3> QED BY <3>2, <3>3
  <2> QED BY <2>3, <2>4 DEF AppliedInOrder
<1> QED BY <1>1, Inductive, PTL

(* A migration cut short stays marked, and no replica comes up over it     *)
(* (postgres.go:52-54).                                                    *)
THEOREM CutShort == Spec => CutShortStaysVisible
<1> DEFINE Visible == dirty = "yes" /\ lock = NoReplica =>
                         /\ dirty' = "yes"
                         /\ \A r \in Replica : pc'[r] = "up" => pc[r] = "up"
<1>1. IInv /\ [Next]_vars => [Visible]_vars
  <2> SUFFICES ASSUME IInv, Next, dirty = "yes", lock = NoReplica
               PROVE  /\ dirty' = "yes"
                      /\ \A r \in Replica : pc'[r] = "up" => pc[r] = "up"
    OBVIOUS
  <2>1. \A r \in Replica : pc[r] \notin Locked \cup {"check"}
    BY ReplicaAssumption DEF IInv, OneInside, InStep
  <2>2. PICK r \in Replica : \/ Start(r) \/ Open(r) \/ Lock(r) \/ LockTimeout(r)
                             \/ LockLate(r) \/ Disconnect(r) \/ Die(r)
    BY <2>1 DEF Next, Advance, Granted, ReadVersion, Mark, Apply, Clear, Unlock,
                Check, StatementFails, Locked
  <2>3. dirty' = dirty
    BY <2>2 DEF Start, Open, Lock, LockTimeout, LockLate, Disconnect, Die, data
  <2>4. PICK s \in Where \ {"up"} : Goto(r, s)
    BY <2>2 DEF Start, Open, Lock, LockTimeout, LockLate, Disconnect, Die, Where, Locked
  <2>5. pc \in [Replica -> Where]
    BY DEF IInv, MigrationsTypeOK
  <2> QED BY <2>3, <2>4, <2>5 DEF Goto
<1> QED BY <1>1, Inductive, PTL DEF Spec, CutShortStaysVisible
=============================================================================
