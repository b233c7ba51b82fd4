-------------------------- MODULE MiddlewareProofs --------------------------
(***************************************************************************)
(* The middleware chain, for every set of requests, routes and statuses.   *)
(***************************************************************************)
EXTENDS Middleware, TLAPS

(* The chain, position by position.                                        *)
Last(q) == IF Route[q] = "users" THEN 7 ELSE 6

LEMMA ChainPositions ==
    ASSUME NEW q \in Request
    PROVE  /\ Chain(q)[1] = "RequestID" /\ Chain(q)[2] = "otelgin"
           /\ Chain(q)[3] = "Recovery" /\ Chain(q)[4] = "RequestLogger"
           /\ Chain(q)[5] = "Metrics"
           /\ Route[q] = "users" => Chain(q)[6] = "Auth" /\ Chain(q)[7] = "handler"
           /\ Route[q] # "users" => Chain(q)[6] = "handler"
  <1>1. CASE Route[q] = "users"
    <2>1. Chain(q) = Global \o <<"Auth">> \o <<"handler">>
      BY <1>1 DEF Chain
    <2> QED BY <1>1, <2>1 DEF Global
  <1>2. CASE Route[q] # "users"
    <2>1. Chain(q) = Global \o <<>> \o <<"handler">>
      BY <1>2 DEF Chain
    <2> QED BY <1>2, <2>1 DEF Global
  <1> QED BY <1>1, <1>2

(* Where a request can be, and what has happened to it by then: it has an  *)
(* id once it is past RequestID, and a panic gets no further than Recovery.*)
Placed(q) ==
    /\ dir[q] \in {"idle", "done"} => at[q] = 0
    /\ dir[q] = "in" => at[q] \in 1 .. Last(q)
    /\ dir[q] = "out" => at[q] < Last(q)
    /\ dir[q] = "panic" => at[q] \in 3 .. Last(q)
    /\ dir[q] \in {"out", "panic", "done"} \/ (dir[q] = "in" /\ at[q] > 1) =>
          id[q]["header"] # NoID

(* A status on the wire is the ResponseWriter's.                           *)
Settled(q) == /\ sent[q] = Unset \/ sent[q] = status[q]
              /\ dir[q] \in {"idle", "in"} => sent[q] = Unset
              /\ dir[q] = "done" => sent[q] = status[q]

(* An observer records on the way out only, when nothing changes the       *)
(* status any more; otelgin has recorded once it is left.                  *)
Recorded(q) ==
    /\ \A m \in Observer : seen[q][m] # Unset =>
          dir[q] \in {"out", "done"} /\ seen[q][m] = status[q]
    /\ dir[q] \in {"out", "done"} /\ at[q] < 2 /\ ~Skips("otelgin", q) =>
          seen[q]["otelgin"] # Unset

(* The inductive invariant.                                                *)
Inv(q) == Placed(q) /\ Settled(q) /\ Recorded(q)

MiddlewareInv == MiddlewareTypeOK /\ \A q \in Request : Inv(q)

-----------------------------------------------------------------------------
(* A step of one request leaves what there is of the others alone.         *)
OnlyAt(f, g, q, T) == g \in [Request -> T] /\ \A r \in Request \ {q} : g[r] = f[r]

(* An assignment at one request, and none.                                 *)
LEMMA Update ==
    ASSUME NEW T, NEW f \in [Request -> T], NEW q \in Request, NEW v \in T,
           NEW g, g = [f EXCEPT ![q] = v]
    PROVE  OnlyAt(f, g, q, T) /\ g[q] = v
  BY DEF OnlyAt

LEMMA Same ==
    ASSUME NEW T, NEW f \in [Request -> T], NEW q \in Request, NEW g, g = f
    PROVE  OnlyAt(f, g, q, T) /\ g[q] = f[q]
  BY DEF OnlyAt

(* The values of the six variables at one request.                         *)
Places == 0 .. 7
Codes == 200 .. 599
Dirs == {"idle", "in", "out", "panic", "done"}
Sents == {Unset, 0} \cup 200 .. 599
IDs == [IDPlace -> {NoID} \cup Request \X {"in", "new"}]
Records == [Observer -> {Unset} \cup 200 .. 599]

LEMMA TypesOf ==
    ASSUME MiddlewareTypeOK
    PROVE  /\ at \in [Request -> Places] /\ dir \in [Request -> Dirs]
           /\ status \in [Request -> Codes] /\ sent \in [Request -> Sents]
           /\ id \in [Request -> IDs] /\ seen \in [Request -> Records]
  BY DEF MiddlewareTypeOK, Places, Codes, Dirs, Sents, IDs, Records

(* What a step of q does to the six variables, in three parts.             *)
Moves(q) == OnlyAt(at, at', q, Places) /\ OnlyAt(dir, dir', q, Dirs)
Writes(q) == OnlyAt(status, status', q, Codes) /\ OnlyAt(sent, sent', q, Sents)
Marks(q) == OnlyAt(id, id', q, IDs) /\ OnlyAt(seen, seen', q, Records)

(* Requests share nothing: a step of q that keeps the invariant at q       *)
(* keeps it everywhere.                                                    *)
LEMMA MoveAlone ==
    ASSUME MiddlewareInv, NEW q \in Request, Moves(q), Writes(q), Marks(q), Inv(q)'
    PROVE  MiddlewareInv'
  <1>1. MiddlewareTypeOK'
    BY DEF Moves, Writes, Marks, OnlyAt, MiddlewareTypeOK, Places, Codes, Dirs, Sents, IDs, Records
  <1>2. ASSUME NEW r \in Request \ {q} PROVE Inv(r)'
    <2>1. Placed(r) /\ Settled(r) /\ Recorded(r)
      BY DEF MiddlewareInv, Inv
    <2>2. /\ at'[r] = at[r] /\ dir'[r] = dir[r] /\ status'[r] = status[r]
          /\ sent'[r] = sent[r] /\ id'[r] = id[r] /\ seen'[r] = seen[r]
      BY DEF Moves, Writes, Marks, OnlyAt
    <2>3. Placed(r)' /\ Settled(r)'
      BY <2>1, <2>2 DEF Placed, Settled
    <2>4. Recorded(r)'
      BY <2>1, <2>2 DEF Recorded
    <2> QED BY <2>3, <2>4 DEF Inv
  <1> QED BY <1>1, <1>2 DEF MiddlewareInv

(* One place further in, and one further out.                              *)
LEMMA Inwardly ==
    ASSUME MiddlewareTypeOK, NEW q \in Request, at[q] \in 0 .. 6, Inwards(q)
    PROVE  Moves(q) /\ at'[q] = at[q] + 1 /\ dir'[q] = dir[q]
  <1>1. at' = [at EXCEPT ![q] = at[q] + 1] /\ dir' = dir /\ at[q] + 1 \in Places
    BY DEF Inwards, Places
  <1> QED BY <1>1, TypesOf, Update, Same DEF Moves

LEMMA Outwardly ==
    ASSUME MiddlewareTypeOK, NEW q \in Request, at[q] \in 1 .. 7, Outwards(q)
    PROVE  Moves(q) /\ at'[q] = at[q] - 1 /\ dir'[q] = "out"
  <1>1. at' = [at EXCEPT ![q] = at[q] - 1] /\ dir' = [dir EXCEPT ![q] = "out"]
    BY DEF Outwards
  <1>2. at[q] - 1 \in Places /\ "out" \in Dirs
    BY DEF Places, Dirs
  <1>3. OnlyAt(at, at', q, Places) /\ at'[q] = at[q] - 1
    BY <1>1, <1>2, TypesOf, Update
  <1>4. OnlyAt(dir, dir', q, Dirs) /\ dir'[q] = "out"
    BY <1>1, <1>2, TypesOf, Update
  <1> QED BY <1>3, <1>4 DEF Moves

(* Once the status is on the wire a write changes nothing.                 *)
LEMMA WriteSettles ==
    ASSUME MiddlewareTypeOK, NEW q \in Request, Settled(q), NEW s \in 200 .. 599,
           Write(q, s)
    PROVE  Writes(q) /\ sent'[q] = status'[q]
  <1>1. CASE sent[q] = Unset
    <2>1. status' = [status EXCEPT ![q] = s] /\ sent' = [sent EXCEPT ![q] = s] /\ s \in Sents /\ s \in Codes
      BY <1>1 DEF Write, Sents, Codes
    <2>2. OnlyAt(status, status', q, Codes) /\ status'[q] = s
      BY <2>1, TypesOf, Update
    <2>3. OnlyAt(sent, sent', q, Sents) /\ sent'[q] = s
      BY <2>1, TypesOf, Update
    <2> QED BY <2>2, <2>3 DEF Writes
  <1>2. CASE sent[q] # Unset
    <2>1. status' = status /\ sent' = sent
      BY <1>2 DEF Write
    <2> QED BY <1>2, <2>1, TypesOf, Same DEF Writes, Settled
  <1> QED BY <1>1, <1>2

(* Steps that write no status, or mark nothing.                            *)
LEMMA NothingWritten ==
    ASSUME MiddlewareTypeOK, NEW q \in Request, status' = status, sent' = sent
    PROVE  Writes(q)
  BY TypesOf, Same DEF Writes

LEMMA NothingMarked ==
    ASSUME MiddlewareTypeOK, NEW q \in Request, id' = id, seen' = seen
    PROVE  Marks(q)
  BY TypesOf, Same DEF Marks

(* The way in.                                                             *)
LEMMA InwardsKeeps ==
    ASSUME MiddlewareInv, NEW q \in Request,
           Arrive(q) \/ RequestID(q) \/ Enter(q)
    PROVE  MiddlewareInv'
  <1>0. MiddlewareTypeOK /\ Placed(q) /\ Settled(q) /\ Recorded(q)
    BY DEF MiddlewareInv, Inv
  <1>1. CASE Arrive(q)
    <2> DEFINE first == IF Route[q] = "unknown" THEN 404 ELSE 200
    <2>1. /\ dir[q] = "idle" /\ dir' = [dir EXCEPT ![q] = "in"]
          /\ at' = [at EXCEPT ![q] = 1] /\ status' = [status EXCEPT ![q] = first]
          /\ sent' = sent /\ id' = id /\ seen' = seen
      BY <1>1 DEF Arrive
    <2>2. 1 \in Places /\ "in" \in Dirs /\ first \in Codes
      BY DEF Places, Codes, Dirs
    <2> HIDE DEF first
    <2>3. OnlyAt(at, at', q, Places) /\ at'[q] = 1
      BY <1>0, <2>1, <2>2, TypesOf, Update
    <2>4. OnlyAt(dir, dir', q, Dirs) /\ dir'[q] = "in"
      BY <1>0, <2>1, <2>2, TypesOf, Update
    <2>5. OnlyAt(status, status', q, Codes)
      BY <1>0, <2>1, <2>2, TypesOf, Update
    <2>6. OnlyAt(sent, sent', q, Sents) /\ Marks(q)
      BY <1>0, <2>1, TypesOf, Same, NothingMarked
    <2>7. Inv(q)'
      BY <1>0, <2>1, <2>3, <2>4 DEF Inv, Placed, Settled, Recorded, Last
    <2> QED BY <2>3, <2>4, <2>5, <2>6, <2>7, MoveAlone DEF Moves, Writes
  <1>2. CASE RequestID(q)
    <2> DEFINE x == IF q \in HasID THEN <<q, "in">> ELSE <<q, "new">>
               both == [p \in IDPlace |-> x]
    <2>1. /\ dir[q] = "in" /\ Here(q) = "RequestID" /\ Inwards(q)
          /\ id' = [id EXCEPT ![q] = both]
          /\ status' = status /\ sent' = sent /\ seen' = seen
      BY <1>2 DEF RequestID
    <2>2. at[q] = 1
      BY <1>0, <2>1, ChainPositions DEF Here, Placed, Last
    <2>3. x # NoID /\ both \in IDs /\ both["header"] = x
      BY RequestAssumption DEF IDs, IDPlace
    <2> HIDE DEF both, x
    <2>4. OnlyAt(id, id', q, IDs) /\ id'[q] = both
      BY <1>0, <2>1, <2>3, TypesOf, Update
    <2>5. Moves(q) /\ at'[q] = 2 /\ dir'[q] = "in"
      BY <1>0, <2>1, <2>2, Inwardly
    <2>6. Writes(q) /\ OnlyAt(seen, seen', q, Records)
      BY <1>0, <2>1, TypesOf, NothingWritten, Same
    <2>7. Inv(q)'
      BY <1>0, <2>1, <2>3, <2>4, <2>5 DEF Inv, Placed, Settled, Recorded, Last
    <2> QED BY <2>4, <2>5, <2>6, <2>7, MoveAlone DEF Marks
  <1>3. CASE Enter(q)
    <2>1. /\ dir[q] = "in" /\ Here(q) \in Observer \cup {"Recovery"} /\ Inwards(q)
          /\ status' = status /\ sent' = sent /\ id' = id /\ seen' = seen
      BY <1>3 DEF Enter
    <2>2. at[q] \in 2 .. 5
      BY <1>0, <2>1, ChainPositions DEF Here, Placed, Last, Observer
    <2>3. Moves(q) /\ at'[q] = at[q] + 1 /\ dir'[q] = "in"
      BY <1>0, <2>1, <2>2, Inwardly
    <2>4. Writes(q) /\ Marks(q)
      BY <1>0, <2>1, NothingWritten, NothingMarked
    <2>5. Inv(q)'
      BY <1>0, <2>1, <2>2, <2>3 DEF Inv, Placed, Settled, Recorded, Last
    <2> QED BY <2>3, <2>4, <2>5, MoveAlone
  <1> QED BY <1>1, <1>2, <1>3

(* Where it turns round: Auth, the handler or a panic.                     *)
LEMMA TurnKeeps ==
    ASSUME MiddlewareInv, NEW q \in Request, Auth(q) \/ Handle(q) \/ Panic(q)
    PROVE  MiddlewareInv'
  <1>0. MiddlewareTypeOK /\ Placed(q) /\ Settled(q) /\ Recorded(q)
    BY DEF MiddlewareInv, Inv
  <1>1. dir[q] = "in" /\ Here(q) \in {"Auth", "handler"} /\ id' = id /\ seen' = seen
    BY DEF Auth, Handle, Panic
  <1>2. /\ at[q] \in 6 .. 7 /\ at[q] <= Last(q)
        /\ Here(q) = "Auth" => at[q] < Last(q)
    BY <1>0, <1>1, ChainPositions DEF Here, Placed, Last
  <1>3. id[q]["header"] # NoID /\ sent[q] = Unset /\ \A m \in Observer : seen[q][m] = Unset
    BY <1>0, <1>1, <1>2 DEF Placed, Settled, Recorded
  <1>4. Marks(q)
    BY <1>0, <1>1, NothingMarked
  <1>5. Writes(q) /\ (sent'[q] = Unset \/ sent'[q] = status'[q])
    <2>1. \/ status' = status /\ sent' = sent
          \/ \E s \in Statuses \cup {401} : Write(q, s)
          \/ status' = [status EXCEPT ![q] = 204] /\ sent' = sent
      BY DEF Auth, Handle, Panic
    <2>2. CASE status' = status /\ sent' = sent
      BY <1>0, <1>3, <2>2, NothingWritten
    <2>3. CASE \E s \in Statuses \cup {401} : Write(q, s)
      <3>1. PICK s \in Statuses \cup {401} : Write(q, s)
        BY <2>3
      <3>2. s \in 200 .. 599
        BY StatusAssumption
      <3> QED BY <1>0, <3>1, <3>2, WriteSettles
    <2>4. CASE status' = [status EXCEPT ![q] = 204] /\ sent' = sent
      <3>1. PICK s \in Codes : status' = [status EXCEPT ![q] = s]
        BY <2>4 DEF Codes
      <3>2. OnlyAt(status, status', q, Codes)
        BY <1>0, <2>4, <3>1, TypesOf, Update
      <3>3. OnlyAt(sent, sent', q, Sents)
        BY <1>0, <2>4, TypesOf, Same
      <3> QED BY <1>3, <2>4, <3>2, <3>3 DEF Writes
    <2> QED BY <2>1, <2>2, <2>3, <2>4
  <1>6. CASE Auth(q) /\ Inwards(q) /\ status' = status /\ sent' = sent
    <2>1. Moves(q) /\ at'[q] = at[q] + 1 /\ dir'[q] = "in" /\ at[q] = 6 /\ Last(q) = 7
      <3>1. at[q] = 6 /\ Last(q) = 7
        BY <1>1, <1>2, <1>6 DEF Auth, Last
      <3> QED BY <1>0, <1>1, <1>6, <3>1, Inwardly
    <2>2. Inv(q)'
      BY <1>1, <1>3, <1>6, <2>1 DEF Inv, Placed, Settled, Recorded, Last
    <2> QED BY <1>4, <1>5, <2>1, <2>2, MoveAlone
  <1>7. CASE Outwards(q)
    <2>1. Moves(q) /\ at'[q] = at[q] - 1 /\ dir'[q] = "out"
      BY <1>0, <1>2, <1>7, Outwardly
    <2>2. Inv(q)'
      BY <1>1, <1>2, <1>3, <1>5, <2>1 DEF Inv, Placed, Settled, Recorded, Last
    <2> QED BY <1>4, <1>5, <2>1, <2>2, MoveAlone
  <1>8. CASE Panic(q)
    <2>1. dir' = [dir EXCEPT ![q] = "panic"] /\ at' = at /\ "panic" \in Dirs
      BY <1>8 DEF Panic, Dirs
    <2>2. OnlyAt(dir, dir', q, Dirs) /\ dir'[q] = "panic"
      BY <1>0, <2>1, TypesOf, Update
    <2>3. OnlyAt(at, at', q, Places)
      BY <1>0, <2>1, TypesOf, Same
    <2>4. Inv(q)'
      BY <1>1, <1>2, <1>3, <1>5, <2>1, <2>2 DEF Inv, Placed, Settled, Recorded, Last
    <2> QED BY <1>4, <1>5, <2>2, <2>3, <2>4, MoveAlone DEF Moves
  <1> QED BY <1>6, <1>7, <1>8 DEF Auth, Handle

(* The way out: an observer records what nothing changes any more.         *)
LEMMA LeaveKeeps ==
    ASSUME MiddlewareInv, NEW q \in Request, Leave(q)
    PROVE  MiddlewareInv'
  <1>0. MiddlewareTypeOK /\ Placed(q) /\ Settled(q) /\ Recorded(q)
    BY DEF MiddlewareInv, Inv
  <1> DEFINE records == Here(q) \in Observer /\ ~Skips(Here(q), q)
             row == [seen[q] EXCEPT ![Here(q)] = status[q]]
  <1>1. /\ dir[q] = "out" /\ at[q] > 0 /\ Outwards(q)
        /\ seen' = IF records THEN [seen EXCEPT ![q] = row] ELSE seen
        /\ status' = status /\ sent' = sent /\ id' = id
    BY DEF Leave
  <1>2. at[q] \in 1 .. 6 /\ at[q] < Last(q)
    <2>1. at[q] \in 0 .. 7
      BY <1>0, TypesOf DEF Places
    <2> QED BY <1>0, <1>1, <2>1 DEF Placed, Last
  <1>3. Moves(q) /\ at'[q] = at[q] - 1 /\ dir'[q] = "out"
    BY <1>0, <1>1, <1>2, Outwardly
  <1>4. Writes(q) /\ OnlyAt(id, id', q, IDs)
    BY <1>0, <1>1, TypesOf, NothingWritten, Same
  <1>5. seen[q] \in Records /\ status[q] \in 200 .. 599
    BY <1>0, TypesOf DEF Codes
  <1>6. row \in Records /\ \A m \in Observer :
                              row[m] = IF m = Here(q) THEN status[q] ELSE seen[q][m]
    BY <1>5 DEF Records
  <1> HIDE DEF row
  <1>7. OnlyAt(seen, seen', q, Records) /\ seen'[q] = IF records THEN row ELSE seen[q]
    <2>1. CASE records
      BY <1>0, <1>1, <1>6, <2>1, TypesOf, Update
    <2>2. CASE ~records
      BY <1>0, <1>1, <2>2, TypesOf, Same
    <2> QED BY <2>1, <2>2
  <1>8. \A m \in Observer : seen'[q][m] \in {seen[q][m], status[q]}
    BY <1>6, <1>7
  <1>9. at[q] = 2 /\ ~Skips("otelgin", q) => seen'[q]["otelgin"] = status[q]
    <2>1. SUFFICES ASSUME at[q] = 2, ~Skips("otelgin", q) PROVE seen'[q]["otelgin"] = status[q]
      OBVIOUS
    <2>2. Here(q) = "otelgin" /\ "otelgin" \in Observer
      BY <2>1, ChainPositions DEF Here, Observer
    <2>3. records
      BY <2>1, <2>2
    <2> QED BY <1>6, <1>7, <2>2, <2>3
  <1>10. Placed(q)' /\ Settled(q)'
    BY <1>0, <1>1, <1>2, <1>3 DEF Placed, Settled, Last
  <1>11. Recorded(q)'
    <2>1. \A m \in Observer : seen'[q][m] # Unset => seen'[q][m] = status'[q]
      BY <1>0, <1>1, <1>8 DEF Recorded
    <2>2. at'[q] < 2 /\ ~Skips("otelgin", q) => seen'[q]["otelgin"] # Unset
      <3>1. status[q] # Unset
        BY <1>5, StatusAssumption
      <3>2. SUFFICES ASSUME at'[q] < 2, ~Skips("otelgin", q)
                     PROVE  seen'[q]["otelgin"] # Unset
        OBVIOUS
      <3>3. CASE at[q] = 2
        BY <1>9, <3>1, <3>2, <3>3
      <3>4. CASE at[q] = 1
        <4>1. seen[q]["otelgin"] # Unset
          BY <1>0, <1>1, <3>2, <3>4 DEF Recorded
        <4> QED BY <1>8, <3>1, <4>1 DEF Observer
      <3> QED BY <1>2, <1>3, <3>2, <3>3, <3>4
    <2> QED BY <1>3, <2>1, <2>2 DEF Recorded
  <1> QED BY <1>3, <1>4, <1>7, <1>10, <1>11, MoveAlone DEF Marks, Inv

(* A panic reaches Recovery with nothing recorded.                         *)
LEMMA UnwindKeeps ==
    ASSUME MiddlewareInv, NEW q \in Request, Unwind(q)
    PROVE  MiddlewareInv'
  <1>0. MiddlewareTypeOK /\ Placed(q) /\ Settled(q) /\ Recorded(q)
    BY DEF MiddlewareInv, Inv
  <1>1. dir[q] = "panic" /\ id' = id /\ seen' = seen
    BY DEF Unwind
  <1>2. at[q] \in 3 .. 7 /\ at[q] <= Last(q) /\ id[q]["header"] # NoID
    BY <1>0, <1>1 DEF Placed, Last
  <1>3. Marks(q) /\ \A m \in Observer : seen[q][m] = Unset
    BY <1>0, <1>1, NothingMarked DEF Recorded
  <1>4. CASE Here(q) = "Recovery"
    <2>1. at[q] = 3
      BY <1>2, <1>4, ChainPositions DEF Here, Last
    <2>2. Outwards(q) /\ Write(q, 500) /\ 500 \in 200 .. 599
      BY <1>4 DEF Unwind, Recover
    <2>3. Moves(q) /\ at'[q] = 2 /\ dir'[q] = "out"
      BY <1>0, <2>1, <2>2, Outwardly
    <2>4. Writes(q) /\ sent'[q] = status'[q]
      BY <1>0, <2>2, WriteSettles
    <2>5. Inv(q)'
      BY <1>1, <1>2, <1>3, <2>3, <2>4 DEF Inv, Placed, Settled, Recorded, Last
    <2> QED BY <1>3, <2>3, <2>4, <2>5, MoveAlone
  <1>5. CASE Here(q) # "Recovery"
    <2>1. at[q] \in 4 .. 7 /\ at[q] - 1 \in Places
      BY <1>2, <1>5, ChainPositions DEF Here, Places
    <2>2. /\ at' = [at EXCEPT ![q] = at[q] - 1]
          /\ dir' = dir /\ status' = status /\ sent' = sent
      BY <1>5 DEF Unwind
    <2>3. OnlyAt(at, at', q, Places) /\ at'[q] = at[q] - 1
      BY <1>0, <2>1, <2>2, TypesOf, Update
    <2>4. OnlyAt(dir, dir', q, Dirs) /\ Writes(q)
      BY <1>0, <2>2, TypesOf, Same, NothingWritten
    <2>5. Inv(q)'
      BY <1>0, <1>1, <1>2, <1>3, <2>1, <2>2, <2>3 DEF Inv, Placed, Settled, Recorded, Last
    <2> QED BY <1>3, <2>3, <2>4, <2>5, MoveAlone DEF Moves
  <1> QED BY <1>4, <1>5

(* The server sends the status that is left when the chain has ended.      *)
LEMMA FinishKeeps ==
    ASSUME MiddlewareInv, NEW q \in Request, Finish(q)
    PROVE  MiddlewareInv'
  <1>0. MiddlewareTypeOK /\ Placed(q) /\ Settled(q) /\ Recorded(q)
    BY DEF MiddlewareInv, Inv
  <1>1. /\ dir[q] = "out" /\ at[q] = 0
        /\ dir' = [dir EXCEPT ![q] = "done"] /\ sent' = [sent EXCEPT ![q] = status[q]]
        /\ at' = at /\ status' = status /\ id' = id /\ seen' = seen
    <2>1. dir[q] = "out" /\ at[q] = 0
      BY <1>0 DEF Finish, Placed
    <2>2. sent[q] = Unset \/ sent[q] = status[q]
      BY <1>0 DEF Settled
    <2> QED BY <2>1, <2>2 DEF Finish
  <1>2. "done" \in Dirs /\ status[q] \in Sents
    BY <1>0, TypesOf DEF Codes, Dirs, Sents
  <1>3. OnlyAt(dir, dir', q, Dirs) /\ dir'[q] = "done"
    BY <1>0, <1>1, <1>2, TypesOf, Update
  <1>4. OnlyAt(sent, sent', q, Sents) /\ sent'[q] = status[q]
    BY <1>0, <1>1, <1>2, TypesOf, Update
  <1>5. /\ OnlyAt(at, at', q, Places) /\ OnlyAt(status, status', q, Codes)
        /\ Marks(q)
    BY <1>0, <1>1, TypesOf, Same, NothingMarked
  <1>6. Inv(q)'
    BY <1>0, <1>1, <1>3, <1>4 DEF Inv, Placed, Settled, Recorded, Last
  <1> QED BY <1>3, <1>4, <1>5, <1>6, MoveAlone DEF Moves, Writes

LEMMA MiddlewareInit == Init => MiddlewareInv
  <1> SUFFICES ASSUME Init PROVE MiddlewareInv
    OBVIOUS
  <1>1. MiddlewareTypeOK
    BY DEF Init, MiddlewareTypeOK, IDPlace, Observer
  <1>2. \A q \in Request : Inv(q)
    BY DEF Init, Inv, Placed, Settled, Recorded
  <1> QED BY <1>1, <1>2 DEF MiddlewareInv

LEMMA MiddlewareAlways == Spec => []MiddlewareInv
  <1>1. MiddlewareInv /\ [Next]_vars => MiddlewareInv'
    <2> SUFFICES ASSUME MiddlewareInv, [Next]_vars PROVE MiddlewareInv'
      OBVIOUS
    <2>1. CASE UNCHANGED vars
      <3>1. MiddlewareTypeOK'
        BY <2>1 DEF vars, MiddlewareInv, MiddlewareTypeOK
      <3>2. ASSUME NEW q \in Request PROVE Inv(q)'
        BY <2>1 DEF vars, MiddlewareInv, Inv, Placed, Settled, Recorded
      <3> QED BY <3>1, <3>2 DEF MiddlewareInv
    <2> QED BY <2>1, InwardsKeeps, TurnKeeps, LeaveKeeps, UnwindKeeps, FinishKeeps
            DEF Next, AllDone
  <1> QED BY <1>1, MiddlewareInit, PTL DEF Spec

-----------------------------------------------------------------------------
(* Every variable keeps to its type, for every set of requests: no request *)
(* leaves its chain, and no status is one HTTP does not have.              *)
THEOREM MiddlewareTypeCorrect == Spec => []MiddlewareTypeOK
  BY MiddlewareAlways, PTL DEF MiddlewareInv

(* No status is traced, logged or counted but the one the client was sent, *)
(* for a panic after the response was written too.                         *)
THEOREM RecordsAsSent == Spec => []RecordedAsSent
  <1>1. MiddlewareInv => RecordedAsSent
    BY DEF MiddlewareInv, Inv, RecordedAsSent, Settled, Recorded
  <1> QED BY <1>1, MiddlewareAlways, PTL

(* Every request that ends, in a panic or not, was answered, and with its  *)
(* id.                                                                     *)
THEOREM AnswersEveryRequest == Spec => []EveryRequestAnswered
  <1>1. MiddlewareInv => EveryRequestAnswered
    BY DEF MiddlewareInv, Inv, MiddlewareTypeOK, EveryRequestAnswered, Placed, Settled
  <1> QED BY <1>1, MiddlewareAlways, PTL

(* The trace has the status of every request it is meant to have.          *)
THEOREM TracesEveryRequest == Spec => []EveryRequestTraced
  <1>1. MiddlewareInv => EveryRequestTraced
    BY DEF MiddlewareInv, Inv, EveryRequestTraced, Placed, Recorded
  <1> QED BY <1>1, MiddlewareAlways, PTL
=============================================================================
