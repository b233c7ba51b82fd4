----------------------------- MODULE Middleware -----------------------------
(***************************************************************************)
(* The middleware chain (internal/adapter/http/router.go and middleware/): *)
(* a request goes inwards through the middlewares to a handler and back    *)
(* out; a panic unwinds outwards and skips what a middleware does after    *)
(* c.Next(), up to the first that recovers.  Gin, otelgin and net/http are *)
(* modelled from their use.                                                *)
(***************************************************************************)
EXTENDS Naturals, Sequences

CONSTANTS
    Request,
    Route,     \* "users" (behind Auth), another "open" route, or "unknown"
    Path,      \* "noisy" (noisyPaths), "pprof" (under /debug/pprof) or "other"
    HasID,     \* the requests that come with an X-Request-ID
    Statuses,  \* what handlers answer
    NoID, Unset

ASSUME RouteAssumption ==
    /\ Route \in [Request -> {"users", "open", "unknown"}]
    /\ Path \in [Request -> {"noisy", "pprof", "other"}]
ASSUME RequestAssumption == HasID \subseteq Request /\ NoID \notin Request \X {"in", "new"}
ASSUME StatusAssumption == Statuses \subseteq 200 .. 599 /\ Unset \notin Nat

VARIABLES
    at,      \* the position in its chain each request has reached
    dir,     \* "idle", on its way "in" or "out", unwinding in "panic", or "done"
    status,  \* the status of its ResponseWriter ...
    sent,    \* ... and the one on the wire, Unset before, 0 if cut off
    id,      \* its id in the Gin context and the response header
    seen     \* the status each observer recorded for it

vars == <<at, dir, status, sent, id, seen>>

(* The tracer (otelgin), the access log, the counters.                     *)
Observer == {"otelgin", "RequestLogger", "Metrics"}
IDPlace == {"gin", "header"}

(* Not the code: Recovery installed first.                                 *)
GlobalRecoveryFirst ==
    <<"Recovery", "RequestID", "otelgin", "RequestLogger", "Metrics">>

Global == <<"RequestID", "otelgin", "Recovery", "RequestLogger", "Metrics">>

Chain(q) == Global \o (IF Route[q] = "users" THEN <<"Auth">> ELSE <<>>) \o <<"handler">>
Here(q) == Chain(q)[at[q]]

(* The paths an observer leaves out.  Metrics looks at the route for the   *)
(* noisy ones and counts, say, a POST to one of them as "unknown".         *)
Skips(m, q) == \/ Path[q] = "pprof"
               \/ Path[q] = "noisy" /\ (m # "Metrics" \/ Route[q] # "unknown")

Init ==
    /\ at = [q \in Request |-> 0]
    /\ dir = [q \in Request |-> "idle"]
    /\ status = [q \in Request |-> 200]
    /\ sent = [q \in Request |-> Unset]
    /\ id = [q \in Request |-> [p \in IDPlace |-> NoID]]
    /\ seen = [q \in Request |-> [m \in Observer |-> Unset]]

-----------------------------------------------------------------------------
(* Gin picks the chain; for a path of no route it is the global one, with  *)
(* the status at 404 before it starts.  (What Gin redirects by itself, for *)
(* a trailing slash, does not come this way.)                              *)
Arrive(q) ==
    /\ dir[q] = "idle"
    /\ dir' = [dir EXCEPT ![q] = "in"]
    /\ at' = [at EXCEPT ![q] = 1]
    /\ status' = [status EXCEPT ![q] = IF Route[q] = "unknown" THEN 404 ELSE 200]
    /\ UNCHANGED <<sent, id, seen>>

Inwards(q) == at' = [at EXCEPT ![q] = at[q] + 1] /\ UNCHANGED dir
Outwards(q) == at' = [at EXCEPT ![q] = at[q] - 1] /\ dir' = [dir EXCEPT ![q] = "out"]

(* The body is written: the status goes out and cannot be changed.         *)
Write(q, s) ==
    IF sent[q] = Unset
    THEN status' = [status EXCEPT ![q] = s] /\ sent' = [sent EXCEPT ![q] = s]
    ELSE UNCHANGED <<status, sent>>

(* Not the code: only an id that came with the request.                    *)
RequestIDHonoured(q) ==
    /\ dir[q] = "in" /\ Here(q) = "RequestID"
    /\ id' = IF q \in HasID THEN [id EXCEPT ![q] = [p \in IDPlace |-> <<q, "in">>]] ELSE id
    /\ Inwards(q)
    /\ UNCHANGED <<status, sent, seen>>

(* The id that came with the request or a new one.  The comment also names *)
(* the request context (request_id.go:11), which is left as it is.         *)
RequestID(q) ==
    /\ dir[q] = "in" /\ Here(q) = "RequestID"
    /\ LET x == IF q \in HasID THEN <<q, "in">> ELSE <<q, "new">>
       IN id' = [id EXCEPT ![q] = [p \in IDPlace |-> x]]
    /\ Inwards(q)
    /\ UNCHANGED <<status, sent, seen>>

(* The others do nothing that shows before c.Next().                       *)
Enter(q) ==
    /\ dir[q] = "in" /\ Here(q) \in Observer \cup {"Recovery"}
    /\ Inwards(q)
    /\ UNCHANGED <<status, sent, id, seen>>

(* The token is accepted, or the chain ends here with 401.                 *)
Auth(q) ==
    /\ dir[q] = "in" /\ Here(q) = "Auth"
    /\ \/ Inwards(q) /\ UNCHANGED <<status, sent>>
       \/ Outwards(q) /\ Write(q, 401)
    /\ UNCHANGED <<id, seen>>

(* The handler answers, perhaps by setting a status without a body (204);  *)
(* a path of no route has none.                                            *)
Handle(q) ==
    /\ dir[q] = "in" /\ Here(q) = "handler"
    /\ Outwards(q)
    /\ IF Route[q] = "unknown"
       THEN UNCHANGED <<status, sent>>
       ELSE \/ \E s \in Statuses : Write(q, s)
            \/ status' = [status EXCEPT ![q] = 204] /\ UNCHANGED sent
    /\ UNCHANGED <<id, seen>>

(* It panics, before it has written a response or after.                   *)
Panic(q) ==
    /\ dir[q] = "in" /\ Here(q) = "handler" /\ Route[q] # "unknown"
    /\ dir' = [dir EXCEPT ![q] = "panic"]
    /\ UNCHANGED <<status, sent>> \/ \E s \in Statuses : Write(q, s)
    /\ UNCHANGED <<at, id, seen>>

(* What follows c.Next(): an observer records the status it finds.         *)
Leave(q) ==
    /\ dir[q] = "out" /\ at[q] > 0
    /\ seen' = IF Here(q) \in Observer /\ ~Skips(Here(q), q)
               THEN [seen EXCEPT ![q][Here(q)] = status[q]] ELSE seen
    /\ Outwards(q)
    /\ UNCHANGED <<status, sent, id>>

(* Not the code: a response whose status is left at zero.                  *)
RecoverBare(q) ==
    status' = [status EXCEPT ![q] = 0] /\ UNCHANGED sent

(* Not the code: the status set even if another is on the wire.            *)
RecoverRegardless(q) ==
    /\ status' = [status EXCEPT ![q] = 500]
    /\ sent' = IF sent[q] = Unset THEN [sent EXCEPT ![q] = 500] ELSE sent

Recover(q) == Write(q, 500)

(* A panic passes a middleware, or Recovery answers for it.                *)
Unwind(q) ==
    /\ dir[q] = "panic" /\ at[q] > 0
    /\ IF Here(q) = "Recovery"
       THEN Outwards(q) /\ Recover(q)
       ELSE at' = [at EXCEPT ![q] = at[q] - 1] /\ UNCHANGED <<dir, status, sent>>
    /\ UNCHANGED <<id, seen>>

(* Gin sends the status if no body was written; net/http cuts a request    *)
(* off whose panic nobody recovered.                                       *)
Finish(q) ==
    /\ dir[q] \in {"out", "panic"} /\ at[q] = 0
    /\ sent' = [sent EXCEPT ![q] = IF dir[q] = "panic" THEN 0
                                   ELSE IF sent[q] = Unset THEN status[q] ELSE sent[q]]
    /\ dir' = [dir EXCEPT ![q] = "done"]
    /\ UNCHANGED <<at, status, id, seen>>

(* Not a deadlock: every request is done.                                  *)
AllDone == (\A q \in Request : dir[q] = "done") /\ UNCHANGED vars

Next == \/ \E q \in Request : \/ Arrive(q) \/ RequestID(q) \/ Enter(q) \/ Auth(q)
                              \/ Handle(q) \/ Panic(q) \/ Leave(q) \/ Unwind(q) \/ Finish(q)
        \/ AllDone

Spec == Init /\ [][Next]_vars

-----------------------------------------------------------------------------
MiddlewareTypeOK ==
    /\ at \in [Request -> 0 .. 7]
    /\ dir \in [Request -> {"idle", "in", "out", "panic", "done"}]
    /\ status \in [Request -> 200 .. 599]
    /\ sent \in [Request -> {Unset, 0} \cup 200 .. 599]
    /\ id \in [Request -> [IDPlace -> {NoID} \cup Request \X {"in", "new"}]]
    /\ seen \in [Request -> [Observer -> {Unset} \cup 200 .. 599]]

(* Whatever is traced, logged or counted carries the status the client was *)
(* sent: none is recorded before it is settled, not even when the response *)
(* had been written before the panic (recovery.go:20, logger.go:32).       *)
RecordedAsSent ==
    \A q \in Request, m \in Observer :
        dir[q] = "done" /\ seen[q][m] # Unset => seen[q][m] = sent[q]

(* Every request gets a response with its id, also one whose handler       *)
(* panics; no panic gets as far as net/http (router.go:52).                *)
EveryRequestAnswered ==
    \A q \in Request : dir[q] = "done" =>
        sent[q] \in 200 .. 599 /\ id[q]["header"] # NoID

(* The trace has the status of every request it is meant to have: otelgin  *)
(* sits outside Recovery and sees the 500 of a panic (router.go:45-52).    *)
EveryRequestTraced ==
    \A q \in Request :
        dir[q] = "done" /\ ~Skips("otelgin", q) => seen[q]["otelgin"] # Unset

-----------------------------------------------------------------------------
(* "RequestLogger logs each HTTP request" (middleware/logger.go:17) and    *)
(* "Total number of HTTP requests" (platform/metrics/metrics.go:35), but   *)
(* for the paths they skip.                                                *)
EachRequestRecorded ==
    \A q \in Request, m \in {"RequestLogger", "Metrics"} :
        dir[q] = "done" /\ ~Skips(m, q) => seen[q][m] # Unset
=============================================================================
