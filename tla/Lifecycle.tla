----------------------------- MODULE Lifecycle -----------------------------
(***************************************************************************)
(* One process of the API (cmd/api/main.go) from start to exit: the main   *)
(* goroutine in run, the goroutine that serves HTTP, the requests being    *)
(* handled, and the connection pool they share with the readiness probe.   *)
(* net/http and pgxpool are modelled from how run and the handlers use     *)
(* them.                                                                   *)
(***************************************************************************)
EXTENDS Naturals, FiniteSets

CONSTANTS
    Request,     \* the requests that can arrive
    Statements,  \* how many statements each of them runs at most
    MaxConns,    \* the size of the pool
    MaxSignals   \* bound: SIGINTs and SIGTERMs sent

ASSUME RequestAssumption == Statements \in [Request -> Nat]
ASSUME PoolAssumption == MaxConns \in Nat \ {0}   \* NewPool fails for less
ASSUME SignalAssumption == MaxSignals \in Nat

VARIABLES
    main,        \* where run is
    err,         \* what run returns; "killed" when a signal ends the process
    notified,    \* signal.Notify has been called
    stop, errCh, \* the two channels, each holding one value at most
    signals,     \* the signals sent so far
    server,      \* where the goroutine of ListenAndServe is
    inShutdown,  \* srv.Shutdown has been called
    pool,        \* the connection pool
    request,     \* where each request is
    left         \* the statements it may still run

proc == <<main, err, notified>>
srv == <<server, inShutdown>>
reqs == <<request, left>>
vars == <<proc, stop, errCh, signals, srv, pool, reqs>>

Alive == main # "exited"
InFlight == {r \in Request : request[r] \in {"running", "waiting", "holding"}}
Holding == {r \in Request : request[r] = "holding"}

Init ==
    /\ main = "tracing" /\ err = "none" /\ notified = FALSE
    /\ stop = FALSE /\ errCh = FALSE /\ signals = 0
    /\ server = "none" /\ inShutdown = FALSE
    /\ pool = "none"
    /\ request = [r \in Request |-> "new"]
    /\ left = Statements

-----------------------------------------------------------------------------
(* The main goroutine.                                                     *)

Goto(m) == main' = m /\ UNCHANGED <<err, notified>>
ReturnVia(m, e) == main' = m /\ err' = e /\ UNCHANGED notified

(* The process ends, whatever its goroutines are doing.                    *)
Exit(e) ==
    /\ main' = "exited" /\ err' = e
    /\ request' = [r \in Request |-> IF r \in InFlight THEN "cut" ELSE request[r]]
    /\ UNCHANGED <<notified, left>>

InitTracing ==
    /\ main = "tracing"
    /\ \/ Goto("pool") /\ UNCHANGED reqs
       \/ Exit("error")
    /\ UNCHANGED <<stop, errCh, signals, srv, pool>>

(* NewPool pings the database, and closes the pool when that fails.        *)
OpenPool ==
    /\ main = "pool"
    /\ \/ Goto("migrate") /\ pool' = "open"
       \/ ReturnVia("stop_tracing", "error") /\ UNCHANGED pool
    /\ UNCHANGED <<stop, errCh, signals, srv, reqs>>

Migrate ==
    /\ main = "migrate"
    /\ Goto("serve") \/ ReturnVia("close_pool", "error")
    /\ UNCHANGED <<stop, errCh, signals, srv, pool, reqs>>

(* go func() { srv.ListenAndServe ... }()                                  *)
Serve ==
    /\ main = "serve"
    /\ Goto("notify")
    /\ server' = "starting"
    /\ UNCHANGED <<stop, errCh, signals, inShutdown, pool, reqs>>

Notify ==
    /\ main = "notify"
    /\ main' = "select" /\ notified' = TRUE
    /\ UNCHANGED <<err, stop, errCh, signals, srv, pool, reqs>>

(* Both channels may be ready: either is taken.                            *)
Select ==
    /\ main = "select"
    /\ \/ errCh /\ errCh' = FALSE /\ ReturnVia("close_pool", "error")
          /\ UNCHANGED stop
       \/ stop /\ stop' = FALSE /\ Goto("shutdown") /\ UNCHANGED errCh
    /\ UNCHANGED <<signals, srv, pool, reqs>>

(* srv.Shutdown: it closes the listeners, ...                              *)
Shutdown ==
    /\ main = "shutdown" /\ ~inShutdown
    /\ inShutdown' = TRUE
    /\ server' = IF server = "serving" THEN "closed" ELSE server
    /\ UNCHANGED <<proc, stop, errCh, signals, pool, reqs>>

(* Not the code: the error of Shutdown ignored.                            *)
DrainedIgnoringError ==
    /\ main = "shutdown" /\ inShutdown
    /\ ReturnVia("close_pool", "nil")
    /\ UNCHANGED <<stop, errCh, signals, srv, pool, reqs>>

(* ... and waits for the requests in flight, or until the deadline.        *)
Drained ==
    /\ main = "shutdown" /\ inShutdown
    /\ ReturnVia("close_pool", IF InFlight = {} THEN "nil" ELSE "error")
    /\ UNCHANGED <<stop, errCh, signals, srv, pool, reqs>>

(* defer pool.Close(): no connection is handed out any more, ...           *)
ClosePool ==
    /\ main = "close_pool" /\ pool = "open"
    /\ pool' = "closed"
    /\ UNCHANGED <<proc, stop, errCh, signals, srv, reqs>>

(* Not the code: a Close that does not wait.                               *)
PoolClosedAtOnce ==
    /\ main = "close_pool" /\ pool = "closed"
    /\ Goto("stop_tracing")
    /\ UNCHANGED <<stop, errCh, signals, srv, pool, reqs>>

(* ... and it returns when those handed out have come back.                *)
PoolClosed ==
    /\ main = "close_pool" /\ pool = "closed" /\ Holding = {}
    /\ Goto("stop_tracing")
    /\ UNCHANGED <<stop, errCh, signals, srv, pool, reqs>>

(* The deferred tracing shutdown; then main returns, or exits with 1.      *)
StopTracing ==
    /\ main = "stop_tracing"
    /\ Exit(err)
    /\ UNCHANGED <<stop, errCh, signals, srv, pool>>

Main == InitTracing \/ OpenPool \/ Migrate \/ Serve \/ Notify \/ Select
        \/ Shutdown \/ Drained \/ ClosePool \/ PoolClosed \/ StopTracing

-----------------------------------------------------------------------------
(* The server goroutine.                                                   *)

(* Not the code: a failed listener is only logged.                         *)
FailUnreported == server' = "failed" /\ UNCHANGED errCh

(* ListenAndServe returns an error other than ErrServerClosed.             *)
Fail == server' = "failed" /\ errCh' = TRUE

(* A server that was shut down before it started does not start.           *)
Listen ==
    /\ Alive /\ server = "starting"
    /\ \/ inShutdown /\ server' = "closed" /\ UNCHANGED errCh
       \/ ~inShutdown /\ server' = "serving" /\ UNCHANGED errCh
       \/ ~inShutdown /\ Fail
    /\ UNCHANGED <<proc, stop, signals, inShutdown, pool, reqs>>

AcceptFails ==
    /\ Alive /\ server = "serving"
    /\ Fail
    /\ UNCHANGED <<proc, stop, signals, inShutdown, pool, reqs>>

-----------------------------------------------------------------------------
(* Requests.                                                               *)

Move(r, s) == request' = [request EXCEPT ![r] = s]

(* A request arrives on a new connection or, also when the listener has    *)
(* failed, on one that was kept alive.                                     *)
Accept(r) ==
    /\ Alive /\ request[r] = "new"
    /\ \/ server = "serving"
       \/ server = "failed" /\ ~inShutdown /\ \E q \in Request : request[q] # "new"
    /\ Move(r, "running")
    /\ UNCHANGED <<proc, stop, errCh, signals, srv, pool, left>>

(* Not the code: one statement more than the method has.                   *)
AcquireOnceMore(r) ==
    /\ Alive /\ request[r] = "running" /\ left[r] >= 0
    /\ Move(r, "waiting")
    /\ UNCHANGED <<proc, stop, errCh, signals, srv, pool, left>>

(* A repository call, or the Ping of the readiness probe, asks for a       *)
(* connection.                                                             *)
Acquire(r) ==
    /\ Alive /\ request[r] = "running" /\ left[r] > 0
    /\ Move(r, "waiting")
    /\ UNCHANGED <<proc, stop, errCh, signals, srv, pool, left>>

(* The pool has one for it; or the pool is closed, and the handler answers *)
(* with an error.                                                          *)
Grant(r) ==
    /\ Alive /\ request[r] = "waiting" /\ Cardinality(Holding) < MaxConns
    /\ Move(r, IF pool = "open" THEN "holding" ELSE "done")
    /\ UNCHANGED <<proc, stop, errCh, signals, srv, pool, left>>

(* Not the code: a statement that fails is run again.                      *)
EndStatementRetrying(r) ==
    /\ Alive /\ request[r] = "holding"
    /\ \/ Move(r, "running") /\ left' = [left EXCEPT ![r] = @ - 1]
       \/ Move(r, "waiting") /\ UNCHANGED left
    /\ UNCHANGED <<proc, stop, errCh, signals, srv, pool>>

(* The statement ends, and its connection goes back to the pool.           *)
EndStatement(r) ==
    /\ Alive /\ request[r] = "holding"
    /\ Move(r, "running")
    /\ left' = [left EXCEPT ![r] = @ - 1]
    /\ UNCHANGED <<proc, stop, errCh, signals, srv, pool>>

(* A handler answers after its last statement, or returns early.           *)
Respond(r) ==
    /\ Alive /\ request[r] = "running"
    /\ Move(r, "done")
    /\ UNCHANGED <<proc, stop, errCh, signals, srv, pool, left>>

(* The client hangs up: net/http cancels the context of the request, and   *)
(* with it the wait or the statement.                                      *)
HangUp(r) ==
    /\ Alive /\ request[r] \in {"waiting", "holding"}
    /\ Move(r, "done")
    /\ UNCHANGED <<proc, stop, errCh, signals, srv, pool, left>>

Handle(r) == Acquire(r) \/ Grant(r) \/ EndStatement(r) \/ Respond(r)

-----------------------------------------------------------------------------
(* Until Notify a signal kills the process; afterwards it goes to the      *)
(* channel, or is dropped when that is full.                               *)
Signal ==
    /\ Alive /\ signals < MaxSignals
    /\ signals' = signals + 1
    /\ \/ notified /\ stop' = TRUE /\ UNCHANGED <<proc, reqs>>
       \/ ~notified /\ Exit("killed") /\ UNCHANGED stop
    /\ UNCHANGED <<errCh, srv, pool>>

Exited == ~Alive /\ UNCHANGED vars

Next == \/ Main \/ Listen \/ AcceptFails \/ Signal \/ Exited
        \/ \E r \in Request : Accept(r) \/ Handle(r) \/ HangUp(r)

Spec == Init /\ [][Next]_vars

(* The scheduler is fair to every goroutine, Shutdown's deadline passes,   *)
(* every statement ends, and the pool serves those who wait for it.        *)
(* Clients need not send anything, and nobody has to signal.               *)
FairSpec == /\ Spec
            /\ WF_vars(Main) /\ WF_vars(Listen)
            /\ \A r \in Request : WF_vars(Handle(r)) /\ SF_vars(Grant(r))
=============================================================================
