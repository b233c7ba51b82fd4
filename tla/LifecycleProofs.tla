-------------------------- MODULE LifecycleProofs --------------------------
(***************************************************************************)
(* Type correctness and the safety of the shutdown, for every number of    *)
(* requests, connections and signals.                                      *)
(***************************************************************************)
EXTENDS LifecycleProperties, TLAPS

(* A request that waits for a connection or holds one has a statement to   *)
(* run.                                                                    *)
StatementLeft == \A r \in Request :
                    request[r] \in {"waiting", "holding"} => left[r] > 0

LifecycleInv == LifecycleTypeOK /\ StatementLeft

(* What the actions that end the process do to it.                         *)
LEMMA ExitStep ==
    ASSUME LifecycleInv, NEW e \in {"none", "nil", "error", "killed"}, Exit(e)
    PROVE  /\ main' = "exited" /\ err' = e
           /\ notified' = notified /\ left' = left
           /\ request' \in [Request -> {"new", "running", "waiting", "holding", "done", "cut"}]
           /\ \A r \in Request : request'[r] \in {"new", "done", "cut"}
           /\ InFlight = {} => request' = request
  BY DEF Exit, LifecycleInv, LifecycleTypeOK, InFlight

LEMMA TypeInit == Init => LifecycleInv
  <1> SUFFICES ASSUME Init PROVE LifecycleInv
    OBVIOUS
  <1>1. StatementLeft
    BY DEF Init, StatementLeft
  <1>2. signals \in 0 .. MaxSignals
    BY SignalAssumption DEF Init
  <1>3. left \in [Request -> Nat]
    BY RequestAssumption DEF Init
  <1> QED BY <1>1, <1>2, <1>3 DEF Init, LifecycleInv, LifecycleTypeOK

(* Steps of the main goroutine.                                            *)
LEMMA TypeMain ==
    ASSUME LifecycleInv, Main
    PROVE  LifecycleInv'
  <1> USE DEF LifecycleInv, LifecycleTypeOK, StatementLeft, Goto, ReturnVia, srv, reqs, proc
  <1>1. CASE InitTracing
    BY <1>1, ExitStep DEF InitTracing
  <1>2. CASE OpenPool
    BY <1>2 DEF OpenPool
  <1>3. CASE Migrate
    BY <1>3 DEF Migrate
  <1>4. CASE Serve
    BY <1>4 DEF Serve
  <1>5. CASE Notify
    BY <1>5 DEF Notify
  <1>6. CASE Select
    BY <1>6 DEF Select
  <1>7. CASE Shutdown
    BY <1>7 DEF Shutdown
  <1>8. CASE Drained
    BY <1>8 DEF Drained
  <1>9. CASE ClosePool
    BY <1>9 DEF ClosePool
  <1>10. CASE PoolClosed
    BY <1>10 DEF PoolClosed
  <1>11. CASE StopTracing
    BY <1>11, ExitStep DEF StopTracing
  <1> QED BY <1>1, <1>2, <1>3, <1>4, <1>5, <1>6, <1>7, <1>8, <1>9, <1>10, <1>11 DEF Main

(* Steps of a request.                                                     *)
LEMMA TypeRequest ==
    ASSUME LifecycleInv, NEW r \in Request, Accept(r) \/ Handle(r) \/ HangUp(r)
    PROVE  LifecycleInv'
  <1> USE DEF LifecycleInv, LifecycleTypeOK, StatementLeft, Move, srv, proc
  <1>1. CASE Accept(r)
    BY <1>1 DEF Accept
  <1>2. CASE Acquire(r)
    BY <1>2 DEF Acquire
  <1>3. CASE Grant(r)
    BY <1>3 DEF Grant
  <1>4. CASE EndStatement(r)
    BY <1>4 DEF EndStatement
  <1>5. CASE Respond(r)
    BY <1>5 DEF Respond
  <1>6. CASE HangUp(r)
    BY <1>6 DEF HangUp
  <1> QED BY <1>1, <1>2, <1>3, <1>4, <1>5, <1>6 DEF Handle

LEMMA TypeNext == LifecycleInv /\ [Next]_vars => LifecycleInv'
  <1> SUFFICES ASSUME LifecycleInv, [Next]_vars PROVE LifecycleInv'
    OBVIOUS
  <1>1. CASE Listen \/ AcceptFails
    BY <1>1 DEF Listen, AcceptFails, Fail, proc, reqs,
                LifecycleInv, LifecycleTypeOK, StatementLeft
  <1>2. CASE Signal
    <2>1. signals' \in 0 .. MaxSignals
      BY <1>2, SignalAssumption DEF Signal, LifecycleInv, LifecycleTypeOK
    <2>2. CASE notified /\ stop' = TRUE /\ UNCHANGED <<proc, reqs>>
      BY <1>2, <2>1, <2>2 DEF Signal, proc, srv, reqs,
                  LifecycleInv, LifecycleTypeOK, StatementLeft
    <2>3. CASE Exit("killed") /\ UNCHANGED stop
      BY <1>2, <2>1, <2>3, ExitStep DEF Signal, srv,
                  LifecycleInv, LifecycleTypeOK, StatementLeft
    <2> QED BY <1>2, <2>2, <2>3 DEF Signal
  <1>3. CASE UNCHANGED vars
    BY <1>3 DEF vars, proc, srv, reqs, LifecycleInv, LifecycleTypeOK, StatementLeft
  <1> QED BY <1>1, <1>2, <1>3, TypeMain, TypeRequest DEF Next, Exited

LEMMA TypeAlways == Spec => []LifecycleInv
  BY TypeInit, TypeNext, PTL DEF Spec

(* Every variable keeps its type; a request never runs more statements     *)
(* than its method has.                                                    *)
THEOREM LifecycleTypeCorrect == Spec => []LifecycleTypeOK
  BY TypeAlways, PTL DEF LifecycleInv

-----------------------------------------------------------------------------
(* The phases of the process.  No request before the server; a server      *)
(* before the wait for a signal; none that accepts once it is shut down;   *)
(* the last phase only without connections in use.                         *)
Quiet == \A r \in Request : request[r] = "new"

Phases ==
    /\ main \in {"tracing", "pool", "migrate", "serve"} => server = "none"
    /\ main \in {"notify", "select", "shutdown"} => server # "none"
    /\ server \in {"none", "starting"} => Quiet
    /\ inShutdown => server \notin {"none", "serving"}
    /\ main \in {"tracing", "pool"} => pool = "none"
    /\ main = "stop_tracing" => Holding = {} /\ pool # "open"
    /\ Alive => \A r \in Request : request[r] # "cut"
    /\ err = "nil" => inShutdown /\ \A r \in Request : request[r] \in {"new", "done"}

LEMMA PhasesInit == Init => Phases
  BY DEF Init, Phases, Quiet, Alive

LEMMA PhasesMain ==
    ASSUME LifecycleInv, Phases, Main
    PROVE  Phases'
  <1> USE DEF Phases, Quiet, Alive, Goto, ReturnVia, srv, reqs, proc
  <1>1. CASE InitTracing
    <2>1. CASE Exit("error")
      BY <1>1, <2>1, ExitStep DEF InitTracing, InFlight
    <2>2. CASE ~Exit("error")
      BY <1>1, <2>2 DEF InitTracing, Holding
    <2> QED BY <2>1, <2>2
  <1>2. CASE OpenPool
    BY <1>2 DEF OpenPool, Holding
  <1>3. CASE Migrate
    BY <1>3 DEF Migrate, Holding
  <1>4. CASE Serve
    BY <1>4 DEF Serve, Holding
  <1>5. CASE Notify
    BY <1>5 DEF Notify, Holding
  <1>6. CASE Select
    BY <1>6 DEF Select, Holding
  <1>7. CASE Shutdown
    BY <1>7 DEF Shutdown, Holding
  <1>8. CASE Drained
    BY <1>8 DEF Drained, Holding, InFlight, LifecycleInv, LifecycleTypeOK
  <1>9. CASE ClosePool
    BY <1>9 DEF ClosePool, Holding
  <1>10. CASE PoolClosed
    BY <1>10 DEF PoolClosed, Holding
  <1>11. CASE StopTracing
    <2>1. err \in {"none", "nil", "error", "killed"}
      BY DEF LifecycleInv, LifecycleTypeOK
    <2>2. Quiet \/ err = "nil" => InFlight = {}
      BY DEF InFlight
    <2>3. /\ main' = "exited" /\ err' = err
          /\ Quiet \/ err = "nil" => request' = request
      BY <1>11, <2>1, <2>2, ExitStep DEF StopTracing
    <2> QED BY <1>11, <2>3 DEF StopTracing
  <1> QED BY <1>1, <1>2, <1>3, <1>4, <1>5, <1>6, <1>7, <1>8, <1>9, <1>10, <1>11 DEF Main

(* A request gets a connection only from an open pool, and is accepted     *)
(* only before Shutdown.                                                   *)
LEMMA PhasesRequest ==
    ASSUME LifecycleInv, Phases, NEW r \in Request, Accept(r) \/ Handle(r) \/ HangUp(r)
    PROVE  Phases'
  <1>1. /\ UNCHANGED <<main, err, server, inShutdown, pool>>
        /\ \A q \in Request \ {r} : request'[q] = request[q]
    BY DEF Accept, Handle, HangUp, Acquire, Grant, EndStatement, Respond, Move, srv, proc,
           LifecycleInv, LifecycleTypeOK
  <1>2. request'[r] = "holding" => pool = "open"
    BY DEF Accept, Handle, HangUp, Acquire, Grant, EndStatement, Respond, Move,
           LifecycleInv, LifecycleTypeOK
  <1>3. request[r] = "new" => ~inShutdown /\ (server = "serving" \/ ~Quiet)
    BY DEF Accept, Handle, HangUp, Acquire, Grant, EndStatement, Respond, Quiet,
           Phases
  <1>4. request[r] # "done"
    BY DEF Accept, Handle, HangUp, Acquire, Grant, EndStatement, Respond
  <1>5. server \notin {"none", "starting"}
    BY <1>3, <1>4 DEF Phases, Quiet, Accept, Handle, HangUp, Acquire, Grant,
                      EndStatement, Respond
  <1>6. err # "nil"
    BY <1>3, <1>4 DEF Phases
  <1>7. pool # "open" /\ Holding = {} => Holding' = {}
    BY <1>1, <1>2 DEF Holding
  <1>8. request'[r] # "cut"
    BY DEF Accept, Handle, HangUp, Acquire, Grant, EndStatement, Respond, Move,
           LifecycleInv, LifecycleTypeOK
  <1> QED BY <1>1, <1>5, <1>6, <1>7, <1>8 DEF Phases, Alive

LEMMA PhasesNext == LifecycleInv /\ Phases /\ [Next]_vars => Phases'
  <1> SUFFICES ASSUME LifecycleInv, Phases, [Next]_vars PROVE Phases'
    OBVIOUS
  <1>1. CASE Listen \/ AcceptFails
    BY <1>1 DEF Listen, AcceptFails, Fail, proc, reqs, Phases, Quiet, Holding, Alive
  <1>2. CASE Signal
    <2>1. CASE notified
      BY <1>2, <2>1 DEF Signal, Exit, proc, srv, reqs, Phases, Quiet, Holding, Alive
    <2>2. CASE ~notified
      <3>1. Quiet => InFlight = {}
        BY DEF Quiet, InFlight
      <3>2. main' = "exited" /\ err' = "killed" /\ (Quiet => Quiet')
        BY <1>2, <2>2, <3>1, ExitStep DEF Signal, Quiet
      <3> QED BY <1>2, <3>2 DEF Signal, srv, Phases, Alive
    <2> QED BY <2>1, <2>2 DEF LifecycleInv, LifecycleTypeOK
  <1>3. CASE UNCHANGED vars
    BY <1>3 DEF vars, proc, srv, reqs, Phases, Quiet, Holding, Alive
  <1> QED BY <1>1, <1>2, <1>3, PhasesMain, PhasesRequest DEF Next, Exited

LEMMA PhasesAlways == Spec => [](LifecycleInv /\ Phases)
  <1>1. LifecycleInv /\ Phases /\ [Next]_vars => (LifecycleInv /\ Phases)'
    BY TypeNext, PhasesNext
  <1> QED BY <1>1, TypeInit, PhasesInit, PTL DEF Spec

(* A stop reported as graceful has handled every accepted request.         *)
THEOREM StopsGracefully == Spec => []GracefulStop
  <1>1. Phases => GracefulStop
    BY DEF Phases, GracefulStop
  <1> QED BY <1>1, PhasesAlways, PTL

(* Whatever ends the process, save a signal during start-up, it does not   *)
(* exit under a running statement.                                         *)
THEOREM StatementsNotCut == Spec => NoStatementCut
  <1> DEFINE Clean == Alive /\ ~Alive' /\ err' # "killed" => Holding = {} /\ pool # "open"
  <1>1. LifecycleInv /\ Phases /\ [Next]_vars => Clean
    <2> SUFFICES ASSUME LifecycleInv, Phases, [Next]_vars, Alive, ~Alive', err' # "killed"
                 PROVE  Holding = {} /\ pool # "open"
      OBVIOUS
    <2> USE DEF Alive
    <2>1. CASE InitTracing
      BY <2>1 DEF InitTracing, Phases, Quiet, Holding
    <2>2. CASE StopTracing
      BY <2>2 DEF StopTracing, Phases
    <2>3. CASE OpenPool \/ Migrate \/ Serve \/ Notify \/ Select \/ Shutdown \/ Drained
               \/ ClosePool \/ PoolClosed
      BY <2>3 DEF OpenPool, Migrate, Serve, Notify, Select, Shutdown, Drained,
                  ClosePool, PoolClosed, Goto, ReturnVia, proc
    <2>4. CASE Listen \/ AcceptFails \/ UNCHANGED vars
      BY <2>4 DEF Listen, AcceptFails, proc, vars
    <2>5. CASE Signal
      BY <2>5 DEF Signal, Exit, proc
    <2>6. CASE \E r \in Request : Accept(r) \/ Handle(r) \/ HangUp(r)
      BY <2>6 DEF Accept, Handle, HangUp, Acquire, Grant, EndStatement, Respond, proc
    <2> QED BY <2>1, <2>2, <2>3, <2>4, <2>5, <2>6 DEF Next, Main, Exited
  <1>2. [](LifecycleInv /\ Phases) /\ [][Next]_vars => [][Clean]_vars
    BY <1>1, PTL
  <1> QED BY <1>2, PhasesAlways, PTL DEF Spec, NoStatementCut
=============================================================================
