------------------------ MODULE LifecycleProperties ------------------------
(***************************************************************************)
(* What makes the life of a process correct, whenever a signal comes, the  *)
(* listener fails or a client hangs up.                                    *)
(***************************************************************************)
EXTENDS Lifecycle

(* The variables hold values of their types.                               *)
LifecycleTypeOK ==
    /\ main \in {"tracing", "pool", "migrate", "serve", "notify", "select",
                 "shutdown", "close_pool", "stop_tracing", "exited"}
    /\ err \in {"none", "nil", "error", "killed"}
    /\ notified \in BOOLEAN /\ stop \in BOOLEAN /\ errCh \in BOOLEAN
    /\ signals \in 0 .. MaxSignals
    /\ server \in {"none", "starting", "serving", "closed", "failed"}
    /\ inShutdown \in BOOLEAN
    /\ pool \in {"none", "open", "closed"}
    /\ request \in [Request -> {"new", "running", "waiting", "holding", "done", "cut"}]
    /\ left \in [Request -> Nat]

(* "server stopped gracefully" (main.go:146): when run returns nil every   *)
(* request that was accepted has been handled, and no other is accepted,   *)
(* though the signal may precede the first step of the server goroutine    *)
(* and the listener may fail while Shutdown waits.                         *)
GracefulStop ==
    err = "nil" => /\ \A r \in Request : request[r] \in {"new", "done"}
                   /\ server \notin {"none", "serving"}

(* Unless a signal kills it before Notify, the process never exits under a *)
(* running statement, nor with its pool open: also when Shutdown has given *)
(* up on the requests (main.go:143) or the listener has failed (136), the  *)
(* deferred pool.Close (90) waits for the connections they hold.           *)
NoStatementCut ==
    [][Alive /\ ~Alive' /\ err' # "killed" => Holding = {} /\ pool # "open"]_vars

(* A signal or a failed listener ends the process, whatever its requests   *)
(* are doing and wherever start-up is (main.go:123-145).                   *)
ProcessEnds == signals > 0 \/ server = "failed" ~> ~Alive

(* Every request ends: no handler waits for the pool while it holds one of *)
(* its connections, so they cannot starve one another (user_service.go,    *)
(* health_handler.go:38).                                                  *)
RequestsEnd == \A r \in Request : request[r] = "running" ~> request[r] \in {"done", "cut"}
=============================================================================
