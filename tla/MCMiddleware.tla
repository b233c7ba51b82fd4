---------------------------- MODULE MCMiddleware ----------------------------
(* A request for a protected route, one for a noisy path and one by another *)
(* method to such a path; or the first alone.                              *)
EXTENDS Middleware, TLC

CONSTANTS q1, q2, q3

MCRoute == q1 :> "users" @@ q2 :> "open" @@ q3 :> "unknown"
MCPath == q1 :> "other" @@ q2 :> "noisy" @@ q3 :> "noisy"
MCOneRoute == q1 :> "users"
MCOnePath == q1 :> "other"
=============================================================================
