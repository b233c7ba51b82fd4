---------------------------- MODULE MCLifecycle ----------------------------
(* An update, a registration and a readiness probe with fewer connections  *)
(* than requests.                                                          *)
EXTENDS LifecycleProperties, TLC

CONSTANTS update, register, ready

MCStatements == update :> 3 @@ register :> 2 @@ ready :> 1
=============================================================================
