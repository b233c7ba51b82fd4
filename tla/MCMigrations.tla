---------------------------- MODULE MCMigrations ----------------------------
(* Three replicas and two migrations.                                      *)
EXTENDS Migrations

CONSTANTS r1, r2, r3
=============================================================================
