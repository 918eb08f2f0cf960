---------------------------- MODULE MCMigrations ----------------------------
(* Instances of Migrations.                                                *)
EXTENDS Migrations

CONSTANTS p1, p2

MCProcs == {p1, p2}
=============================================================================
