----------------------------- MODULE MCMigrate -----------------------------
(* Migrate with up to two runs of the command.                                *)
EXTENDS Migrate
=============================================================================
