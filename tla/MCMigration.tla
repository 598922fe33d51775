---------------------------- MODULE MCMigration ----------------------------
(* Small instances of Migration: its constants come from the .cfg files.    *)
EXTENDS Migration, TLC
=============================================================================
