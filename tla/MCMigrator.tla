----------------------------- MODULE MCMigrator -----------------------------
(***************************************************************************)
(* Migrator for TLC: two runs and a rollback of everything.                *)
(***************************************************************************)
EXTENDS Migrator, TLC

MCProcess == {"p", "q", "r"}

MCUp == -1

MCTarget == "p" :> Up @@ "q" :> Up @@ "r" :> 0
=============================================================================
