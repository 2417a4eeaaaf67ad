------------------------------ MODULE Migrator ------------------------------
(***************************************************************************)
(* Migrator of src/core/migrate.ts on PostgreSQLEngine: several commands,  *)
(* each a process with an engine of its own, migrate one database up or    *)
(* down.  The engine sends a SELECT outside of a transaction to the read   *)
(* replica if one is configured, so the version may be read late.          *)
(*                                                                         *)
(* A command suspends at every statement; it may fail at each, and die.    *)
(***************************************************************************)
EXTENDS Integers, Sequences, FiniteSetsExt

CONSTANTS Process,    \* one command each
          Target,     \* Target[p]: the version p rolls back to, or Up for run
          Up,
          Latest,     \* the migrations are 1 .. Latest
          HasReplica  \* GTOM_POSTGRES_READ_REPLICA_URL is set

Version == 1 .. Latest

ASSUME MigratorAssumption ==
  /\ Latest \in Nat /\ HasReplica \in BOOLEAN
  /\ Up \notin Nat /\ Target \in [Process -> Nat \cup {Up}]

VARIABLES db,       \* what is committed
          replica,  \* an earlier db
          tx,       \* the open transaction of each process
          run,      \* the control state of each command
          mixed,    \* history: a rollback overlapped another command
          stale     \* history: a version was read from a replica that lagged

vars == <<db, replica, tx, run, mixed, stale>>

\* applied is what the schema shows, recorded what the table migrations says.
Database == [table : BOOLEAN, applied : SUBSET Version, recorded : SUBSET Version]

\* What an open transaction has done to the schema and to the table for the
\* version it is about.
NoTx == [open |-> FALSE, schema |-> "as_is", row |-> "as_is"]

Tx == [open : BOOLEAN, schema : {"as_is", "created", "dropped"},
       row : {"as_is", "inserted", "deleted"}]

Ended == {"ok", "threw", "died"}

Run == [pc : {"idle", "table", "read", "next", "schema", "row", "commit", "rollback"}
               \cup Ended,
        todo : Seq(Version)]

TypeOK == /\ db \in Database /\ replica \in Database
          /\ tx \in [Process -> Tx] /\ run \in [Process -> Run]
          /\ mixed \in BOOLEAN /\ stale \in BOOLEAN

Init ==
  /\ db = [table |-> FALSE, applied |-> {}, recorded |-> {}] /\ replica = db
  /\ tx = [p \in Process |-> NoTx]
  /\ run = [p \in Process |-> [pc |-> "idle", todo |-> <<>>]]
  /\ mixed = FALSE /\ stale = FALSE

At(p, pc) == run[p].pc = pc

Goto(p, pc) == run' = [run EXCEPT ![p].pc = pc]

End(p, pc) == run' = [run EXCEPT ![p] = [pc |-> pc, todo |-> <<>>]]

Active(p) == run[p].pc \notin Ended \cup {"idle"}

IsRun(p) == Target[p] = Up

\* The version that p works on.
Current(p) == Head(run[p].todo)

-----------------------------------------------------------------------------
(* Up to the version *)

Begin(p) ==
  /\ At(p, "idle")
  /\ Goto(p, IF IsRun(p) THEN "table" ELSE "read")
  /\ mixed' = (mixed \/ \E q \in Process \ {p} : Active(q) /\ ~ (IsRun(p) /\ IsRun(q)))
  /\ UNCHANGED <<db, replica, tx, stale>>

\* CREATE TABLE IF NOT EXISTS migrations
CreateTable(p) ==
  /\ At(p, "table")
  /\ db' = [db EXCEPT !.table = TRUE]
  /\ Goto(p, "read")
  /\ UNCHANGED <<replica, tx, mixed, stale>>

\* Faulty variant: the next version is left out.
UpwardFromLater(version) == [i \in 1 .. Latest - version - 1 |-> version + 1 + i]

\* The migrations above the version, in the order of the loop of run.
Upward(version) == [i \in 1 .. Latest - version |-> version + i]

\* Faulty variant: the loop goes up as that of run does.
RollbackUpward(target, version) == [i \in 1 .. version - target |-> target + i]

\* Those above the target and not above the version, from the last one down.
Downward(target, version) == [i \in 1 .. version - target |-> version + 1 - i]

MaxVersion(d) == Max(d.recorded \cup {0})

\* shouldUseReadPool
Source == IF HasReplica THEN replica ELSE db

\* SELECT MAX(version)
ReadVersion(p) ==
  /\ At(p, "read") /\ Source.table
  /\ LET version == MaxVersion(Source)
     IN  run' = [run EXCEPT ![p] = [pc |-> "next", todo |->
                   IF IsRun(p) THEN Upward(version) ELSE Downward(Target[p], version)]]
  /\ stale' = (stale \/ Source # db)
  /\ UNCHANGED <<db, replica, tx, mixed>>

\* The table is not there, or not yet on the replica.
ReadNothing(p) ==
  /\ At(p, "read") /\ ~ Source.table
  /\ End(p, "threw")
  /\ UNCHANGED <<db, replica, tx, mixed, stale>>

-----------------------------------------------------------------------------
(* One migration, up or down *)

BeginTransaction(p) ==
  /\ At(p, "next") /\ run[p].todo # <<>>
  /\ tx' = [tx EXCEPT ![p].open = TRUE]
  /\ Goto(p, "schema")
  /\ UNCHANGED <<db, replica, mixed, stale>>

Done(p) ==
  /\ At(p, "next") /\ run[p].todo = <<>>
  /\ End(p, "ok")
  /\ UNCHANGED <<db, replica, tx, mixed, stale>>

\* The others that work on the same version, in an open transaction.
Rivals(p) == {q \in Process \ {p} : tx[q].open /\ Current(q) = Current(p)}

\* migration.up or down, written with IF [NOT] EXISTS: a change of what another
\* transaction has changed waits for its end, and what is there is left.
ChangeSchema(p) ==
  /\ At(p, "schema")
  /\ \A q \in Rivals(p) : tx[q].schema = "as_is"
  /\ tx' = [tx EXCEPT ![p].schema =
              IF IsRun(p) THEN IF Current(p) \in db.applied THEN "as_is" ELSE "created"
              ELSE IF Current(p) \in db.applied THEN "dropped" ELSE "as_is"]
  /\ Goto(p, "row")
  /\ UNCHANGED <<db, replica, mixed, stale>>

\* Faulty variants: the error is swallowed; the transaction is left open.
SwallowError == "commit"

LeaveOpen == "threw"

\* The catch of the transaction.
OnError == "rollback"

\* Who inserts waits for an open transaction that has inserted or deleted the
\* row; who deletes does not see what is only inserted there.
MayChangeRow(p) ==
  \A q \in Rivals(p) : IF IsRun(p) THEN tx[q].row = "as_is" ELSE tx[q].row # "deleted"

\* INSERT or DELETE.  A version that is recorded already violates the primary
\* key, and one that is not there is deleted without an error.
ChangeRow(p) ==
  /\ At(p, "row")
  /\ MayChangeRow(p)
  /\ IF IsRun(p) /\ Current(p) \in db.recorded
       THEN Goto(p, OnError) /\ UNCHANGED tx
       ELSE /\ tx' = [tx EXCEPT ![p].row =
                         IF IsRun(p) THEN "inserted"
                         ELSE IF Current(p) \in db.recorded THEN "deleted" ELSE "as_is"]
            /\ Goto(p, "commit")
  /\ UNCHANGED <<db, replica, mixed, stale>>

\* The database, once the transaction of p is committed.
Committed(p) ==
  LET v == {Current(p)}
  IN  [db EXCEPT
         !.applied = CASE tx[p].schema = "created" -> @ \cup v
                       [] tx[p].schema = "dropped" -> @ \ v
                       [] OTHER -> @,
         !.recorded = CASE tx[p].row = "inserted" -> @ \cup v
                        [] tx[p].row = "deleted" -> @ \ v
                        [] OTHER -> @]

Commit(p) ==
  /\ At(p, "commit")
  /\ db' = Committed(p)
  /\ tx' = [tx EXCEPT ![p] = NoTx]
  /\ run' = [run EXCEPT ![p] = [pc |-> "next", todo |-> Tail(@.todo)]]
  /\ UNCHANGED <<replica, mixed, stale>>

\* The connection is lost after the commit was done, before it was answered.
CommitUnanswered(p) ==
  /\ At(p, "commit")
  /\ db' = Committed(p)
  /\ tx' = [tx EXCEPT ![p] = NoTx]
  /\ Goto(p, OnError)
  /\ UNCHANGED <<replica, mixed, stale>>

\* A statement fails.
Fail(p) ==
  /\ \/ run[p].pc \in {"table", "read", "next"} /\ Goto(p, "threw")
     \/ run[p].pc \in {"schema", "row", "commit"} /\ Goto(p, OnError)
  /\ UNCHANGED <<db, replica, tx, mixed, stale>>

\* ROLLBACK, which may itself fail with its connection: then the server ends the
\* transaction, and the error that is thrown is another one.
Rollback(p) ==
  /\ At(p, "rollback")
  /\ tx' = [tx EXCEPT ![p] = NoTx]
  /\ End(p, "threw")
  /\ UNCHANGED <<db, replica, mixed, stale>>

\* The process dies; the server ends its transaction.
Crash(p) ==
  /\ Active(p)
  /\ tx' = [tx EXCEPT ![p] = NoTx]
  /\ End(p, "died")
  /\ UNCHANGED <<db, replica, mixed, stale>>

-----------------------------------------------------------------------------

Step(p) ==
  \/ CreateTable(p) \/ ReadVersion(p) \/ ReadNothing(p) \/ BeginTransaction(p)
  \/ Done(p) \/ ChangeSchema(p) \/ ChangeRow(p) \/ Commit(p) \/ Rollback(p)

Fault(p) == CommitUnanswered(p) \/ Fail(p) \/ Crash(p)

Replicate == HasReplica /\ replica' = db /\ UNCHANGED <<db, tx, run, mixed, stale>>

Next == Replicate \/ \E p \in Process : Begin(p) \/ Step(p) \/ Fault(p)

Spec == Init /\ [][Next]_vars

\* A statement that waits for nobody is answered.
FairSpec == Spec /\ \A p \in Process : WF_vars(Step(p))

-----------------------------------------------------------------------------
(* Properties *)

\* Whatever fails, races or dies, the table of migrations tells what the schema
\* is, unless a rollback overlapped another command: then a migration may find
\* its tables there, and be recorded after they were dropped.
LedgerTellsSchema == ~ mixed => db.applied = db.recorded

\* No migration is missing below the latest, which run would never make good;
\* unless a rollback overlapped another command or the version was read late.
NoGaps == ~ mixed /\ ~ stale => db.recorded = 1 .. MaxVersion(db)

\* A step with which a run reports success.
RunCompletes ==
  \A p \in Process :
    IsRun(p) /\ run[p].pc # "ok" /\ run'[p].pc = "ok" /\ ~ mixed /\ ~ stale
      => db.recorded = Version

\* A run that reports success leaves no migration out, however many ran at
\* once; a replica that lags or a rollback beside it may make it wrong.
RunMigrates == [][RunCompletes]_vars

\* Every command ends: nobody waits for ever for the transaction of another.
RunsEnd == \A p \in Process : Active(p) ~> ~ Active(p)
=============================================================================
