--------------------------- MODULE MigratorProofs ---------------------------
(***************************************************************************)
(* The table of migrations tells the schema and has no gaps, and a run     *)
(* that succeeds leaves nothing out: for any number of commands,           *)
(* migrations and targets, whatever fails, crashes or is read late.        *)
(***************************************************************************)
EXTENDS Migrator, FiniteSetTheorems, SequenceTheorems, TLAPS

\* What the proof needs of the types: which fields there are.
Shape ==
  /\ db = [table |-> db.table, applied |-> db.applied, recorded |-> db.recorded]
  /\ tx \in [Process -> Tx] /\ mixed \in BOOLEAN
  /\ DOMAIN run = Process
  /\ \A p \in Process : run[p] = [pc |-> run[p].pc, todo |-> run[p].todo]

\* What the open transaction of p may have done, by where p is.
OwnTx(p) ==
  /\ tx[p].open \/ tx[p] = NoTx
  /\ run[p].pc \in {"schema", "row", "commit"} => tx[p].open
  /\ tx[p].open => run[p].pc \in {"schema", "row", "commit", "rollback"}
  /\ run[p].pc = "schema" => tx[p].schema = "as_is" /\ tx[p].row = "as_is"
  /\ run[p].pc = "row" => tx[p].row = "as_is"

\* Of two transactions about one version, only one has changed the schema.
OneChanger ==
  \A p, q \in Process :
    p # q /\ tx[p].schema # "as_is" /\ tx[q].schema # "as_is" => Current(p) # Current(q)

\* Unless a rollback overlapped another command, it is the only one.
RollbackAlone ==
  ~ mixed => \A p, q \in Process : p # q /\ Active(p) /\ Active(q) => IsRun(p) /\ IsRun(q)

\* A run that has changed the schema is about a version that is not recorded.
RunAgrees(p) ==
  IsRun(p) =>
    /\ run[p].pc = "row" =>
         \/ tx[p].schema = "created" /\ Current(p) \notin db.recorded
         \/ tx[p].schema = "as_is" /\ Current(p) \in db.recorded
    /\ run[p].pc = "commit" => /\ tx[p].schema = "created" /\ tx[p].row = "inserted"
                               /\ Current(p) \notin db.recorded

\* A rollback drops what is recorded, and nothing else.
RollbackAgrees(p) ==
  ~ IsRun(p) =>
    /\ run[p].pc \in {"row", "commit"} =>
         tx[p].schema = IF Current(p) \in db.recorded THEN "dropped" ELSE "as_is"
    /\ run[p].pc = "commit" =>
         tx[p].row = IF Current(p) \in db.recorded THEN "deleted" ELSE "as_is"

Agrees == ~ mixed => \A p \in Process : RunAgrees(p) /\ RollbackAgrees(p)

IInv == /\ Shape /\ \A p \in Process : OwnTx(p)
        /\ OneChanger /\ RollbackAlone /\ Agrees /\ LedgerTellsSchema

-----------------------------------------------------------------------------
(* Steps *)

\* Goto and End in the form of the lemmas.
LEMMA Moves ==
  ASSUME Shape, NEW p \in Process, NEW pc
  PROVE  /\ Goto(p, pc) => run' = [run EXCEPT ![p] = [pc |-> pc, todo |-> run[p].todo]]
         /\ End(p, pc) => run' = [run EXCEPT ![p] = [pc |-> pc, todo |-> <<>>]]
<1>1. run[p] = [pc |-> run[p].pc, todo |-> run[p].todo]
  BY DEF Shape
<1>2. [run[p] EXCEPT !.pc = pc] = [pc |-> pc, todo |-> run[p].todo]
  BY <1>1
<1>. QED
  BY <1>2 DEF Goto, End

\* A step of p that leaves the database as it is: p goes to pc, its transaction
\* becomes t, and what the invariant says of p alone holds afterwards.
LEMMA StepKeeps ==
  ASSUME IInv, NEW p \in Process, NEW pc, NEW todo, NEW t \in Tx, Active(p),
         run' = [run EXCEPT ![p] = [pc |-> pc, todo |-> todo]],
         tx' = [tx EXCEPT ![p] = t],
         mixed' = mixed, db'.applied = db.applied, db'.recorded = db.recorded,
         db' = [table |-> db'.table, applied |-> db'.applied, recorded |-> db'.recorded],
         OwnTx(p)', ~ mixed => RunAgrees(p)' /\ RollbackAgrees(p)',
         t.schema # "as_is" =>
           /\ todo = run[p].todo
           /\ \A q \in Process \ {p} : tx[q].schema # "as_is" => Current(q) # Current(p)
  PROVE  IInv'
<1>1. /\ run'[p].pc = pc /\ run'[p].todo = todo /\ tx'[p] = t
      /\ \A q \in Process : q # p => run'[q] = run[q] /\ tx'[q] = tx[q]
  BY DEF IInv, Shape
<1>2. Shape'
  BY DEF IInv, Shape
<1>3. \A q \in Process : OwnTx(q)'
  BY <1>1 DEF IInv, OwnTx, NoTx
<1>4. OneChanger'
  BY <1>1 DEF IInv, OneChanger, Current
<1>5. RollbackAlone'
  BY <1>1 DEF IInv, RollbackAlone, Active, IsRun
<1>6. Agrees'
  BY <1>1 DEF IInv, Agrees, RunAgrees, RollbackAgrees, Current, IsRun
<1>7. LedgerTellsSchema'
  BY DEF IInv, LedgerTellsSchema
<1>. QED
  BY <1>2, <1>3, <1>4, <1>5, <1>6, <1>7 DEF IInv

\* A step of p outside of its transaction, or one that ends it without a commit.
LEMMA OutsideKeeps ==
  ASSUME IInv, NEW p \in Process, NEW pc, NEW todo, pc \notin {"schema", "row", "commit"},
         Active(p), run' = [run EXCEPT ![p] = [pc |-> pc, todo |-> todo]],
         tx' = [tx EXCEPT ![p] = NoTx],
         mixed' = mixed, db'.applied = db.applied, db'.recorded = db.recorded,
         db' = [table |-> db'.table, applied |-> db'.applied, recorded |-> db'.recorded]
  PROVE  IInv'
<1>1. run'[p].pc = pc /\ tx'[p] = NoTx
  BY DEF IInv, Shape
<1>2. NoTx \in Tx /\ NoTx.schema = "as_is"
  BY DEF NoTx, Tx
<1>3. OwnTx(p)'
  BY <1>1 DEF OwnTx, NoTx
<1>4. RunAgrees(p)' /\ RollbackAgrees(p)'
  BY <1>1 DEF RunAgrees, RollbackAgrees
<1>. QED
  BY <1>2, <1>3, <1>4, StepKeeps

\* A commit of p, answered or not: the schema and the table change together.
LEMMA CommitKeeps ==
  ASSUME IInv, NEW p \in Process, NEW pc \in {"next", "rollback"}, NEW todo, At(p, "commit"),
         run' = [run EXCEPT ![p] = [pc |-> pc, todo |-> todo]],
         tx' = [tx EXCEPT ![p] = NoTx], db' = Committed(p), mixed' = mixed
  PROVE  IInv'
<1>1. /\ run'[p].pc = pc /\ tx'[p] = NoTx
      /\ \A q \in Process : q # p => run'[q] = run[q] /\ tx'[q] = tx[q]
  BY DEF IInv, Shape
<1>2. NoTx \in Tx /\ NoTx.schema = "as_is"
  BY DEF NoTx, Tx
<1>3. Shape'
  BY <1>2 DEF IInv, Shape, Committed
<1>4. \A q \in Process : OwnTx(q)'
  BY <1>1 DEF IInv, OwnTx, NoTx
<1>5. OneChanger'
  BY <1>1, <1>2 DEF IInv, OneChanger, Current
<1>6. RollbackAlone'
  BY <1>1 DEF IInv, RollbackAlone, Active, Ended, IsRun, At
<1>7. ASSUME ~ mixed PROVE (\A q \in Process : RunAgrees(q)' /\ RollbackAgrees(q)')
                           /\ db'.applied = db'.recorded
  <2>1. /\ db'.applied = CASE tx[p].schema = "created" -> db.applied \cup {Current(p)}
                           [] tx[p].schema = "dropped" -> db.applied \ {Current(p)}
                           [] OTHER -> db.applied
        /\ db'.recorded = CASE tx[p].row = "inserted" -> db.recorded \cup {Current(p)}
                            [] tx[p].row = "deleted" -> db.recorded \ {Current(p)}
                            [] OTHER -> db.recorded
    BY DEF IInv, Shape, Committed
  <2>2. db.applied = db.recorded /\ RunAgrees(p) /\ RollbackAgrees(p)
    BY <1>7 DEF IInv, Agrees, LedgerTellsSchema
  <2>3. db'.applied = db'.recorded
    BY <2>1, <2>2 DEF RunAgrees, RollbackAgrees, At
  <2>4. RunAgrees(p)' /\ RollbackAgrees(p)'
    BY <1>1 DEF RunAgrees, RollbackAgrees
  <2>5. ASSUME NEW q \in Process, q # p PROVE RunAgrees(q)' /\ RollbackAgrees(q)'
    <3>1. CASE ~ Active(q)
      BY <1>1, <2>5, <3>1 DEF RunAgrees, RollbackAgrees, Active, Ended
    <3>2. CASE Active(q)
      <4>1. IsRun(p) /\ IsRun(q)
        BY <1>7, <2>5, <3>2 DEF IInv, RollbackAlone, Active, Ended, At
      <4>2. db'.recorded = db.recorded \cup {Current(p)} /\ tx[p].schema = "created"
        BY <2>1, <2>2, <4>1 DEF RunAgrees, At
      <4>3. tx[q].schema = "created" => Current(q) # Current(p)
        BY <2>5, <4>2 DEF IInv, OneChanger
      <4>4. RunAgrees(q)
        BY <1>7 DEF IInv, Agrees
      <4>. QED
        BY <1>1, <2>5, <4>1, <4>2, <4>3, <4>4 DEF RunAgrees, RollbackAgrees, Current, IsRun
    <3>. QED
      BY <3>1, <3>2
  <2>. QED
    BY <2>3, <2>4, <2>5
<1>. QED
  BY <1>3, <1>4, <1>5, <1>6, <1>7 DEF IInv, Agrees, LedgerTellsSchema

\* A command that begins becomes active: a rollback beside another is noted.
LEMMA BeginKeeps ==
  ASSUME IInv, NEW p \in Process, Begin(p)
  PROVE  IInv'
<1> DEFINE pc == IF IsRun(p) THEN "table" ELSE "read"
<1>1. /\ run[p].pc = "idle" /\ UNCHANGED <<db, tx>>
      /\ mixed' = (mixed \/ \E q \in Process \ {p} : Active(q) /\ ~ (IsRun(p) /\ IsRun(q)))
      /\ run' = [run EXCEPT ![p] = [pc |-> pc, todo |-> run[p].todo]]
  <2>1. Goto(p, pc)
    BY DEF Begin
  <2>2. run' = [run EXCEPT ![p] = [pc |-> pc, todo |-> run[p].todo]]
    BY <2>1, Moves DEF IInv
  <2>. QED
    BY <2>2 DEF Begin, At
<1>2. pc \in {"table", "read"}
  OBVIOUS
<1>3. /\ mixed' \in BOOLEAN
      /\ ~ mixed' =>
           ~ mixed /\ \A q \in Process \ {p} : Active(q) => IsRun(p) /\ IsRun(q)
  BY <1>1, Zenon DEF IInv, Shape
<1> HIDE DEF pc
<1>4. /\ run'[p].pc = pc /\ run'[p].todo = run[p].todo
      /\ \A q \in Process : q # p => run'[q] = run[q]
  BY <1>1 DEF IInv, Shape
<1>5. Shape'
  BY <1>3, <1>1 DEF IInv, Shape
<1>6. \A q \in Process : OwnTx(q)'
  BY <1>1, <1>2, <1>4 DEF IInv, OwnTx, NoTx
<1>7. OneChanger'
  BY <1>1, <1>4 DEF IInv, OneChanger, Current
<1>8. RollbackAlone'
  BY <1>3, <1>4 DEF IInv, RollbackAlone, Active, IsRun
<1>9. Agrees'
  BY <1>3, <1>1, <1>2, <1>4 DEF IInv, Agrees, RunAgrees, RollbackAgrees, Current, IsRun
<1>10. LedgerTellsSchema'
  BY <1>3, <1>1 DEF IInv, LedgerTellsSchema
<1>. QED
  BY <1>5, <1>6, <1>7, <1>8, <1>9, <1>10 DEF IInv

\* A migration, up or down, that has changed the schema: whoever works on the
\* same version waits for it.
LEMMA ChangeSchemaKeeps ==
  ASSUME IInv, NEW p \in Process, ChangeSchema(p)
  PROVE  IInv'
<1> DEFINE schema == IF IsRun(p) THEN IF Current(p) \in db.applied THEN "as_is" ELSE "created"
                     ELSE IF Current(p) \in db.applied THEN "dropped" ELSE "as_is"
           t == [tx[p] EXCEPT !.schema = schema]
<1>1. /\ run[p].pc = "schema" /\ Goto(p, "row")
      /\ \A q \in Rivals(p) : tx[q].schema = "as_is"
      /\ tx' = [tx EXCEPT ![p] = t] /\ UNCHANGED <<db, mixed>>
  BY DEF ChangeSchema, At
<1>2. /\ tx[p] \in Tx /\ tx[p].open /\ tx[p].row = "as_is"
  BY <1>1 DEF IInv, Shape, OwnTx
<1>3. t \in Tx /\ t.open /\ t.row = "as_is" /\ t.schema = schema
  BY <1>2 DEF Tx
<1>4. run' = [run EXCEPT ![p] = [pc |-> "row", todo |-> run[p].todo]]
  BY <1>1, Moves DEF IInv
<1> HIDE DEF t
<1>5. run'[p].pc = "row" /\ run'[p].todo = run[p].todo /\ tx'[p] = t
  BY <1>1, <1>4 DEF IInv, Shape
<1>6. OwnTx(p)'
  BY <1>3, <1>5 DEF OwnTx
<1>7. ~ mixed => RunAgrees(p)' /\ RollbackAgrees(p)'
  BY <1>1, <1>3, <1>5 DEF IInv, LedgerTellsSchema, RunAgrees, RollbackAgrees, Current, IsRun
<1>8. \A q \in Process \ {p} : tx[q].schema # "as_is" => Current(q) # Current(p)
  BY <1>1 DEF IInv, OwnTx, NoTx, Rivals
<1>9. Active(p)
  BY <1>1 DEF Active, Ended
<1>10. db' = [table |-> db'.table, applied |-> db'.applied, recorded |-> db'.recorded]
  BY <1>1 DEF IInv, Shape
<1> HIDE DEF schema
<1>. QED
  BY <1>1, <1>3, <1>4, <1>6, <1>7, <1>8, <1>9, <1>10, StepKeeps

\* A step that keeps the schema of p's transaction, whoever else has changed it.
LEMMA InsideKeeps ==
  ASSUME IInv, NEW p \in Process, NEW pc, NEW t \in Tx, Active(p),
         run' = [run EXCEPT ![p] = [pc |-> pc, todo |-> run[p].todo]],
         tx' = [tx EXCEPT ![p] = t], t.schema = tx[p].schema,
         UNCHANGED <<db, mixed>>,
         OwnTx(p)', ~ mixed => RunAgrees(p)' /\ RollbackAgrees(p)'
  PROVE  IInv'
<1>1. t.schema # "as_is" =>
        \A q \in Process \ {p} : tx[q].schema # "as_is" => Current(q) # Current(p)
  BY DEF IInv, OneChanger
<1>2. db' = [table |-> db'.table, applied |-> db'.applied, recorded |-> db'.recorded]
  BY DEF IInv, Shape
<1>. QED
  BY <1>1, <1>2, StepKeeps

LEMMA BeginTransactionKeeps ==
  ASSUME IInv, NEW p \in Process, BeginTransaction(p)
  PROVE  IInv'
<1> DEFINE t == [tx[p] EXCEPT !.open = TRUE]
<1>1. /\ run[p].pc = "next" /\ Goto(p, "schema")
      /\ tx' = [tx EXCEPT ![p] = t] /\ UNCHANGED <<db, mixed>>
  BY DEF BeginTransaction, At
<1>2. tx[p] \in Tx /\ tx[p].schema = "as_is" /\ tx[p].row = "as_is"
  BY <1>1 DEF IInv, Shape, OwnTx, NoTx
<1>3. t \in Tx /\ t.open /\ t.schema = "as_is" /\ t.row = "as_is" /\ t.schema = tx[p].schema
  BY <1>2 DEF Tx
<1>4. run' = [run EXCEPT ![p] = [pc |-> "schema", todo |-> run[p].todo]]
  BY <1>1, Moves DEF IInv
<1> HIDE DEF t
<1>5. run'[p].pc = "schema" /\ tx'[p] = t
  BY <1>1, <1>4 DEF IInv, Shape
<1>6. OwnTx(p)'
  BY <1>3, <1>5 DEF OwnTx
<1>7. RunAgrees(p)' /\ RollbackAgrees(p)'
  BY <1>5 DEF RunAgrees, RollbackAgrees
<1>8. Active(p)
  BY <1>1 DEF Active, Ended
<1>. QED
  BY <1>1, <1>3, <1>4, <1>6, <1>7, <1>8, InsideKeeps

\* p goes to its catch with the transaction as it is.
LEMMA OnErrorKeeps ==
  ASSUME IInv, NEW p \in Process, Goto(p, "rollback"), UNCHANGED <<db, tx, mixed>>,
         run[p].pc \in {"schema", "row", "commit"}
  PROVE  IInv'
<1>1. run' = [run EXCEPT ![p] = [pc |-> "rollback", todo |-> run[p].todo]]
  BY Moves DEF IInv
<1>2. tx[p] \in Tx /\ tx' = [tx EXCEPT ![p] = tx[p]]
  BY DEF IInv, Shape
<1>3. run'[p].pc = "rollback" /\ tx'[p] = tx[p]
  BY <1>1 DEF IInv, Shape
<1>4. OwnTx(p)'
  BY <1>3 DEF IInv, OwnTx, NoTx
<1>5. RunAgrees(p)' /\ RollbackAgrees(p)'
  BY <1>3 DEF RunAgrees, RollbackAgrees
<1>6. Active(p)
  BY DEF Active, Ended
<1>. QED
  BY <1>1, <1>2, <1>4, <1>5, <1>6, InsideKeeps

LEMMA ChangeRowKeeps ==
  ASSUME IInv, NEW p \in Process, ChangeRow(p)
  PROVE  IInv'
<1> DEFINE row == IF IsRun(p) THEN "inserted"
                  ELSE IF Current(p) \in db.recorded THEN "deleted" ELSE "as_is"
           t == [tx[p] EXCEPT !.row = row]
<1>1. run[p].pc = "row" /\ UNCHANGED <<db, mixed>>
  BY DEF ChangeRow, At
<1>2. CASE IsRun(p) /\ Current(p) \in db.recorded
  <2>1. Goto(p, "rollback") /\ tx' = tx
    BY <1>2 DEF ChangeRow, OnError
  <2>. QED
    BY <1>1, <2>1, OnErrorKeeps
<1>3. CASE ~ (IsRun(p) /\ Current(p) \in db.recorded)
  <2>1. tx' = [tx EXCEPT ![p] = t] /\ Goto(p, "commit")
    BY <1>3 DEF ChangeRow
  <2>2. tx[p] \in Tx /\ tx[p].open
    BY <1>1 DEF IInv, Shape, OwnTx
  <2>3. t \in Tx /\ t.open /\ t.row = row /\ t.schema = tx[p].schema
    BY <2>2 DEF Tx
  <2>4. run' = [run EXCEPT ![p] = [pc |-> "commit", todo |-> run[p].todo]]
    BY <2>1, Moves DEF IInv
  <2> HIDE DEF t
  <2>5. run'[p].pc = "commit" /\ run'[p].todo = run[p].todo /\ tx'[p] = t
    BY <2>1, <2>4 DEF IInv, Shape
  <2>6. OwnTx(p)'
    BY <2>3, <2>5 DEF OwnTx
  <2>7. ~ mixed => RunAgrees(p)' /\ RollbackAgrees(p)'
    BY <1>1, <1>3, <2>3, <2>5 DEF IInv, Agrees, RunAgrees, RollbackAgrees, Current, IsRun
  <2>8. Active(p)
    BY <1>1 DEF Active, Ended
  <2> HIDE DEF row
  <2>. QED
    BY <1>1, <2>1, <2>3, <2>4, <2>6, <2>7, <2>8, InsideKeeps
<1>. QED
  BY <1>2, <1>3

\* The command ends, however, and with it what is left of its transaction.
LEMMA EndKeeps ==
  ASSUME IInv, NEW p \in Process, NEW pc \in Ended, Active(p), End(p, pc),
         tx' = [tx EXCEPT ![p] = NoTx], UNCHANGED <<db, mixed>>
  PROVE  IInv'
<1>1. run' = [run EXCEPT ![p] = [pc |-> pc, todo |-> <<>>]]
  BY DEF End
<1>2. db' = [table |-> db'.table, applied |-> db'.applied, recorded |-> db'.recorded]
  BY DEF IInv, Shape
<1>3. pc \notin {"schema", "row", "commit"}
  BY DEF Ended
<1>. QED
  BY <1>1, <1>2, <1>3, OutsideKeeps

\* A statement outside of a transaction: of the database, only the table may be new.
LEMMA StatementKeeps ==
  ASSUME IInv, NEW p \in Process, NEW pc \in {"read", "next", "threw"}, NEW todo,
         Active(p), run[p].pc \notin {"schema", "row", "commit", "rollback"},
         run' = [run EXCEPT ![p] = [pc |-> pc, todo |-> todo]],
         db' = db \/ db' = [db EXCEPT !.table = TRUE], UNCHANGED <<tx, mixed>>
  PROVE  IInv'
<1>1. /\ db'.applied = db.applied /\ db'.recorded = db.recorded
      /\ db' = [table |-> db'.table, applied |-> db'.applied, recorded |-> db'.recorded]
  <2>1. db = [table |-> db.table, applied |-> db.applied, recorded |-> db.recorded]
    BY DEF IInv, Shape
  <2>2. CASE db' = db
    BY <2>1, <2>2
  <2>3. CASE db' = [db EXCEPT !.table = TRUE]
    <3>1. db' = [table |-> TRUE, applied |-> db.applied, recorded |-> db.recorded]
      BY <2>1, <2>3
    <3>. QED
      BY <3>1
  <2>. QED
    BY <2>2, <2>3
<1>2. tx' = [tx EXCEPT ![p] = NoTx]
  BY DEF IInv, Shape, OwnTx
<1>3. pc \notin {"schema", "row", "commit"}
  OBVIOUS
<1>. QED
  BY <1>1, <1>2, <1>3, OutsideKeeps

\* Every action of a command.
LEMMA ActionsKeep ==
  ASSUME IInv, NEW p \in Process, Step(p) \/ Fault(p)
  PROVE  IInv'
<1> USE DEF Active, Ended
<1>1. run[p].pc \notin {"schema", "row", "commit", "rollback"} =>
        tx[p] = NoTx /\ tx = [tx EXCEPT ![p] = NoTx]
  BY DEF IInv, Shape, OwnTx
<1>2. CASE CreateTable(p)
  <2>1. /\ run[p].pc = "table" /\ Active(p) /\ UNCHANGED <<tx, mixed>>
        /\ db' = [db EXCEPT !.table = TRUE]
    BY <1>2 DEF CreateTable, At
  <2>2. run' = [run EXCEPT ![p] = [pc |-> "read", todo |-> run[p].todo]]
    BY <1>2, Moves DEF CreateTable, IInv
  <2>. QED
    BY <2>1, <2>2, StatementKeeps
<1>3. CASE ReadVersion(p)
  <2>1. run[p].pc = "read" /\ Active(p) /\ UNCHANGED <<db, tx, mixed>>
    BY <1>3 DEF ReadVersion, At
  <2>2. PICK todo : run' = [run EXCEPT ![p] = [pc |-> "next", todo |-> todo]]
    BY <1>3, Zenon DEF ReadVersion
  <2>. QED
    BY <2>1, <2>2, StatementKeeps
<1>4. CASE ReadNothing(p)
  <2>1. run[p].pc = "read" /\ UNCHANGED <<db, tx, mixed>> /\ End(p, "threw")
    BY <1>4 DEF ReadNothing, At
  <2>. QED
    BY <1>1, <2>1, EndKeeps
<1>5. CASE Done(p)
  <2>1. run[p].pc = "next" /\ UNCHANGED <<db, tx, mixed>> /\ End(p, "ok")
    BY <1>5 DEF Done, At
  <2>. QED
    BY <1>1, <2>1, EndKeeps
<1>6. CASE BeginTransaction(p) \/ ChangeSchema(p) \/ ChangeRow(p)
  BY <1>6, BeginTransactionKeeps, ChangeSchemaKeeps, ChangeRowKeeps
<1>7. CASE Commit(p)
  <2>1. /\ At(p, "commit") /\ db' = Committed(p) /\ mixed' = mixed
        /\ tx' = [tx EXCEPT ![p] = NoTx]
        /\ run' = [run EXCEPT ![p] = [pc |-> "next", todo |-> Tail(run[p].todo)]]
    BY <1>7 DEF Commit
  <2>. QED
    BY <2>1, CommitKeeps
<1>8. CASE CommitUnanswered(p)
  <2>1. /\ At(p, "commit") /\ db' = Committed(p) /\ mixed' = mixed
        /\ tx' = [tx EXCEPT ![p] = NoTx] /\ Goto(p, "rollback")
    BY <1>8 DEF CommitUnanswered, OnError
  <2>. QED
    BY <2>1, Moves, CommitKeeps DEF IInv
<1>9. CASE Fail(p)
  <2>1. UNCHANGED <<db, tx, mixed>>
    BY <1>9 DEF Fail
  <2>2. CASE run[p].pc \in {"table", "read", "next"} /\ Goto(p, "threw")
    <3>1. run' = [run EXCEPT ![p] = [pc |-> "threw", todo |-> run[p].todo]]
      BY <2>2, Moves DEF IInv
    <3>2. Active(p) /\ run[p].pc \notin {"schema", "row", "commit", "rollback"}
      BY <2>2
    <3>. QED
      BY <2>1, <3>1, <3>2, StatementKeeps
  <2>3. CASE run[p].pc \in {"schema", "row", "commit"} /\ Goto(p, "rollback")
    BY <2>1, <2>3, OnErrorKeeps
  <2>. QED
    BY <1>9, <2>2, <2>3 DEF Fail, OnError
<1>10. CASE Rollback(p) \/ Crash(p)
  <2>1. /\ Active(p) /\ UNCHANGED <<db, mixed>> /\ tx' = [tx EXCEPT ![p] = NoTx]
        /\ End(p, "threw") \/ End(p, "died")
    BY <1>10 DEF Rollback, Crash, At
  <2>. QED
    BY <2>1, EndKeeps
<1>. QED
  BY <1>2, <1>3, <1>4, <1>5, <1>6, <1>7, <1>8, <1>9, <1>10 DEF Step, Fault

-----------------------------------------------------------------------------
(* The theorems *)

\* The strengthening of LedgerTellsSchema is inductive.
THEOREM Invariance == Spec => []IInv
<1>1. Init => IInv
  <2> SUFFICES ASSUME Init PROVE IInv
    OBVIOUS
  <2>1. NoTx \in Tx /\ NoTx.schema = "as_is"
    BY DEF NoTx, Tx
  <2>2. \A p \in Process : tx[p] = NoTx /\ run[p] = [pc |-> "idle", todo |-> <<>>]
    BY DEF Init
  <2>3. Shape
    BY <2>1, <2>2 DEF Init, Shape
  <2>4. \A p \in Process : OwnTx(p) /\ RunAgrees(p) /\ RollbackAgrees(p) /\ ~ Active(p)
    BY <2>2 DEF OwnTx, RunAgrees, RollbackAgrees, Active, NoTx
  <2>5. OneChanger /\ RollbackAlone
    BY <2>1, <2>2, <2>4 DEF OneChanger, RollbackAlone
  <2>6. LedgerTellsSchema
    BY DEF Init, LedgerTellsSchema
  <2>. QED
    BY <2>3, <2>4, <2>5, <2>6 DEF IInv, Agrees
<1>2. IInv /\ [Next]_vars => IInv'
  <2> SUFFICES ASSUME IInv, [Next]_vars PROVE IInv'
    OBVIOUS
  <2>1. CASE UNCHANGED <<db, tx, run, mixed>>
    BY <2>1 DEF IInv, Shape, OwnTx, OneChanger, RollbackAlone, Agrees, RunAgrees,
                RollbackAgrees, LedgerTellsSchema, Current, Active, IsRun
  <2>2. ASSUME NEW p \in Process, Begin(p) \/ Step(p) \/ Fault(p) PROVE IInv'
    BY <2>2, BeginKeeps, ActionsKeep
  <2>. QED
    BY <2>1, <2>2 DEF Next, Replicate, vars
<1>. QED
  BY <1>1, <1>2, PTL DEF Spec

\* The table of migrations tells the schema.
THEOREM LedgerIsTrue == Spec => []LedgerTellsSchema
<1>1. IInv => LedgerTellsSchema
  BY DEF IInv
<1>. QED
  BY <1>1, Invariance, PTL

-----------------------------------------------------------------------------
(* What a command has still to do fits what is recorded. *)

USE MigratorAssumption

OnItsWay(p) == run[p].pc \in {"next", "schema", "row", "commit"}

\* With 1 .. m recorded, a run goes up from a version that is recorded, and a
\* rollback goes down from the last one.
Plan(p, m) ==
  OnItsWay(p) =>
    /\ IF IsRun(p) THEN \E k \in 0 .. m : run[p].todo = Upward(k)
                   ELSE run[p].todo = Downward(Target[p], m)
    /\ run[p].pc # "next" => run[p].todo # <<>>

Planned(m) == db.recorded = 1 .. m /\ \A p \in Process : Plan(p, m)

Sequenced == ~ mixed /\ ~ stale => \E m \in 0 .. Latest : Planned(m)

LEMMA MaxOfPrefix == \A m \in Nat : Max((1 .. m) \cup {0}) = m
<1> SUFFICES ASSUME NEW m \in Nat PROVE Max((1 .. m) \cup {0}) = m
  OBVIOUS
<1>1. m \in (1 .. m) \cup {0} /\ \A y \in (1 .. m) \cup {0} : m >= y
  OBVIOUS
<1>2. \A x \in (1 .. m) \cup {0} : (\A y \in (1 .. m) \cup {0} : x >= y) => x = m
  OBVIOUS
<1>. QED
  BY <1>1, <1>2 DEF Max

LEMMA UpwardStep ==
  ASSUME NEW k \in 0 .. Latest
  PROVE  /\ Upward(k) = <<>> <=> k = Latest
         /\ k < Latest => Head(Upward(k)) = k + 1 /\ Tail(Upward(k)) = Upward(k + 1)
<1>1. Upward(k) \in Seq(Nat) /\ Len(Upward(k)) = Latest - k
  BY DEF Upward
<1>2. k < Latest => Head(Upward(k)) = k + 1
  BY <1>1 DEF Upward
<1>3. k < Latest => Tail(Upward(k)) = Upward(k + 1)
  <2> SUFFICES ASSUME k < Latest PROVE Tail(Upward(k)) = Upward(k + 1)
    OBVIOUS
  <2>1. Upward(k + 1) \in Seq(Nat) /\ Len(Upward(k + 1)) = Latest - k - 1
    BY DEF Upward
  <2>2. Tail(Upward(k)) \in Seq(Nat) /\ Len(Tail(Upward(k))) = Latest - k - 1
    BY <1>1
  <2>3. \A i \in 1 .. Latest - k - 1 : Tail(Upward(k))[i] = Upward(k)[i + 1]
    BY <1>1
  <2>4. \A i \in 1 .. Latest - k - 1 : Upward(k)[i + 1] = Upward(k + 1)[i]
    BY DEF Upward
  <2>. QED
    BY <2>1, <2>2, <2>3, <2>4, SeqEqual
<1>. QED
  BY <1>1, <1>2, <1>3

LEMMA DownwardStep ==
  ASSUME NEW t \in Nat, NEW m \in Nat, Downward(t, m) # <<>>
  PROVE  /\ t < m /\ Head(Downward(t, m)) = m
         /\ Tail(Downward(t, m)) = Downward(t, m - 1)
<1>1. t < m
  BY DEF Downward
<1>2. Downward(t, m) \in Seq(Nat) /\ Len(Downward(t, m)) = m - t
  BY <1>1 DEF Downward
<1>3. Tail(Downward(t, m)) = Downward(t, m - 1)
  <2>1. Downward(t, m - 1) \in Seq(Nat) /\ Len(Downward(t, m - 1)) = m - t - 1
    BY <1>1 DEF Downward
  <2>2. Tail(Downward(t, m)) \in Seq(Nat) /\ Len(Tail(Downward(t, m))) = m - t - 1
    BY <1>1, <1>2
  <2>3. \A i \in 1 .. m - t - 1 : Tail(Downward(t, m))[i] = Downward(t, m)[i + 1]
    BY <1>1, <1>2
  <2>4. \A i \in 1 .. m - t - 1 : Downward(t, m)[i + 1] = Downward(t, m - 1)[i]
    BY <1>1 DEF Downward
  <2>. QED
    BY <2>1, <2>2, <2>3, <2>4, SeqEqual
<1>. QED
  BY <1>1, <1>2, <1>3 DEF Downward

\* A step of p that changes nothing recorded, and leaves p with its plan.
LEMMA PlanKept ==
  ASSUME IInv, NEW m \in 0 .. Latest, Planned(m), NEW p \in Process,
         db'.recorded = db.recorded,
         \A q \in Process \ {p} : run'[q] = run[q],
         Plan(p, m)'
  PROVE  Planned(m)'
<1>1. \A q \in Process \ {p} : Plan(q, m)'
  BY DEF Planned, Plan, OnItsWay, IsRun
<1>. QED
  BY <1>1 DEF Planned

\* A step of p to where it has no plan, or keeps the one it has.
LEMMA GotoKeepsPlan ==
  ASSUME IInv, Sequenced, NEW p \in Process, NEW pc, NEW todo,
         run' = [run EXCEPT ![p] = [pc |-> pc, todo |-> todo]],
         \/ pc \notin {"next", "schema", "row", "commit"}
         \/ todo = run[p].todo /\ todo # <<>> /\ OnItsWay(p),
         db'.recorded = db.recorded, mixed' = mixed, stale' = stale
  PROVE  Sequenced'
<1> SUFFICES ASSUME ~ mixed, ~ stale PROVE \E m \in 0 .. Latest : Planned(m)'
  BY DEF Sequenced
<1>1. PICK m \in 0 .. Latest : Planned(m)
  BY DEF Sequenced
<1>2. /\ run'[p].pc = pc /\ run'[p].todo = todo
      /\ \A q \in Process \ {p} : run'[q] = run[q]
  BY DEF IInv, Shape
<1>3. Plan(p, m)'
  BY <1>1, <1>2 DEF Planned, Plan, OnItsWay, IsRun
<1>. QED
  BY <1>1, <1>2, <1>3, PlanKept

\* The plan is made from the last version recorded, when the read was not late.
LEMMA ReadPlans ==
  ASSUME IInv, Sequenced, NEW p \in Process, ReadVersion(p)
  PROVE  Sequenced'
<1> SUFFICES ASSUME ~ mixed', ~ stale' PROVE \E m \in 0 .. Latest : Planned(m)'
  BY DEF Sequenced
<1>1. UNCHANGED <<db, mixed>> /\ ~ mixed /\ ~ stale /\ Source = db
  BY DEF ReadVersion
<1>2. PICK m \in 0 .. Latest : Planned(m)
  BY <1>1 DEF Sequenced
<1>3. MaxVersion(Source) = m
  BY <1>1, <1>2, MaxOfPrefix DEF MaxVersion, Planned
<1>4. /\ run'[p].todo = IF IsRun(p) THEN Upward(m) ELSE Downward(Target[p], m)
      /\ run'[p].pc = "next"
      /\ \A q \in Process \ {p} : run'[q] = run[q]
  BY <1>3 DEF ReadVersion, IInv, Shape
<1>5. Plan(p, m)'
  <2>1. m \in 0 .. m
    OBVIOUS
  <2>. QED
    BY <1>4, <2>1 DEF Plan, IsRun
<1>. QED
  BY <1>1, <1>2, <1>4, <1>5, PlanKept

\* A commit of a run records the version after the last, one of a rollback
\* takes the last one away; answered or not.
LEMMA CommitPlans ==
  ASSUME IInv, Sequenced, NEW p \in Process, NEW pc \in {"next", "rollback"}, NEW todo,
         At(p, "commit"), db' = Committed(p), mixed' = mixed, stale' = stale,
         run' = [run EXCEPT ![p] = [pc |-> pc, todo |-> todo]],
         pc = "next" => todo = Tail(run[p].todo)
  PROVE  Sequenced'
<1> SUFFICES ASSUME ~ mixed, ~ stale PROVE \E m \in 0 .. Latest : Planned(m)'
  BY DEF Sequenced
<1>1. PICK m \in 0 .. Latest : Planned(m)
  BY DEF Sequenced
<1>2. /\ run'[p].pc = pc /\ run'[p].todo = todo
      /\ \A q \in Process \ {p} : run'[q] = run[q]
  BY DEF IInv, Shape
<1>3. db'.recorded = CASE tx[p].row = "inserted" -> db.recorded \cup {Current(p)}
                       [] tx[p].row = "deleted" -> db.recorded \ {Current(p)}
                       [] OTHER -> db.recorded
  BY DEF IInv, Shape, Committed
<1>4. RunAgrees(p) /\ RollbackAgrees(p) /\ OnItsWay(p) /\ Active(p)
  BY DEF IInv, Agrees, At, OnItsWay, Active, Ended
<1>a. run[p].todo # <<>>
  BY <1>1, <1>4 DEF Planned, Plan, At
<1>5. CASE IsRun(p)
  <2>1. PICK k \in 0 .. m : run[p].todo = Upward(k)
    BY <1>1, <1>4, <1>5 DEF Planned, Plan
  <2>2. k < Latest /\ Current(p) = k + 1 /\ Tail(run[p].todo) = Upward(k + 1)
    BY <1>a, <2>1, UpwardStep DEF Current
  <2>3. tx[p].row = "inserted" /\ Current(p) \notin db.recorded
    BY <1>4, <1>5 DEF RunAgrees, At
  <2>4. k = m
    BY <1>1, <2>2, <2>3 DEF Planned
  <2>5. m + 1 \in 0 .. Latest /\ db'.recorded = 1 .. m + 1
    BY <1>1, <1>3, <2>2, <2>3, <2>4 DEF Planned
  <2>6. Plan(p, m + 1)'
    <3>1. pc = "next" => run'[p].todo = Upward(m + 1)
      BY <1>2, <2>2, <2>4
    <3>2. m + 1 \in 0 .. m + 1 /\ IsRun(p)'
      BY <1>5 DEF IsRun
    <3>. QED
      BY <1>2, <3>1, <3>2 DEF Plan, OnItsWay
  <2>7. ASSUME NEW q \in Process \ {p} PROVE Plan(q, m + 1)'
    <3>1. Active(q) => IsRun(q)
      BY <1>4 DEF IInv, RollbackAlone
    <3>2. OnItsWay(q) => Active(q)
      BY DEF OnItsWay, Active, Ended
    <3>. QED
      BY <1>1, <1>2, <3>1, <3>2 DEF Planned, Plan, OnItsWay, IsRun
  <2>. QED
    BY <2>5, <2>6, <2>7 DEF Planned
<1>6. CASE ~ IsRun(p)
  <2>1. run[p].todo = Downward(Target[p], m) /\ Target[p] \in Nat
    BY <1>1, <1>4, <1>6 DEF Planned, Plan, IsRun
  <2>2. /\ Target[p] < m /\ Current(p) = m
        /\ Tail(run[p].todo) = Downward(Target[p], m - 1)
    BY <1>a, <2>1, DownwardStep DEF Current
  <2>3. tx[p].row = "deleted"
    BY <1>1, <1>4, <1>6, <2>1, <2>2 DEF RollbackAgrees, Planned, At
  <2>4. m - 1 \in 0 .. Latest /\ db'.recorded = 1 .. m - 1
    BY <1>1, <1>3, <2>1, <2>2, <2>3 DEF Planned
  <2>5. Plan(p, m - 1)'
    BY <1>2, <1>6, <2>2 DEF Plan, OnItsWay, IsRun
  <2>6. ASSUME NEW q \in Process \ {p} PROVE Plan(q, m - 1)'
    <3>1. ~ Active(q)
      BY <1>4, <1>6 DEF IInv, RollbackAlone
    <3>. QED
      BY <1>2, <3>1 DEF Plan, OnItsWay, Active, Ended
  <2>. QED
    BY <2>4, <2>5, <2>6 DEF Planned
<1>. QED
  BY <1>5, <1>6

LEMMA ActionsPlan ==
  ASSUME IInv, Sequenced, NEW p \in Process, Step(p) \/ Fault(p)
  PROVE  Sequenced'
<1>1. ASSUME NEW pc, Goto(p, pc), UNCHANGED <<mixed, stale>>, db'.recorded = db.recorded,
             \/ pc \notin {"next", "schema", "row", "commit"}
             \/ OnItsWay(p) /\ run[p].todo # <<>>
      PROVE  Sequenced'
  <2>1. run' = [run EXCEPT ![p] = [pc |-> pc, todo |-> run[p].todo]]
    BY <1>1, Moves DEF IInv
  <2>. QED
    BY <1>1, <2>1, GotoKeepsPlan
<1>2. ASSUME NEW pc \in Ended, End(p, pc), UNCHANGED <<db, mixed, stale>>
      PROVE  Sequenced'
  <2>1. run' = [run EXCEPT ![p] = [pc |-> pc, todo |-> <<>>]]
    BY <1>2 DEF End
  <2>2. pc \notin {"next", "schema", "row", "commit"}
    BY <1>2 DEF Ended
  <2>. QED
    BY <1>2, <2>1, <2>2, GotoKeepsPlan
<1>3. \/ mixed \/ stale
      \/ run[p].pc \in {"schema", "row", "commit"} => run[p].todo # <<>>
  BY DEF Sequenced, Planned, Plan, OnItsWay
<1>4. CASE CreateTable(p)
  <2>1. Goto(p, "read") /\ UNCHANGED <<mixed, stale>> /\ db'.recorded = db.recorded
    BY <1>4 DEF CreateTable, IInv, Shape
  <2>. QED
    BY <1>1, <2>1
<1>5. CASE ReadNothing(p) \/ Done(p) \/ Rollback(p) \/ Crash(p)
  BY <1>2, <1>5 DEF ReadNothing, Done, Rollback, Crash, Ended
<1>6. CASE BeginTransaction(p)
  BY <1>1, <1>6 DEF BeginTransaction, At, OnItsWay
<1>7. CASE ChangeSchema(p) \/ ChangeRow(p)
  <2>1. CASE mixed \/ stale
    BY <1>7, <2>1 DEF ChangeSchema, ChangeRow, Sequenced
  <2>2. CASE ~ mixed /\ ~ stale
    <3>1. OnItsWay(p) /\ run[p].todo # <<>> /\ UNCHANGED <<db, mixed, stale>>
      BY <1>3, <1>7, <2>2 DEF ChangeSchema, ChangeRow, At, OnItsWay
    <3>2. Goto(p, "row") \/ Goto(p, "commit") \/ Goto(p, OnError)
      BY <1>7 DEF ChangeSchema, ChangeRow
    <3>. QED
      BY <1>1, <3>1, <3>2
  <2>. QED
    BY <2>1, <2>2
<1>8. CASE Commit(p)
  <2>1. run' = [run EXCEPT ![p] = [pc |-> "next", todo |-> Tail(run[p].todo)]]
    BY <1>8 DEF Commit
  <2>. QED
    BY <1>8, <2>1, CommitPlans DEF Commit
<1>9. CASE CommitUnanswered(p)
  <2>1. run' = [run EXCEPT ![p] = [pc |-> "rollback", todo |-> run[p].todo]]
    BY <1>9, Moves DEF CommitUnanswered, OnError, IInv
  <2>. QED
    BY <1>9, <2>1, CommitPlans DEF CommitUnanswered
<1>10. CASE Fail(p)
  BY <1>1, <1>10 DEF Fail, OnError
<1>. QED
  BY <1>4, <1>5, <1>6, <1>7, <1>8, <1>9, <1>10, ReadPlans DEF Step, Fault

LEMMA NextSequenced == IInv /\ Sequenced /\ [Next]_vars => Sequenced'
<1> SUFFICES ASSUME IInv, Sequenced, [Next]_vars PROVE Sequenced'
  OBVIOUS
<1>1. CASE UNCHANGED <<db, run, mixed, stale>>
  BY <1>1 DEF Sequenced, Planned, Plan, OnItsWay, IsRun
<1>2. ASSUME NEW p \in Process, Begin(p) PROVE Sequenced'
  <2> SUFFICES ASSUME ~ mixed', ~ stale' PROVE \E m \in 0 .. Latest : Planned(m)'
    BY DEF Sequenced
  <2>1. ~ mixed /\ ~ stale /\ UNCHANGED db
    BY <1>2 DEF Begin
  <2>2. PICK m \in 0 .. Latest : Planned(m)
    BY <2>1 DEF Sequenced
  <2>3. /\ run'[p].pc \in {"table", "read"}
        /\ \A q \in Process \ {p} : run'[q] = run[q]
    BY <1>2 DEF Begin, Goto, IInv, Shape
  <2>4. Plan(p, m)'
    BY <2>3 DEF Plan, OnItsWay
  <2>. QED
    BY <2>1, <2>2, <2>3, <2>4, PlanKept
<1>3. ASSUME NEW p \in Process, Step(p) \/ Fault(p) PROVE Sequenced'
  BY <1>3, ActionsPlan
<1>. QED
  BY <1>1, <1>2, <1>3 DEF Next, Replicate, vars

LEMMA AlwaysSequenced == Spec => []Sequenced
<1>1. Init => Sequenced
  <2> SUFFICES ASSUME Init PROVE Planned(0)
    BY DEF Sequenced
  <2>. QED
    BY DEF Init, Planned, Plan, OnItsWay
<1>. QED
  BY <1>1, NextSequenced, Invariance, PTL DEF Spec

\* No migration is missing below the latest one recorded, however many runs
\* race, fail and die: run compares with MAX(version) only, and so relies on it.
THEOREM RecordedIsPrefix == Spec => []NoGaps
<1>1. Sequenced => NoGaps
  BY MaxOfPrefix DEF Sequenced, Planned, NoGaps, MaxVersion
<1>. QED
  BY <1>1, AlwaysSequenced, PTL

\* A run that ends well leaves every migration recorded, whatever ran beside it.
THEOREM RunsMigrateAll == Spec => RunMigrates
<1>1. ASSUME IInv, Sequenced, Next, NEW p \in Process, IsRun(p), ~ mixed, ~ stale,
             run[p].pc # "ok", run'[p].pc = "ok"
      PROVE  db.recorded = Version
  <2>1. ASSUME NEW q \in Process, NEW pc, pc # "ok", NEW todo,
               run' = [run EXCEPT ![q] = [pc |-> pc, todo |-> todo]]
        PROVE  FALSE
    BY <1>1, <2>1 DEF IInv, Shape
  <2>2. ASSUME NEW q \in Process, NEW pc, pc # "ok", Goto(q, pc) \/ End(q, pc)
        PROVE  FALSE
    <3>1. Shape
      BY <1>1 DEF IInv
    <3>2. \E todo : run' = [run EXCEPT ![q] = [pc |-> pc, todo |-> todo]]
      BY <2>2, <3>1, Moves
    <3>. QED
      BY <2>1, <2>2, <3>2
  <2>3. ASSUME NEW q \in Process, Begin(q) \/ Step(q) \/ Fault(q)
        PROVE  Done(q)
    <3>1. ~ Begin(q) /\ ~ CreateTable(q) /\ ~ ReadNothing(q) /\ ~ BeginTransaction(q)
      BY <2>2 DEF Begin, CreateTable, ReadNothing, BeginTransaction
    <3>2. ~ ChangeSchema(q) /\ ~ ChangeRow(q) /\ ~ Rollback(q)
      BY <2>2 DEF ChangeSchema, ChangeRow, Rollback, OnError
    <3>3. ~ ReadVersion(q) /\ ~ Commit(q)
      BY <2>1 DEF ReadVersion, Commit
    <3>4. ~ CommitUnanswered(q) /\ ~ Fail(q) /\ ~ Crash(q)
      BY <2>2 DEF CommitUnanswered, Fail, Crash, OnError
    <3>. QED
      BY <2>3, <3>1, <3>2, <3>3, <3>4 DEF Step, Fault
  <2>4. ~ Replicate
    BY <1>1 DEF Replicate
  <2>5. PICK q \in Process : Done(q)
    BY <1>1, <2>3, <2>4 DEF Next
  <2>6. q = p
    BY <1>1, <2>5 DEF Done, End, IInv, Shape
  <2>7. run[p].pc = "next" /\ run[p].todo = <<>>
    BY <2>5, <2>6 DEF Done, At
  <2>8. PICK m \in 0 .. Latest : Planned(m)
    BY <1>1 DEF Sequenced
  <2>9. PICK k \in 0 .. m : Upward(k) = <<>>
    BY <1>1, <2>7, <2>8 DEF Planned, Plan, OnItsWay
  <2>10. m = Latest
    BY <2>9, UpwardStep
  <2>. QED
    BY <2>8, <2>10 DEF Planned, Version
<1>2. IInv /\ Sequenced /\ [Next]_vars => [RunCompletes]_vars
  BY <1>1 DEF RunCompletes
<1>. QED
  BY <1>2, AlwaysSequenced, Invariance, PTL DEF Spec, RunMigrates

-----------------------------------------------------------------------------
(* Types *)

LEMMA HasMaximum ==
  ASSUME NEW n \in Nat, NEW S \in SUBSET (0 .. n), S # {}
  PROVE  Max(S) \in S
<1> DEFINE Above(x) == {k \in S : k > x}
           F == {Above(x) : x \in S}
<1>1. IsFiniteSet(S)
  <2>1. IsFiniteSet(0 .. n)
    BY FS_Interval
  <2>. QED
    BY <2>1, FS_Subset
<1>2. PICK T \in F : \A U \in F : ~ (<<U, T>> \in StrictSubsetOrdering(S))
  <2>1. IsWellFoundedOn(StrictSubsetOrdering(S), FiniteSubsetsOf(S))
    BY <1>1, FS_StrictSubsetOrderingWellFounded
  <2>2. FiniteSubsetsOf(S) = SUBSET S
    BY <1>1, FS_FiniteSubsetsOfFinite
  <2>3. F \subseteq SUBSET S /\ F # {}
    OBVIOUS
  <2>. HIDE DEF F
  <2>. QED
    BY <2>1, <2>2, <2>3, WFMin
<1>3. PICK x \in S : T = Above(x)
  OBVIOUS
<1>4. Above(x) = {}
  <2> SUFFICES ASSUME NEW y \in Above(x) PROVE FALSE
    OBVIOUS
  <2>1. y \in S /\ y > x /\ y \in Nat /\ x \in Nat
    OBVIOUS
  <2>2. \A k \in Above(y) : k \in Above(x)
    BY <2>1
  <2>3. y \notin Above(y)
    BY <2>1
  <2>4. Above(y) \in F /\ Above(y) \subseteq S /\ Above(x) \subseteq S
    BY <2>1
  <2>. HIDE DEF F, Above
  <2>5. <<Above(y), T>> \in StrictSubsetOrdering(S)
    BY <1>3, <2>2, <2>3, <2>4 DEF StrictSubsetOrdering
  <2>. QED
    BY <1>2, <2>4, <2>5
<1>5. x \in S /\ \A y \in S : x >= y
  BY <1>4
<1>. QED
  BY <1>5 DEF Max

\* Who has a transaction works on a version.
Started == \A p \in Process : run[p].pc \in {"schema", "row", "commit"} => run[p].todo # <<>>

TInv == TypeOK /\ Started

\* The statements of p move p, and nobody else.
LEMMA MoveTypes ==
  ASSUME TInv, db' \in Database, replica' \in Database, mixed' \in BOOLEAN, stale' \in BOOLEAN,
         NEW p \in Process, NEW t \in Tx, tx' = [tx EXCEPT ![p] = t],
         NEW pc, NEW todo, [pc |-> pc, todo |-> todo] \in Run,
         run' = [run EXCEPT ![p] = [pc |-> pc, todo |-> todo]],
         pc \in {"schema", "row", "commit"} => todo # <<>>
  PROVE  TInv'
<1>1. TypeOK'
  BY DEF TInv, TypeOK
<1>2. Started'
  BY DEF TInv, TypeOK, Started
<1>. QED
  BY <1>1, <1>2 DEF TInv

LEMMA GotoTypes ==
  ASSUME TInv, db' \in Database, replica' \in Database, mixed' \in BOOLEAN, stale' \in BOOLEAN,
         NEW p \in Process, NEW t \in Tx, tx' = [tx EXCEPT ![p] = t],
         NEW pc, [pc |-> pc, todo |-> <<>>] \in Run, Goto(p, pc) \/ End(p, pc),
         pc \in {"schema", "row", "commit"} => run[p].todo # <<>> /\ Goto(p, pc)
  PROVE  TInv'
<1>1. run[p] \in Run
  BY DEF TInv, TypeOK
<1>2. CASE Goto(p, pc)
  <2>1. [run[p] EXCEPT !.pc = pc] = [pc |-> pc, todo |-> run[p].todo]
    BY <1>1 DEF Run
  <2>2. run' = [run EXCEPT ![p] = [pc |-> pc, todo |-> run[p].todo]]
    BY <1>2, <2>1 DEF Goto
  <2>3. [pc |-> pc, todo |-> run[p].todo] \in Run
    BY <1>1 DEF Run
  <2>. QED
    BY <2>2, <2>3, MoveTypes
<1>3. CASE End(p, pc) /\ pc \notin {"schema", "row", "commit"}
  BY <1>3, MoveTypes DEF End
<1>. QED
  BY <1>2, <1>3

LEMMA PlanTypes ==
  ASSUME NEW d \in Database, NEW p \in Process
  PROVE  /\ Upward(MaxVersion(d)) \in Seq(Version)
         /\ ~ IsRun(p) => Downward(Target[p], MaxVersion(d)) \in Seq(Version)
<1> DEFINE v == MaxVersion(d)
<1>1. v \in 0 .. Latest
  <2>1. d.recorded \cup {0} \in SUBSET (0 .. Latest) /\ d.recorded \cup {0} # {}
    BY DEF Database, Version
  <2>. QED
    BY <2>1, HasMaximum DEF MaxVersion
<1>. HIDE DEF v
<1>2. Upward(v) \in Seq(Version)
  <2>1. Latest - v \in Nat /\ \A i \in 1 .. Latest - v : v + i \in Version
    BY <1>1 DEF Version
  <2>. QED
    BY <2>1 DEF Upward
<1>3. ASSUME ~ IsRun(p) PROVE Downward(Target[p], v) \in Seq(Version)
  <2> DEFINE t == Target[p]
  <2>1. t \in Nat
    BY <1>3 DEF IsRun
  <2>. HIDE DEF t
  <2>2. \A i \in 1 .. v - t : v + 1 - i \in Version
    BY <1>1, <2>1 DEF Version
  <2>3. CASE t <= v
    <3>1. v - t \in Nat
      BY <1>1, <2>1, <2>3
    <3>. QED
      BY <2>2, <3>1 DEF Downward, t
  <2>4. CASE ~ (t <= v)
    <3>1. 1 .. v - t = {} /\ 1 .. 0 = {} /\ 0 \in Nat
      BY <1>1, <2>1, <2>4
    <3>2. Downward(t, v) \in [1 .. 0 -> Version]
      BY <3>1 DEF Downward
    <3>. QED
      BY <3>2 DEF t
  <2>. QED
    BY <2>3, <2>4
<1>. QED
  BY <1>2, <1>3 DEF v

LEMMA CommittedType ==
  ASSUME TInv, NEW p \in Process, At(p, "commit")
  PROVE  Committed(p) \in Database /\ Tail(run[p].todo) \in Seq(Version)
<1>1. db \in Database /\ run[p].todo \in Seq(Version) /\ run[p].todo # <<>>
  BY DEF TInv, TypeOK, Run, Started, At
<1>2. Current(p) \in Version /\ Tail(run[p].todo) \in Seq(Version)
  BY <1>1, HeadTailProperties DEF Current
<1>. HIDE DEF Version
<1>. QED
  BY <1>1, <1>2 DEF Committed, Database

LEMMA NextTInv == TInv /\ [Next]_vars => TInv'
<1> SUFFICES ASSUME TInv, [Next]_vars PROVE TInv'
  OBVIOUS
<1>0. /\ db \in Database /\ replica \in Database /\ mixed \in BOOLEAN /\ stale \in BOOLEAN
      /\ tx \in [Process -> Tx] /\ NoTx \in Tx /\ Source \in Database
      /\ \A p \in Process : tx = [tx EXCEPT ![p] = tx[p]] /\ tx[p] \in Tx
  BY DEF TInv, TypeOK, NoTx, Tx, Source
<1>r. \A pc \in {"idle", "table", "read", "next", "schema", "row", "commit", "rollback"} \cup Ended :
        [pc |-> pc, todo |-> <<>>] \in Run
  BY DEF Run
<1>1. CASE UNCHANGED vars
  BY <1>1 DEF vars, TInv, TypeOK, Started
<1>2. CASE Replicate
  BY <1>0, <1>2 DEF Replicate, TInv, TypeOK, Started
<1>3. ASSUME NEW p \in Process, Begin(p) PROVE TInv'
  <2>1. (Goto(p, "table") \/ Goto(p, "read")) /\ mixed' \in BOOLEAN
    BY <1>0, <1>3 DEF Begin
  <2>. QED
    BY <1>0, <1>3, <1>r, <2>1, GotoTypes DEF Begin
<1>4. ASSUME NEW p \in Process, Step(p) \/ Fault(p) PROVE TInv'
  <2>0. run[p].todo # <<>> \/ run[p].pc \notin {"schema", "row", "commit"}
    BY DEF TInv, Started
  <2>1. CASE CreateTable(p)
    <3>1. db' \in Database
      BY <1>0, <2>1 DEF CreateTable, Database
    <3>. QED
      BY <1>0, <1>r, <2>1, <3>1, GotoTypes DEF CreateTable
  <2>2. CASE ReadVersion(p)
    <3> DEFINE plan == IF IsRun(p) THEN Upward(MaxVersion(Source))
                       ELSE Downward(Target[p], MaxVersion(Source))
    <3>1. run' = [run EXCEPT ![p] = [pc |-> "next", todo |-> plan]] /\ stale' \in BOOLEAN
      BY <1>0, <2>2 DEF ReadVersion
    <3>2. plan \in Seq(Version)
      BY <1>0, PlanTypes
    <3>. HIDE DEF plan
    <3>3. [pc |-> "next", todo |-> plan] \in Run
      BY <3>2 DEF Run
    <3>. QED
      BY <1>0, <2>2, <3>1, <3>3, MoveTypes DEF ReadVersion
  <2>3. CASE ReadNothing(p) \/ Done(p)
    BY <1>0, <1>r, <2>3, GotoTypes DEF ReadNothing, Done, Ended
  <2>4. CASE Rollback(p) \/ Crash(p)
    BY <1>0, <1>r, <2>4, GotoTypes DEF Rollback, Crash, Ended
  <2>5. CASE BeginTransaction(p)
    <3>1. tx' = [tx EXCEPT ![p] = [tx[p] EXCEPT !.open = TRUE]]
      BY <2>5 DEF BeginTransaction
    <3>2. [tx[p] EXCEPT !.open = TRUE] \in Tx
      BY <1>0 DEF Tx
    <3>. QED
      BY <1>0, <1>r, <2>5, <3>1, <3>2, GotoTypes DEF BeginTransaction
  <2>6. CASE ChangeSchema(p)
    <3>1. PICK what \in {"as_is", "created", "dropped"} :
            tx' = [tx EXCEPT ![p] = [tx[p] EXCEPT !.schema = what]]
      BY <2>6 DEF ChangeSchema
    <3>2. [tx[p] EXCEPT !.schema = what] \in Tx
      BY <1>0 DEF Tx
    <3>. QED
      BY <1>0, <1>r, <2>0, <2>6, <3>1, <3>2, GotoTypes DEF ChangeSchema, At
  <2>7. CASE ChangeRow(p)
    <3>1. CASE Goto(p, "rollback") /\ UNCHANGED tx
      BY <1>0, <1>r, <2>7, <3>1, GotoTypes DEF ChangeRow
    <3>2. CASE ~ (Goto(p, "rollback") /\ UNCHANGED tx)
      <4>1. PICK what \in {"as_is", "inserted", "deleted"} :
              /\ tx' = [tx EXCEPT ![p] = [tx[p] EXCEPT !.row = what]]
              /\ Goto(p, "commit")
        BY <2>7, <3>2 DEF ChangeRow, OnError
      <4>2. [tx[p] EXCEPT !.row = what] \in Tx
        BY <1>0 DEF Tx
      <4>. QED
        BY <1>0, <1>r, <2>0, <2>7, <4>1, <4>2, GotoTypes DEF ChangeRow, At
    <3>. QED
      BY <3>1, <3>2
  <2>8. CASE Commit(p)
    <3>1. /\ run' = [run EXCEPT ![p] = [pc |-> "next", todo |-> Tail(run[p].todo)]]
          /\ db' \in Database /\ Tail(run[p].todo) \in Seq(Version)
      BY <2>8, CommittedType DEF Commit
    <3>2. [pc |-> "next", todo |-> Tail(run[p].todo)] \in Run
      BY <3>1 DEF Run
    <3>. QED
      BY <1>0, <2>8, <3>1, <3>2, MoveTypes DEF Commit
  <2>9. CASE CommitUnanswered(p)
    <3>1. db' \in Database
      BY <2>9, CommittedType DEF CommitUnanswered
    <3>. QED
      BY <1>0, <1>r, <2>9, <3>1, GotoTypes DEF CommitUnanswered, OnError
  <2>10. CASE Fail(p)
    BY <1>0, <1>r, <2>10, GotoTypes DEF Fail, OnError, Ended
  <2>. QED
    BY <1>4, <2>1, <2>2, <2>3, <2>4, <2>5, <2>6, <2>7, <2>8, <2>9, <2>10 DEF Step, Fault
<1>. QED
  BY <1>1, <1>2, <1>3, <1>4 DEF Next

\* The variables keep their types: above all, only versions that exist are
\* planned and recorded, also when the version was read late or below the target.
THEOREM TypeCorrect == Spec => []TypeOK
<1>1. Init => TInv
  <2>. SUFFICES ASSUME Init PROVE TInv
    OBVIOUS
  <2>1. NoTx \in Tx /\ [pc |-> "idle", todo |-> <<>>] \in Run
    BY DEF NoTx, Tx, Run
  <2>. QED
    BY <2>1 DEF Init, TInv, TypeOK, Started, Database
<1>2. TInv => TypeOK
  BY DEF TInv
<1>. QED
  BY <1>1, <1>2, NextTInv, PTL DEF Spec
=============================================================================
