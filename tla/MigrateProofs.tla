----------------------------- MODULE MigrateProofs -----------------------------
(***************************************************************************)
(* Proofs about Migrate for any set of names and any number of             *)
(* invocations.                                                            *)
(***************************************************************************)
EXTENDS Migrate, FiniteSetTheorems, TLAPS

USE DirAssumption, MigrateAssumption

LEMMA AnyMigration == (CHOOSE m \in Migs : TRUE) \in Migs
  OBVIOUS

LEMMA DirTypeStep == DirTypeOK /\ [DirNext]_dirVars => DirTypeOK'
  <1> SUFFICES ASSUME DirTypeOK, [DirNext]_dirVars PROVE DirTypeOK'
    OBVIOUS
  <1> USE DEF DirTypeOK, Listing, NoListing, Files, Texts, NoFile, GenSteps, Up, Down, Goto
  <1>1. ASSUME NEW m \in Migs, GenStart(m) PROVE DirTypeOK'
    <2>1. gen' \in [step : GenSteps, mig : Migs, hashed : Listing]
      BY <1>1 DEF GenStart
    <2>2. changes' \in 0..MaxChanges
      BY <1>1 DEF GenStart, DirAssumption
    <2> QED
      BY <1>1, <2>1, <2>2 DEF GenStart
  <1>2. CASE GenCreateUp
    BY <1>2 DEF GenCreateUp, CreateFile
  <1>3. CASE GenWriteUp
    BY <1>3 DEF GenWriteUp, WriteFile
  <1>4. CASE GenCreateDown
    BY <1>4 DEF GenCreateDown, CreateFile
  <1>5. CASE GenWriteDown
    BY <1>5 DEF GenWriteDown, WriteFile
  <1>6. CASE GenHash
    BY <1>6 DEF GenHash
  <1>7. CASE GenCreateSum
    BY <1>7 DEF GenCreateSum
  <1>8. CASE GenWriteSumLine
    BY <1>8 DEF GenWriteSumLine
  <1>9. CASE GenWriteSum
    BY <1>9 DEF GenWriteSum
  <1>10. CASE GenStop
    BY <1>10 DEF GenStop
  <1>11. ASSUME NEW f \in Files, NEW text \in {"edited", NoFile}, Touch(f, text)
         PROVE DirTypeOK'
    BY <1>11 DEF Touch, DirAssumption
  <1>12. CASE UNCHANGED dirVars
    BY <1>12 DEF dirVars
  <1> QED
    BY <1>1, <1>2, <1>3, <1>4, <1>5, <1>6, <1>7, <1>8, <1>9, <1>10, <1>11, <1>12
    DEF DirNext, GenStep

-----------------------------------------------------------------------------
(* Type correctness.                                                         *)

LEMMA NoTxType == NoTx \in Tx
  BY AnyMigration DEF NoTx, Tx, Texts, NoFile

LEMMA InitTypeOK == Init => TypeOK
  <1> SUFFICES ASSUME Init PROVE TypeOK
    OBVIOUS
  <1>1. DirTypeOK
    BY AnyMigration DEF Init, DirInit, DirTypeOK, InitialDir, Listing, NoListing, Files,
       Texts, NoFile, GenSteps, DirAssumption
  <1>2. /\ ledger \in Rows
        /\ effect \in [Migs -> Texts \cup {NoFile}]
        /\ before \in SUBSET (Migs \X Migs)
    BY DEF Init, Rows, Texts, NoFile, NoRow, NoChecksum, MigrateAssumption, DirAssumption
  <1>3. /\ pc \in [Invocations -> Steps]
        /\ opt \in [Invocations -> Options]
        /\ tx \in [Invocations -> Tx]
    BY NoTxType DEF Init, Steps, Options
  <1>4. /\ rows \in [Invocations -> Rows]
        /\ plan \in [Invocations -> [Migs -> Texts \cup {NoFile}]]
    BY DEF Init, Rows, NoRows, NoPlan, NoRow, NoFile
  <1> QED
    BY <1>1, <1>2, <1>3, <1>4 DEF TypeOK

\* The types of the variables that are neither the directory's nor the database's.
LocalTypeOK ==
  /\ pc \in [Invocations -> Steps]
  /\ opt \in [Invocations -> Options]
  /\ rows \in [Invocations -> Rows]
  /\ plan \in [Invocations -> [Migs -> Texts \cup {NoFile}]]
  /\ tx \in [Invocations -> Tx]

DbTypeOK ==
  /\ ledger \in Rows
  /\ effect \in [Migs -> Texts \cup {NoFile}]
  /\ before \in SUBSET (Migs \X Migs)

LEMMA RowsRead ==
  ASSUME TypeOK, NEW p \in Invocations, NEW cut, NEW step \in Steps, ReadRows(p, cut, step)
  PROVE  /\ rows' \in [Invocations -> Rows]
         /\ pc' \in [Invocations -> Steps]
  <1>1. [m \in Migs |-> IF m \in cut THEN NoRow ELSE ledger[m]] \in Rows
    BY DEF TypeOK, Rows
  <1> QED
    BY <1>1 DEF ReadRows, TypeOK, Move

LEMMA ForgottenRows ==
  ASSUME TypeOK, NEW p \in Invocations, Forget(p)
  PROVE  rows' \in [Invocations -> Rows]
  <1>1. NoRows \in Rows
    BY DEF NoRows, Rows
  <1> QED
    BY <1>1 DEF Forget, TypeOK

LEMMA CountType == 1..Cardinality(Migs) \subseteq Nat
  BY FS_CardinalityType DEF DirAssumption

LEMMA LocalTypeStep ==
  ASSUME TypeOK, NEW p \in Invocations,
         Start(p) \/ Step(p) \/ Fail(p) \/ Crash(p) \/ DropSession(p)
  PROVE  LocalTypeOK'
  <1> USE DEF LocalTypeOK, TypeOK, Move, Steps
  <1>1. ASSUME NEW force \in BOOLEAN, NEW dry \in BOOLEAN, ApplyStart(p, force, dry)
        PROVE LocalTypeOK'
    <2>1. opt[p] \in Options
      OBVIOUS
    <2>3. [opt[p] EXCEPT !.force = force, !.dry = dry] \in Options
      BY <1>1, <2>1 DEF Options
    <2>4. opt' = [opt EXCEPT ![p] = [opt[p] EXCEPT !.force = force, !.dry = dry]]
      BY <1>1 DEF ApplyStart
    <2>5. opt' \in [Invocations -> Options]
      BY <2>3, <2>4
    <2>2. pc' \in [Invocations -> Steps]
      BY <1>1 DEF ApplyStart
    <2> QED
      BY <1>1, <2>2, <2>5 DEF ApplyStart
  <1>2. ASSUME NEW count \in 1..Cardinality(Migs), NEW dry \in BOOLEAN, NEW cut \in Cuts,
               RollbackStart(p, count, dry, cut)
        PROVE LocalTypeOK'
    <2>1. count \in Nat
      BY CountType
    <2>2. opt[p] \in Options
      OBVIOUS
    <2>3. [opt[p] EXCEPT !.count = count, !.dry = dry] \in Options
      BY <1>2, <2>1, <2>2 DEF Options
    <2>4. opt' = [opt EXCEPT ![p] = [opt[p] EXCEPT !.count = count, !.dry = dry]]
      BY <1>2 DEF RollbackStart
    <2>5. opt' \in [Invocations -> Options]
      BY <2>3, <2>4
    <2> QED
      BY <1>2, <2>5, RowsRead DEF RollbackStart
  <1>3. ASSUME NEW cut \in Cuts, ReadHistory(p, cut) PROVE LocalTypeOK'
    BY <1>3, RowsRead DEF ReadHistory
  <1>4. ASSUME NEW cut \in Cuts, ReadPendingRows(p, cut) PROVE LocalTypeOK'
    BY <1>4, RowsRead DEF ReadPendingRows
  <1>5. CASE CompareHistory(p)
    BY <1>5, ForgottenRows DEF CompareHistory
  <1>6. CASE ListPending(p)
    <2>1. PendingOf(p) \in [Migs -> Texts \cup {NoFile}]
      BY DEF PendingOf, DirTypeOK, Listing, Files, Up
    <2> QED
      BY <1>6, <2>1, ForgottenRows DEF ListPending
  <1>7. CASE ListRollbackable(p)
    <2>1. [m \in Migs |-> IF m \in LastByName(p) THEN dir[Down(m)] ELSE NoFile]
             \in [Migs -> Texts \cup {NoFile}]
      BY DEF DirTypeOK, Listing, Files, Down
    <2> QED
      BY <1>7, <2>1, ForgottenRows DEF ListRollbackable
  <1>8. ASSUME NEW m \in Migs, RunScript(p, m) PROVE LocalTypeOK'
    <2>1. HasWork(p, m) \in BOOLEAN
      BY DEF HasWork
    <2>2. plan[p][m] \in Texts \cup {NoFile}
      <3>1. plan[p] \in [Migs -> Texts \cup {NoFile}]
        OBVIOUS
      <3> QED
        BY <3>1
    <2>3. Begun(p, m, HasWork(p, m)) \in Tx
      BY <2>1, <2>2 DEF Begun, Tx
    <2> QED
      BY <1>8, <2>3 DEF RunScript
  <1>9. ASSUME NEW m \in Migs, ScriptFails(p, m) PROVE LocalTypeOK'
    BY <1>9 DEF ScriptFails
  <1>10. CASE InsertRow(p)
    <2>1. tx[p] \in Tx
      OBVIOUS
    <2>2. [tx[p] EXCEPT !.row = TRUE, !.stage = "wrote"] \in Tx
      BY <2>1 DEF Tx
    <2>3. tx' = [tx EXCEPT ![p] = [tx[p] EXCEPT !.row = TRUE, !.stage = "wrote"]]
            \/ tx' = [tx EXCEPT ![p] = NoTx]
      BY <1>10 DEF InsertRow, EndTx
    <2>4. tx' \in [Invocations -> Tx]
      BY <2>2, <2>3, NoTxType
    <2>5. pc' \in [Invocations -> Steps]
      BY <1>10 DEF InsertRow
    <2> QED
      BY <1>10, <2>4, <2>5 DEF InsertRow
  <1>11. CASE DeleteRow(p)
    <2>1. tx[p] \in Tx
      OBVIOUS
    <2>2. [tx[p] EXCEPT !.row = (ledger[tx[p].mig] # NoRow), !.stage = "wrote"] \in Tx
      BY <2>1 DEF Tx
    <2>3. tx' = [tx EXCEPT ![p] = [tx[p] EXCEPT
                   !.row = (ledger[tx[p].mig] # NoRow), !.stage = "wrote"]]
      BY <1>11 DEF DeleteRow
    <2>4. tx' \in [Invocations -> Tx]
      BY <2>2, <2>3
    <2> QED
      BY <1>11, <2>4 DEF DeleteRow
  <1>12. CASE SendCommit(p)
    <2>1. tx[p] \in Tx
      OBVIOUS
    <2>2. [tx[p] EXCEPT !.stage = "sent"] \in Tx
      BY <2>1 DEF Tx
    <2>3. tx' = [tx EXCEPT ![p] = [tx[p] EXCEPT !.stage = "sent"]]
      BY <1>12 DEF SendCommit
    <2>4. tx' \in [Invocations -> Tx]
      BY <2>2, <2>3
    <2> QED
      BY <1>12, <2>4 DEF SendCommit
  <1>13. CASE Commit(p)
    <2>1. tx[p].mig \in Migs
      BY DEF Tx
    <2>2. tx' \in [Invocations -> Tx]
      BY <1>13, NoTxType DEF Commit, EndTx
    <2>3. plan' \in [Invocations -> [Migs -> Texts \cup {NoFile}]]
      BY <1>13, <2>1 DEF Commit
    <2> QED
      BY <1>13, <2>2, <2>3 DEF Commit
  <1>14. CASE Fail(p)
    BY <1>14, NoTxType DEF Fail, EndTx
  <1>15. CASE Crash(p)
    BY <1>15 DEF Crash
  <1>16. CASE DropSession(p)
    BY <1>16, NoTxType DEF DropSession, EndTx
  <1> QED
    BY <1>1, <1>2, <1>3, <1>4, <1>5, <1>6, <1>7, <1>8, <1>9, <1>10, <1>11, <1>12,
       <1>13, <1>14, <1>15, <1>16 DEF Start, Step

LEMMA NewTextType ==
  ASSUME TypeOK, NEW p \in Invocations
  PROVE  /\ tx[p].mig \in Migs
         /\ NewText(p) \in Texts \cup {NoFile}
  BY DEF TypeOK, NewText, Tx

LEMMA DbTypeCommit ==
  ASSUME TypeOK, NEW p \in Invocations, Commit(p)
  PROVE  DbTypeOK'
  <1> USE DEF DbTypeOK, TypeOK
  <1>1. ledger' \in Rows
    BY NewTextType DEF Commit, Rows, NoFile, NoRow
  <1>2. effect' \in [Migs -> Texts \cup {NoFile}]
    BY NewTextType DEF Commit
  <1>3. before' \in SUBSET (Migs \X Migs)
    BY NewTextType DEF Commit, Present
  <1> QED
    BY <1>1, <1>2, <1>3

LEMMA OnlyCommitWrites ==
  ASSUME NEW p \in Invocations,
         Start(p) \/ Step(p) \/ Fail(p) \/ Crash(p) \/ DropSession(p)
  PROVE  Commit(p) \/ UNCHANGED dbVars
  BY DEF Start, Step, ApplyStart, RollbackStart, ReadHistory, ReadPendingRows,
     CompareHistory, ListPending, ListRollbackable, RunScript, ScriptFails, InsertRow,
     DeleteRow, SendCommit, Fail, Crash, DropSession

LEMMA InvocationKeepsDir ==
  ASSUME NEW p \in Invocations,
         Start(p) \/ Step(p) \/ Fail(p) \/ Crash(p) \/ DropSession(p)
  PROVE  UNCHANGED dirVars
  BY DEF Start, Step, ApplyStart, RollbackStart, ReadHistory, ReadPendingRows,
     CompareHistory, ListPending, ListRollbackable, RunScript, ScriptFails, InsertRow,
     DeleteRow, SendCommit, Fail, Crash, DropSession, Commit

LEMMA TypeStep == TypeOK /\ [Next]_vars => TypeOK'
  <1> SUFFICES ASSUME TypeOK, [Next]_vars PROVE TypeOK'
    OBVIOUS
  <1>1. CASE DirStep
    <2>1. DirTypeOK'
      BY <1>1, DirTypeStep DEF DirStep, TypeOK
    <2> QED
      BY <1>1, <2>1 DEF DirStep, TypeOK, dbVars
  <1>2. ASSUME NEW p \in Invocations,
               Start(p) \/ Step(p) \/ Fail(p) \/ Crash(p) \/ DropSession(p)
        PROVE TypeOK'
    <2>1. DirTypeOK'
      BY <1>2, InvocationKeepsDir DEF TypeOK, DirTypeOK, dirVars
    <2>2. LocalTypeOK'
      BY <1>2, LocalTypeStep
    <2>3. DbTypeOK'
      <3>1. CASE Commit(p)
        BY <3>1, DbTypeCommit
      <3>2. CASE UNCHANGED dbVars
        BY <3>2 DEF dbVars, DbTypeOK, TypeOK
      <3> QED
        BY <1>2, <3>1, <3>2, OnlyCommitWrites
    <2> QED
      BY <2>1, <2>2, <2>3 DEF LocalTypeOK, DbTypeOK, TypeOK
  <1>3. CASE UNCHANGED vars
    BY <1>3 DEF vars, dirVars, dbVars, TypeOK, DirTypeOK
  <1> QED
    BY <1>1, <1>2, <1>3 DEF Next

\* Every variable keeps its type: in particular no transaction can record a text
\* that no file ever had, nor run a step for a migration outside the directory.
THEOREM TypeCorrect == Spec => []TypeOK
  BY InitTypeOK, TypeStep, PTL DEF Spec

-----------------------------------------------------------------------------
(* The ledger and the schema stay together.                                  *)
(*                                                                           *)
(* LedgerMatchesSchema alone is not inductive: that a COMMIT keeps it depends *)
(* on what the transaction found when its script ran, and on nobody having   *)
(* changed that since.  The strengthening says what an open transaction knows *)
(* of the committed state; the locks its script holds keep it true.          *)

\* A down script that may succeed without doing anything breaks the property
\* (run rerun_rollback), so either every script fails when it has nothing to do,
\* or nothing is rolled back.
ScriptsSafe == Idempotent => Rollbackers = {}

\* Two open transactions never hold the locks of the same migration's objects.
ScriptLocks ==
  \A p, q \in Invocations :
    p # q /\ tx[p].eff /\ tx[q].eff => tx[p].mig # tx[q].mig

\* Nor do they write the row of the same migration.
RowFree(p, m) == \A q \in Invocations \ {p} : ~(tx[q].row /\ tx[q].mig = m)
RowLocks == \A p \in Invocations : tx[p].row => RowFree(p, tx[p].mig)

\* Its script is a down script of comments.
Spared(p) == OnlyRemarks(p, tx[p].mig)

\* An applier whose script created objects found none; a rollbacker's found them.
ScriptStands(p) ==
  /\ tx[p].eff /\ p \in Appliers => effect[tx[p].mig] = NoFile /\ tx[p].text \in Texts
  /\ tx[p].eff /\ p \in Rollbackers => effect[tx[p].mig] # NoFile /\ ~Spared(p)

\* A rollbacker deletes a row that is there.
RowStands(p) == tx[p].row /\ p \in Rollbackers => ledger[tx[p].mig] # NoRow

\* A script that did nothing was an applier's, for objects that are still there, or had
\* nothing to do.
IdleScript(p) ==
  tx[p].stage # "none" /\ ~tx[p].eff =>
    Spared(p) \/ (p \in Appliers /\ Idempotent /\ effect[tx[p].mig] # NoFile)

\* The row and the script go together once the row is written.
RowWithScript(p) ==
  /\ tx[p].stage = "none" => ~tx[p].eff
  /\ tx[p].row => tx[p].eff \/ Spared(p)
  /\ tx[p].stage \in {"wrote", "sent"} => Spared(p) \/ (tx[p].eff /\ tx[p].row)

\* Where the invocation is tells how far its transaction got.
StageAt(p) ==
  /\ pc[p] = "record" => tx[p].stage = "ran"
  /\ pc[p] = "commit" => tx[p].stage = "wrote"

TxSafe(p) == ScriptStands(p) /\ RowStands(p) /\ IdleScript(p) /\ RowWithScript(p) /\ StageAt(p)

\* Where nothing is rolled back, every migration whose objects exist is recorded.
NothingLost == Rollbackers = {} => \A m \in Migs : effect[m] # NoFile => ledger[m] # NoRow

LedgerInv ==
  /\ LedgerMatchesSchema /\ NothingLost
  /\ ScriptLocks /\ RowLocks
  /\ \A p \in Invocations : TxSafe(p)

LEMMA InitLedgerInv == Init => LedgerInv
  <1> SUFFICES ASSUME Init PROVE LedgerInv
    OBVIOUS
  <1>1. LedgerMatchesSchema /\ NothingLost
    BY DEF Init, LedgerMatchesSchema, NothingLost, NoRow, NoFile, NoChecksum, Texts
  <1>2. \A p \in Invocations : tx[p] = NoTx /\ pc[p] = "idle"
    BY DEF Init
  <1>3. NoTx.stage = "none" /\ ~NoTx.eff /\ ~NoTx.row
    BY DEF NoTx
  <1>4. ScriptLocks /\ RowLocks
    BY <1>2, <1>3 DEF ScriptLocks, RowLocks
  <1>5. \A p \in Invocations : TxSafe(p)
    BY <1>2, <1>3 DEF TxSafe, ScriptStands, RowStands, IdleScript, RowWithScript, StageAt
  <1> QED
    BY <1>1, <1>4, <1>5 DEF LedgerInv

\* A step of p that writes nothing to the database only has to keep p's own part
\* of the invariant, and to take no lock another transaction holds.
LEMMA OwnStep ==
  ASSUME TypeOK, LedgerInv, NEW p \in Invocations, NEW t, NEW step,
         UNCHANGED dbVars,
         tx' = [tx EXCEPT ![p] = t],
         pc' = [pc EXCEPT ![p] = step],
         t.eff => Unlocked(p, t.mig),
         t.row => RowFree(p, t.mig),
         TxSafe(p)'
  PROVE  LedgerInv'
  <1>1. LedgerMatchesSchema' /\ NothingLost'
    BY DEF LedgerInv, LedgerMatchesSchema, NothingLost, dbVars
  <1>2. /\ tx'[p] = t
        /\ \A q \in Invocations \ {p} : tx'[q] = tx[q] /\ pc'[q] = pc[q]
    BY DEF TypeOK
  <1>3. ScriptLocks'
    BY <1>2 DEF LedgerInv, ScriptLocks, Unlocked
  <1>4. RowLocks'
    BY <1>2 DEF LedgerInv, RowLocks, RowFree
  <1>5. ASSUME NEW q \in Invocations, q # p PROVE TxSafe(q)'
    <2>1. /\ TxSafe(q) /\ tx'[q] = tx[q] /\ pc'[q] = pc[q]
          /\ effect' = effect /\ ledger' = ledger
      BY <1>2, <1>5 DEF LedgerInv, dbVars
    <2> QED
      BY <2>1 DEF TxSafe, ScriptStands, RowStands, IdleScript, RowWithScript, StageAt, Spared,
                  OnlyRemarks
  <1> QED
    BY <1>1, <1>3, <1>4, <1>5 DEF LedgerInv

\* In particular a step that ends p's transaction, or leaves it alone.
LEMMA TxGone ==
  ASSUME TypeOK, LedgerInv, NEW p \in Invocations, NEW step \in Steps \ {"record", "commit"},
         UNCHANGED dbVars, EndTx(p), pc' = [pc EXCEPT ![p] = step]
  PROVE  LedgerInv'
  <1>1. NoTx.stage = "none" /\ ~NoTx.eff /\ ~NoTx.row
    BY DEF NoTx
  <1>2. tx'[p] = NoTx /\ pc'[p] = step
    BY DEF TypeOK, EndTx
  <1>3. TxSafe(p)'
    BY <1>1, <1>2 DEF TxSafe, ScriptStands, RowStands, IdleScript, RowWithScript, StageAt
  <1> QED
    BY <1>1, <1>3, OwnStep DEF EndTx

LEMMA TxKept ==
  ASSUME TypeOK, LedgerInv, NEW p \in Invocations, NEW step \in Steps \ {"record", "commit"},
         UNCHANGED dbVars, UNCHANGED tx, pc' = [pc EXCEPT ![p] = step]
  PROVE  LedgerInv'
  <1>1. tx' = [tx EXCEPT ![p] = tx[p]]
    BY DEF TypeOK
  <1>2. tx[p].eff => Unlocked(p, tx[p].mig)
    BY DEF LedgerInv, ScriptLocks, Unlocked
  <1>3. tx[p].row => RowFree(p, tx[p].mig)
    BY DEF LedgerInv, RowLocks
  <1>4. /\ pc'[p] = step /\ tx'[p] = tx[p] /\ effect' = effect /\ ledger' = ledger
        /\ TxSafe(p)
    BY DEF TypeOK, LedgerInv, dbVars
  <1>5. TxSafe(p)'
    BY <1>4 DEF TxSafe, ScriptStands, RowStands, IdleScript, RowWithScript, StageAt, Spared,
                OnlyRemarks
  <1> QED
    BY <1>1, <1>2, <1>3, <1>5, OwnStep

LEMMA RunScriptKeeps ==
  ASSUME ScriptsSafe, TypeOK, LedgerInv, NEW p \in Invocations, NEW m \in Migs, RunScript(p, m)
  PROVE  LedgerInv'
  <1> DEFINE t == Begun(p, m, HasWork(p, m))
  <1>1. /\ t.stage = "ran" /\ t.mig = m /\ t.text = plan[p][m]
        /\ t.eff = HasWork(p, m) /\ ~t.row
    BY DEF Begun
  <1>2. /\ tx' = [tx EXCEPT ![p] = t]
        /\ pc' = [pc EXCEPT ![p] = "record"]
        /\ UNCHANGED dbVars
        /\ OnlyRemarks(p, m) \/ Unlocked(p, m)
        /\ HasWork(p, m) \/ OnlyRemarks(p, m) \/ Idempotent
        /\ m \in Remaining(p)
    BY DEF RunScript, Turn, Move, IsNext
  <1>3. tx'[p] = t /\ pc'[p] = "record" /\ effect' = effect
    BY <1>2 DEF TypeOK, dbVars
  <1>4. plan[p][m] \in Texts
    <2>1. plan[p] \in [Migs -> Texts \cup {NoFile}]
      BY DEF TypeOK
    <2> QED
      BY <1>2, <2>1 DEF Remaining
  <1>5. Spared(p)' <=> OnlyRemarks(p, m)
    BY <1>1, <1>3 DEF Spared, OnlyRemarks
  <1>6. ScriptStands(p)' /\ RowStands(p)'
    BY <1>1, <1>3, <1>4, <1>5 DEF ScriptStands, RowStands, HasWork, MigrateAssumption
  <1>7. IdleScript(p)'
    BY <1>1, <1>2, <1>3, <1>5 DEF IdleScript, HasWork, ScriptsSafe, Invocations
  <1>8. RowWithScript(p)' /\ StageAt(p)'
    BY <1>1, <1>3 DEF RowWithScript, StageAt
  <1>9. t.eff => Unlocked(p, t.mig)
    BY <1>1, <1>2 DEF HasWork
  <1>10. TxSafe(p)'
    BY <1>6, <1>7, <1>8 DEF TxSafe
  <1> HIDE DEF t
  <1> QED
    BY <1>1, <1>2, <1>9, <1>10, OwnStep

\* Both statements on shrugged_migrations follow the script that did something, or that
\* had nothing to do.
LEMMA RowWritten ==
  ASSUME TypeOK, LedgerInv, NEW p \in Invocations, NEW row \in BOOLEAN,
         pc[p] = "record", UNCHANGED dbVars,
         Spared(p) \/ (tx[p].eff /\ row),
         row => RowFree(p, tx[p].mig),
         row /\ p \in Rollbackers => ledger[tx[p].mig] # NoRow,
         tx' = [tx EXCEPT ![p].row = row, ![p].stage = "wrote"],
         pc' = [pc EXCEPT ![p] = "commit"]
  PROVE  LedgerInv'
  <1> DEFINE t == [tx[p] EXCEPT !.row = row, !.stage = "wrote"]
  <1>1. tx[p] \in Tx
    BY DEF TypeOK
  <1>2. /\ t.stage = "wrote" /\ t.mig = tx[p].mig /\ t.text = tx[p].text
        /\ t.eff = tx[p].eff /\ t.row = row
    BY <1>1 DEF Tx
  <1>3. tx' = [tx EXCEPT ![p] = t]
    BY DEF TypeOK
  <1>4. /\ tx'[p] = t /\ pc'[p] = "commit" /\ effect' = effect /\ ledger' = ledger
        /\ TxSafe(p)
    BY <1>3 DEF TypeOK, dbVars, LedgerInv
  <1>5. Spared(p)' <=> Spared(p)
    BY <1>2, <1>4 DEF Spared, OnlyRemarks
  <1>6. TxSafe(p)'
    <2>1. ScriptStands(p)' /\ RowStands(p)'
      BY <1>2, <1>4, <1>5 DEF TxSafe, ScriptStands, RowStands
    <2>2. IdleScript(p)' /\ RowWithScript(p)' /\ StageAt(p)'
      BY <1>2, <1>4, <1>5 DEF TxSafe, IdleScript, RowWithScript, StageAt
    <2> QED
      BY <2>1, <2>2 DEF TxSafe
  <1>7. t.eff => Unlocked(p, t.mig)
    BY <1>2 DEF LedgerInv, ScriptLocks, Unlocked
  <1>8. t.row => RowFree(p, t.mig)
    BY <1>2
  <1> HIDE DEF t
  <1> QED
    BY <1>3, <1>4, <1>6, <1>7, <1>8, OwnStep

LEMMA InsertKeeps ==
  ASSUME ScriptsSafe, TypeOK, LedgerInv, NEW p \in Invocations, InsertRow(p)
  PROVE  LedgerInv'
  <1>1. tx[p] \in Tx /\ tx[p].mig \in Migs
    BY DEF TypeOK, Tx
  <1>2. p \in Appliers /\ p \notin Rollbackers
    BY DEF InsertRow, MigrateAssumption
  <1>3. CASE ledger[tx[p].mig] = NoRow
    <2>1. ~Spared(p)
      BY <1>2 DEF Spared, OnlyRemarks
    <2>2. RowFree(p, tx[p].mig)
      BY DEF InsertRow, NoRowWriter, RowFree
    <2>3. tx[p].stage = "ran" /\ IdleScript(p)
      BY DEF InsertRow, LedgerInv, TxSafe, StageAt
    <2>4. tx[p].eff \/ effect[tx[p].mig] # NoFile
      BY <2>1, <2>3 DEF IdleScript
    <2>5. CASE tx[p].eff
      BY <1>2, <1>3, <2>2, <2>5, RowWritten DEF InsertRow, Move
    <2>6. CASE ~tx[p].eff
      <3>1. Idempotent /\ effect[tx[p].mig] # NoFile
        BY <2>1, <2>3, <2>6 DEF IdleScript
      <3> QED
        BY <1>1, <1>3, <3>1 DEF LedgerInv, NothingLost, ScriptsSafe
    <2> QED
      BY <2>5, <2>6
  <1>4. CASE ledger[tx[p].mig] # NoRow
    BY <1>4, TxGone DEF InsertRow, Move, Steps
  <1> QED
    BY <1>3, <1>4

LEMMA DeleteKeeps ==
  ASSUME TypeOK, LedgerInv, NEW p \in Invocations, DeleteRow(p)
  PROVE  LedgerInv'
  <1>1. tx[p].mig \in Migs
    BY DEF TypeOK, Tx
  <1>2. p \in Rollbackers /\ p \notin Appliers
    BY DEF DeleteRow, MigrateAssumption
  <1>3. tx[p].stage = "ran" /\ TxSafe(p)
    BY DEF DeleteRow, LedgerInv, TxSafe, StageAt
  <1>4. PICK row \in BOOLEAN : row = (ledger[tx[p].mig] # NoRow)
    OBVIOUS
  <1>5. Spared(p) \/ (tx[p].eff /\ row)
    <2>1. CASE tx[p].eff
      <3>1. effect[tx[p].mig] # NoFile /\ ~Spared(p)
        BY <1>2, <1>3, <2>1 DEF TxSafe, ScriptStands
      <3>2. tx[p].mig \notin Lasting
        BY <1>2, <3>1 DEF Spared, OnlyRemarks
      <3> QED
        BY <1>1, <1>4, <2>1, <3>1, <3>2 DEF LedgerInv, LedgerMatchesSchema
    <2>2. CASE ~tx[p].eff
      BY <1>2, <1>3, <2>2 DEF TxSafe, IdleScript
    <2> QED
      BY <2>1, <2>2
  <1>6. row => RowFree(p, tx[p].mig)
    BY <1>4 DEF DeleteRow, NoRowWriter, RowFree
  <1>7. /\ tx' = [tx EXCEPT ![p].row = row, ![p].stage = "wrote"]
        /\ pc' = [pc EXCEPT ![p] = "commit"] /\ pc[p] = "record" /\ UNCHANGED dbVars
    BY <1>4 DEF DeleteRow, Move
  <1> QED
    BY <1>4, <1>5, <1>6, <1>7, RowWritten

LEMMA SendKeeps ==
  ASSUME TypeOK, LedgerInv, NEW p \in Invocations, SendCommit(p)
  PROVE  LedgerInv'
  <1> DEFINE t == [tx[p] EXCEPT !.stage = "sent"]
  <1>1. tx[p] \in Tx
    BY DEF TypeOK
  <1>2. t.stage = "sent" /\ t.mig = tx[p].mig /\ t.text = tx[p].text
        /\ (t.eff <=> tx[p].eff) /\ (t.row <=> tx[p].row)
    BY <1>1 DEF Tx
  <1>3. tx' = [tx EXCEPT ![p] = t] /\ pc' = [pc EXCEPT ![p] = "ack"] /\ UNCHANGED dbVars
    BY DEF TypeOK, SendCommit, Move
  <1>4. /\ tx'[p] = t /\ pc'[p] = "ack" /\ effect' = effect /\ ledger' = ledger
        /\ TxSafe(p)
    BY <1>3 DEF TypeOK, dbVars, LedgerInv
  <1>5. tx[p].stage = "wrote"
    BY <1>4 DEF SendCommit, TxSafe, StageAt
  <1>6. TxSafe(p)'
    BY <1>2, <1>4, <1>5 DEF TxSafe, ScriptStands, RowStands, IdleScript, RowWithScript, StageAt,
                            Spared, OnlyRemarks
  <1>7. /\ t.eff => Unlocked(p, t.mig)
        /\ t.row => RowFree(p, t.mig)
    BY <1>2 DEF LedgerInv, ScriptLocks, Unlocked, RowLocks
  <1> HIDE DEF t
  <1> QED
    BY <1>3, <1>6, <1>7, OwnStep

\* A COMMIT writes the text of its script to the schema and to the ledger at once
\* (or clears both): the transaction in flight holds both changes.  Where the down
\* script was comments, it clears the ledger alone.
LEMMA CommitWritesBoth ==
  ASSUME TypeOK, LedgerInv, NEW p \in Invocations, Commit(p), NEW m, m = tx[p].mig
  PROVE  /\ m \in Migs
         /\ ~Spared(p) => /\ effect' = [effect EXCEPT ![m] = NewText(p)]
                          /\ ledger' = [ledger EXCEPT ![m] = NewText(p)]
         /\ Spared(p) => /\ p \in Rollbackers /\ m \in Lasting /\ effect' = effect
                         /\ \/ ledger' = ledger
                            \/ ledger' = [ledger EXCEPT ![m] = NoFile]
         /\ p \in Appliers => /\ effect[m] = NoFile /\ ledger[m] = NoRow
                              /\ NewText(p) \in Texts /\ ~Spared(p)
         /\ p \in Rollbackers => NewText(p) = NoFile
         /\ p \in Rollbackers /\ ledger' # ledger => effect[m] # NoFile /\ ledger[m] # NoRow
         /\ p \in Rollbackers /\ ~Spared(p) =>
              effect[m] # NoFile /\ ledger[m] # NoRow /\ m \notin Lasting
  <1>1. m \in Migs
    BY DEF TypeOK, Tx
  <1>2. tx[p].stage = "sent" /\ TxSafe(p)
    BY DEF Commit, LedgerInv
  <1>3. ~Spared(p) => tx[p].eff /\ tx[p].row
    BY <1>2 DEF TxSafe, RowWithScript
  <1>4. /\ Spared(p) => p \in Rollbackers /\ m \in Lasting
        /\ p \in Appliers => p \notin Rollbackers /\ ~Spared(p)
        /\ p \in Rollbackers => p \notin Appliers
    BY DEF Spared, OnlyRemarks, MigrateAssumption
  <1>5. Spared(p) => ~tx[p].eff
    BY <1>2, <1>4 DEF TxSafe, ScriptStands
  <1>6. /\ p \in Appliers => effect[m] = NoFile /\ NewText(p) \in Texts
        /\ p \in Rollbackers => NewText(p) = NoFile
        /\ p \in Rollbackers /\ ~Spared(p) => effect[m] # NoFile /\ m \notin Lasting
    BY <1>2, <1>3, <1>4 DEF TxSafe, ScriptStands, NewText, Spared, OnlyRemarks
  <1>7. /\ ledger[m] # NoRow => effect[m] # NoFile
        /\ m \notin Lasting /\ effect[m] # NoFile => ledger[m] # NoRow
    BY <1>1 DEF LedgerInv, LedgerMatchesSchema
  <1>8. /\ effect' = IF tx[p].eff THEN [effect EXCEPT ![m] = NewText(p)] ELSE effect
        /\ ledger' = IF tx[p].row THEN [ledger EXCEPT ![m] = NewText(p)] ELSE ledger
    BY DEF Commit
  <1>9. p \in Rollbackers /\ ledger' # ledger => ledger[m] # NoRow
    BY <1>2, <1>8 DEF TxSafe, RowStands
  <1> QED
    BY <1>1, <1>3, <1>4, <1>5, <1>6, <1>7, <1>8, <1>9

LEMMA CommitKeeps ==
  ASSUME ScriptsSafe, TypeOK, LedgerInv, NEW p \in Invocations, Commit(p)
  PROVE  LedgerInv'
  <1>0. PICK m : m = tx[p].mig
    OBVIOUS
  <1>1. /\ m \in Migs
        /\ ~Spared(p) => /\ effect' = [effect EXCEPT ![m] = NewText(p)]
                         /\ ledger' = [ledger EXCEPT ![m] = NewText(p)]
        /\ Spared(p) => /\ p \in Rollbackers /\ m \in Lasting /\ effect' = effect
                        /\ \/ ledger' = ledger
                           \/ ledger' = [ledger EXCEPT ![m] = NoFile]
        /\ p \in Appliers => NewText(p) \in Texts
        /\ p \in Rollbackers => NewText(p) = NoFile
    BY <1>0, CommitWritesBoth
  <1>2. NoTx.stage = "none" /\ ~NoTx.eff /\ ~NoTx.row
    BY DEF NoTx
  <1>3. tx'[p] = NoTx /\ \A q \in Invocations \ {p} : tx'[q] = tx[q] /\ pc'[q] = pc[q]
    BY DEF TypeOK, Commit, EndTx, Move
  <1>4. /\ effect' # effect => tx[p].eff
        /\ ledger' # ledger => tx[p].row
    BY DEF Commit
  <1>5. \A k \in Migs : k # m => effect'[k] = effect[k] /\ ledger'[k] = ledger[k]
    BY <1>1 DEF TypeOK, Rows
  <1>6. /\ ~Spared(p) => effect'[m] = NewText(p) /\ ledger'[m] = NewText(p)
        /\ Spared(p) => effect'[m] = effect[m] /\ ledger'[m] \in {ledger[m], NoFile}
    BY <1>1 DEF TypeOK, Rows
  <1>7. NewText(p) \in Texts \cup {NoFile} /\ NoRow = NoFile /\ NoFile \notin Texts
    BY <1>1 DEF Invocations, NoRow, NoFile, Texts
  <1>8. LedgerMatchesSchema'
    <2>1. SUFFICES ASSUME NEW k \in Migs
                   PROVE  /\ ledger'[k] # NoRow => effect'[k] # NoFile
                          /\ ledger'[k] \in Texts => ledger'[k] = effect'[k]
                          /\ k \notin Lasting /\ effect'[k] # NoFile => ledger'[k] # NoRow
      BY DEF LedgerMatchesSchema
    <2>2. /\ ledger[k] # NoRow => effect[k] # NoFile
          /\ ledger[k] \in Texts => ledger[k] = effect[k]
          /\ k \notin Lasting /\ effect[k] # NoFile => ledger[k] # NoRow
      BY DEF LedgerInv, LedgerMatchesSchema
    <2>3. CASE k # m
      BY <1>5, <2>2, <2>3
    <2>4. CASE k = m /\ ~Spared(p)
      BY <1>6, <1>7, <2>4
    <2>5. CASE k = m /\ Spared(p)
      BY <1>1, <1>6, <1>7, <2>2, <2>5
    <2> QED
      BY <2>3, <2>4, <2>5
  <1>9. NothingLost'
    <2>1. SUFFICES ASSUME Rollbackers = {}, NEW k \in Migs, effect'[k] # NoFile
                   PROVE  ledger'[k] # NoRow
      BY DEF NothingLost
    <2>2. ~Spared(p)
      BY <2>1 DEF Spared, OnlyRemarks
    <2>3. k # m => effect[k] # NoFile /\ ledger[k] # NoRow
      BY <1>5, <2>1 DEF LedgerInv, NothingLost
    <2> QED
      BY <1>5, <1>6, <1>7, <2>1, <2>2, <2>3
  <1>10. ScriptLocks' /\ RowLocks'
    BY <1>2, <1>3 DEF LedgerInv, ScriptLocks, RowLocks, RowFree
  <1>11. TxSafe(p)'
    <2>1. pc'[p] \notin {"record", "commit"}
      <3>1. tx[p].stage = "sent" /\ StageAt(p)
        BY DEF Commit, LedgerInv, TxSafe
      <3> QED
        BY <3>1 DEF Commit, Move, TypeOK, StageAt
    <2> QED
      BY <1>2, <1>3, <2>1 DEF TxSafe, ScriptStands, RowStands, IdleScript, RowWithScript, StageAt
  <1>12. ASSUME NEW q \in Invocations, q # p PROVE TxSafe(q)'
    <2>1. tx'[q] = tx[q] /\ pc'[q] = pc[q] /\ TxSafe(q) /\ tx[q].mig \in Migs
      BY <1>3, <1>12 DEF LedgerInv, TypeOK, Tx
    <2>2. Spared(q)' <=> Spared(q)
      BY <2>1 DEF Spared, OnlyRemarks
    <2>3. tx[q].eff => effect'[tx[q].mig] = effect[tx[q].mig]
      BY <1>0, <1>4, <1>5, <1>12, <2>1 DEF LedgerInv, ScriptLocks
    <2>4. tx[q].row => ledger'[tx[q].mig] = ledger[tx[q].mig]
      BY <1>0, <1>4, <1>5, <1>12, <2>1 DEF LedgerInv, RowLocks, RowFree
    <2>5. ScriptStands(q)' /\ RowStands(q)'
      BY <2>1, <2>2, <2>3, <2>4 DEF TxSafe, ScriptStands, RowStands
    <2>6. IdleScript(q)'
      <3>1. Idempotent => ~Spared(p) /\ NewText(p) # NoFile
        BY <1>1, <1>7 DEF ScriptsSafe, Invocations
      <3>2. effect[tx[q].mig] # NoFile /\ Idempotent => effect'[tx[q].mig] # NoFile
        BY <1>5, <1>6, <2>1, <3>1
      <3> QED
        BY <2>1, <2>2, <3>2 DEF TxSafe, IdleScript
    <2> QED
      BY <2>1, <2>2, <2>5, <2>6 DEF TxSafe, RowWithScript, StageAt
  <1> QED
    BY <1>8, <1>9, <1>10, <1>11, <1>12 DEF LedgerInv

LEMMA LedgerStutter ==
  ASSUME LedgerInv, UNCHANGED <<dbVars, pc, tx>>
  PROVE  LedgerInv'
  BY DEF LedgerInv, LedgerMatchesSchema, NothingLost, ScriptLocks, RowLocks, RowFree, TxSafe,
     ScriptStands, RowStands, IdleScript, RowWithScript, StageAt, Spared, OnlyRemarks, dbVars

LEMMA LedgerStep == ScriptsSafe /\ TypeOK /\ LedgerInv /\ [Next]_vars => LedgerInv'
  <1> SUFFICES ASSUME ScriptsSafe, TypeOK, LedgerInv, [Next]_vars PROVE LedgerInv'
    OBVIOUS
  <1>1. CASE DirStep \/ UNCHANGED vars
    BY <1>1, LedgerStutter DEF DirStep, vars
  <1>2. ASSUME NEW p \in Invocations, Start(p) PROVE LedgerInv'
    <2>1. /\ UNCHANGED <<dbVars, tx>>
          /\ \E step \in Steps \ {"record", "commit"} : pc' = [pc EXCEPT ![p] = step]
      BY <1>2 DEF Start, ApplyStart, RollbackStart, ReadRows, Move, Steps
    <2> QED
      BY <2>1, TxKept
  <1>3. ASSUME NEW p \in Invocations,
               \/ \E cut \in Cuts : ReadHistory(p, cut) \/ ReadPendingRows(p, cut)
               \/ CompareHistory(p) \/ ListPending(p) \/ ListRollbackable(p)
               \/ \E m \in Migs : ScriptFails(p, m)
               \/ Crash(p)
        PROVE LedgerInv'
    <2>1. /\ UNCHANGED <<dbVars, tx>>
          /\ \E step \in Steps \ {"record", "commit"} : pc' = [pc EXCEPT ![p] = step]
      BY <1>3 DEF ReadHistory, ReadPendingRows, CompareHistory, ListPending,
         ListRollbackable, ScriptFails, Crash, ReadRows, Move, Steps
    <2> QED
      BY <2>1, TxKept
  <1>4. ASSUME NEW p \in Invocations, Fail(p) PROVE LedgerInv'
    BY <1>4, TxGone, TxKept DEF Fail, Move, Steps
  <1>5. ASSUME NEW p \in Invocations, DropSession(p) PROVE LedgerInv'
    <2>1. pc' = [pc EXCEPT ![p] = pc[p]] /\ pc[p] \in Steps \ {"record", "commit"}
      BY <1>5 DEF DropSession, TypeOK, Ended, Steps
    <2> QED
      BY <1>5, <2>1, TxGone DEF DropSession
  <1>6. ASSUME NEW p \in Invocations, NEW m \in Migs, RunScript(p, m) PROVE LedgerInv'
    BY <1>6, RunScriptKeeps
  <1>7. ASSUME NEW p \in Invocations,
               InsertRow(p) \/ DeleteRow(p) \/ SendCommit(p) \/ Commit(p)
        PROVE LedgerInv'
    BY <1>7, InsertKeeps, DeleteKeeps, SendKeeps, CommitKeeps
  <1> QED
    BY <1>1, <1>2, <1>3, <1>4, <1>5, <1>6, <1>7 DEF Next, Step

\* However many invocations of apply and rollback overlap, fail or are killed, a
\* migration is recorded exactly while its objects exist, with the checksum of the
\* script that made them -- provided a script that has nothing to do fails, or
\* nothing is ever rolled back; and only a migration whose down script is comments
\* leaves objects that no row tells of.
THEOREM LedgerCorrect ==
  ASSUME ScriptsSafe
  PROVE  Spec => []LedgerMatchesSchema
  <1>1. Init => TypeOK /\ LedgerInv
    BY InitTypeOK, InitLedgerInv
  <1>2. TypeOK /\ LedgerInv /\ [Next]_vars => TypeOK' /\ LedgerInv'
    BY TypeStep, LedgerStep
  <1>3. LedgerInv => LedgerMatchesSchema
    BY DEF LedgerInv
  <1> QED
    BY <1>1, <1>2, <1>3, PTL DEF Spec

-----------------------------------------------------------------------------
(* The detailed system implements MigrationLedger: the commit of a           *)
(* transaction is the abstract step, everything else stutters.               *)

LEMMA CommitIsLedgerStep ==
  ASSUME TypeOK, LedgerInv, NEW p \in Invocations, Commit(p)
  PROVE  Ledger!Next \/ UNCHANGED <<ledger, effect>>
  <1>0. PICK m : m = tx[p].mig
    OBVIOUS
  <1>1. CASE p \in Appliers
    <2>1. NewText(p) \in Texts /\ m \in Migs
      BY <1>0, <1>1, CommitWritesBoth
    <2>2. Ledger!Apply(m, NewText(p))
      BY <1>0, <1>1, CommitWritesBoth DEF Ledger!Apply, NoRow, NoFile
    <2> QED
      BY <2>1, <2>2 DEF Ledger!Next
  <1>2. CASE p \in Rollbackers
    <2>1. m \in Migs
      BY <1>0, <1>2, CommitWritesBoth
    <2>2. CASE ~Spared(p)
      <3>1. Ledger!Rollback(m)
        BY <1>0, <1>2, <2>2, CommitWritesBoth DEF Ledger!Rollback, NoRow, NoFile
      <3> QED
        BY <2>1, <3>1 DEF Ledger!Next
    <2>3. CASE Spared(p) /\ ledger' # ledger
      <3>1. Ledger!Rollback(m)
        BY <1>0, <1>2, <2>3, CommitWritesBoth DEF Ledger!Rollback, NoRow, NoFile
      <3> QED
        BY <2>1, <3>1 DEF Ledger!Next
    <2>4. CASE Spared(p) /\ ledger' = ledger
      BY <1>0, <2>4, CommitWritesBoth
    <2> QED
      BY <2>2, <2>3, <2>4
  <1> QED
    BY <1>1, <1>2 DEF Invocations

\* Seen through the table and the schema alone, apply and rollback are the
\* indivisible steps of MigrationLedger.
THEOREM ImplementsLedger ==
  ASSUME ScriptsSafe
  PROVE  Spec => LedgerSpec
  <1>1. Init => Ledger!Init
    BY DEF Init, Ledger!Init, NoRow, NoFile
  <1>2. TypeOK /\ LedgerInv /\ [Next]_vars => [Ledger!Next]_<<ledger, effect>>
    <2> SUFFICES ASSUME TypeOK, LedgerInv, [Next]_vars
                 PROVE  Ledger!Next \/ UNCHANGED <<ledger, effect>>
      OBVIOUS
    <2>1. CASE DirStep \/ UNCHANGED vars
      BY <2>1 DEF DirStep, vars, dbVars
    <2>2. ASSUME NEW p \in Invocations,
                 Start(p) \/ Step(p) \/ Fail(p) \/ Crash(p) \/ DropSession(p)
          PROVE  Ledger!Next \/ UNCHANGED <<ledger, effect>>
      BY <2>2, OnlyCommitWrites, CommitIsLedgerStep DEF dbVars
    <2> QED
      BY <2>1, <2>2 DEF Next
  <1>3. Init => TypeOK /\ LedgerInv
    BY InitTypeOK, InitLedgerInv
  <1>4. TypeOK /\ LedgerInv /\ [Next]_vars => TypeOK' /\ LedgerInv'
    BY TypeStep, LedgerStep
  <1> QED
    BY <1>1, <1>2, <1>3, <1>4, PTL DEF Spec, LedgerSpec, Ledger!Spec

(***************************************************************************)
(* The checks of `shrugged apply`: what it runs is what shrugged.sum and   *)
(* the history vouch for, in order, as long as nobody touches the          *)
(* directory while a command runs.                                         *)
(***************************************************************************)

InvocationStep(p) == Start(p) \/ Step(p) \/ Fail(p) \/ Crash(p) \/ DropSession(p)

Reading == {"idle", "history", "compare", "pendingRows", "pendingFiles"}
Working == {"next", "record", "commit", "ack"}

\* An applier has no transaction before it has its list, and is never a rollback.
Fresh(p) ==
  /\ pc[p] # "chosen"
  /\ pc[p] \in Reading => tx[p].stage = "none"
  /\ StageAt(p)

\* What it still has to run, and what it is running, is what the files hold.
Listed(p) ==
  /\ pc[p] \in Working => \A m \in Migs : plan[p][m] \in {NoFile, dir[Up(m)]}
  /\ tx[p].stage # "none" => tx[p].text = dir[Up(tx[p].mig)] /\ tx[p].text # NoFile

\* It runs the first migration of those it still has to run.
Ordered(p) == tx[p].stage # "none" => \A k \in Migs : plan[p][k] # NoFile => tx[p].mig <= k

\* shrugged.sum was valid when it started, and nobody has touched it since.
Vouched(p) == ~opt[p].force /\ ~Quiet(p) => ValidateSum

Checked(p) == Fresh(p) /\ Listed(p) /\ Ordered(p) /\ Vouched(p)

ListInv == \A p \in Appliers : Checked(p)

-----------------------------------------------------------------------------
(* What a step of one invocation leaves alone.                               *)

\* A step of q moves nothing of what another invocation p holds.
LEMMA OthersKept ==
  ASSUME TypeOK, NEW q \in Invocations, InvocationStep(q), NEW p \in Invocations, p # q
  PROVE  /\ pc'[p] = pc[p] /\ tx'[p] = tx[p] /\ plan'[p] = plan[p]
         /\ rows'[p] = rows[p] /\ opt'[p] = opt[p]
  <1> USE DEF TypeOK, Move, Forget, ReadRows, EndTx
  <1>1. CASE Start(q)
    BY <1>1 DEF Start, ApplyStart, RollbackStart
  <1>2. CASE \E cut \in Cuts : ReadHistory(q, cut) \/ ReadPendingRows(q, cut)
    BY <1>2 DEF ReadHistory, ReadPendingRows
  <1>3. CASE CompareHistory(q) \/ ListPending(q) \/ ListRollbackable(q)
    BY <1>3 DEF CompareHistory, ListPending, ListRollbackable
  <1>4. CASE \E m \in Migs : RunScript(q, m) \/ ScriptFails(q, m)
    BY <1>4 DEF RunScript, ScriptFails
  <1>5. CASE InsertRow(q) \/ DeleteRow(q) \/ SendCommit(q)
    BY <1>5 DEF InsertRow, DeleteRow, SendCommit
  <1>6. CASE Commit(q)
    BY <1>6 DEF Commit
  <1>7. CASE Fail(q) \/ Crash(q) \/ DropSession(q)
    BY <1>7 DEF Fail, Crash, DropSession
  <1> QED
    BY <1>1, <1>2, <1>3, <1>4, <1>5, <1>6, <1>7 DEF InvocationStep, Step

\* The ledger changes at commits only: a rollback clears a row, an apply records
\* the text it ran.
LEMMA LedgerChange ==
  ASSUME TypeOK, NEW q \in Invocations, InvocationStep(q), NEW m \in Migs
  PROVE  \/ ledger'[m] = ledger[m]
         \/ q \in Rollbackers /\ ledger'[m] = NoRow
         \/ /\ q \in Appliers /\ tx[q].stage = "sent"
            /\ m = tx[q].mig /\ ledger'[m] = tx[q].text
  <1>1. CASE UNCHANGED dbVars
    BY <1>1 DEF dbVars
  <1>2. CASE Commit(q)
    BY <1>2 DEF Commit, NewText, NoFile, NoRow, TypeOK, Rows, Invocations
  <1> QED
    BY <1>1, <1>2, OnlyCommitWrites DEF InvocationStep

-----------------------------------------------------------------------------
(* ListInv is inductive.                                                     *)

LEMMA InitListInv == Init => ListInv
  <1> SUFFICES ASSUME Init, NEW p \in Appliers
               PROVE  Checked(p)
    BY DEF ListInv
  <1>1. pc[p] = "idle" /\ tx[p].stage = "none"
    BY DEF Init, NoTx, Invocations
  <1> QED
    BY <1>1 DEF Checked, Fresh, StageAt, Listed, Ordered, Vouched, Quiet, Active, Working

\* While the directory changes every invocation is quiet.
LEMMA ListDirStep ==
  ASSUME LiveEdits = FALSE, ListInv, DirStep
  PROVE  ListInv'
  <1> SUFFICES ASSUME NEW p \in Appliers
               PROVE  Checked(p)'
    BY DEF ListInv
  <1>1. Quiet(p) /\ UNCHANGED <<pc, tx, plan, opt>>
    BY DEF DirStep, Invocations
  <1> QED
    BY <1>1 DEF ListInv, Checked, Fresh, StageAt, Listed, Ordered, Vouched, Quiet, Active,
       Working, Ended

LEMMA ListStutter ==
  ASSUME ListInv, NEW p \in Appliers, UNCHANGED dirVars,
         pc'[p] = pc[p], tx'[p] = tx[p], plan'[p] = plan[p], opt'[p] = opt[p]
  PROVE  Checked(p)'
  BY DEF ListInv, Checked, Fresh, StageAt, Listed, Ordered, Vouched, Quiet, Active,
     ValidateSum, dirVars

\* Before the list is there nothing depends on it.
LEMMA ListReading ==
  ASSUME TypeOK, ListInv, NEW p \in Appliers, UNCHANGED <<dirVars, tx>>,
         pc[p] \in Reading, pc'[p] \notin Working \cup {"chosen"},
         ~opt'[p].force /\ Active(p)' => ValidateSum
  PROVE  Checked(p)'
  <1>1. tx[p].stage = "none" /\ tx'[p] = tx[p]
    BY DEF ListInv, Checked, Fresh
  <1> QED
    BY <1>1 DEF Checked, Fresh, StageAt, Listed, Ordered, Vouched, Quiet, Active,
       Working, Reading, ValidateSum, dirVars

\* An ending invocation keeps its transaction, or loses it.
LEMMA ListEnding ==
  ASSUME ListInv, NEW p \in Appliers, UNCHANGED <<dirVars, plan, opt>>,
         ~Quiet(p), pc'[p] \in Ended, tx'[p] = tx[p] \/ tx'[p] = NoTx
  PROVE  Checked(p)'
  <1>1. NoTx.stage = "none"
    BY DEF NoTx
  <1>2. ValidateSum' <=> ValidateSum
    BY DEF ValidateSum, dirVars
  <1>3. dir' = dir
    BY DEF dirVars
  <1>4. Fresh(p) /\ Listed(p) /\ Ordered(p) /\ Vouched(p)
    BY DEF ListInv, Checked
  <1>5. (Fresh(p) /\ Vouched(p))'
    BY <1>1, <1>2, <1>4 DEF Fresh, StageAt, Vouched, Quiet, Ended, Reading
  <1>6. (Listed(p) /\ Ordered(p))'
    BY <1>1, <1>3, <1>4 DEF Listed, Ordered, Ended, Working
  <1> QED
    BY <1>5, <1>6 DEF Checked

\* A running transaction writes its row, then sends its COMMIT.
LEMMA ListAdvances ==
  ASSUME ListInv, NEW p \in Appliers, UNCHANGED <<dirVars, plan, opt>>,
         pc[p] \in Working, pc'[p] \in Working, tx[p].stage # "none",
         tx'[p].text = tx[p].text, tx'[p].mig = tx[p].mig, StageAt(p)'
  PROVE  Checked(p)'
  <1>1. ValidateSum' <=> ValidateSum
    BY DEF ValidateSum, dirVars
  <1>2. dir' = dir
    BY DEF dirVars
  <1> QED
    BY <1>1, <1>2 DEF ListInv, Checked, Fresh, Listed, Ordered, Vouched, Quiet, Active,
       Reading, Working, Ended

LEMMA ListOwnStep ==
  ASSUME TypeOK, ListInv, NEW p \in Appliers, InvocationStep(p)
  PROVE  Checked(p)'
  <1>1. p \in Invocations /\ p \notin Rollbackers
    BY MigrateAssumption DEF Invocations
  <1>2. UNCHANGED dirVars
    BY <1>1, InvocationKeepsDir DEF InvocationStep
  <1>3. Fresh(p) /\ Listed(p) /\ Ordered(p) /\ Vouched(p)
    BY DEF ListInv, Checked
  <1>4. NoTx.stage = "none"
    BY DEF NoTx
  <1>5. ASSUME NEW force \in BOOLEAN, NEW dry \in BOOLEAN, ApplyStart(p, force, dry)
        PROVE Checked(p)'
    <2>1. opt'[p].force = force
      BY <1>1, <1>5 DEF ApplyStart, TypeOK, Options
    <2>2. /\ pc[p] = "idle" /\ tx' = tx
          /\ pc'[p] = IF ValidateSum \/ force THEN "history" ELSE "failed"
      BY <1>1, <1>5 DEF ApplyStart, Move, TypeOK
    <2> QED
      BY <1>2, <2>1, <2>2, ListReading DEF Reading, Working, Active, Ended
  <1>6. CASE \/ \E cut \in Cuts : ReadHistory(p, cut) \/ ReadPendingRows(p, cut)
             \/ CompareHistory(p)
    <2>1. /\ pc[p] \in {"history", "compare", "pendingRows"} /\ UNCHANGED <<tx, opt>>
          /\ pc'[p] \in {"compare", "pendingRows", "pendingFiles", "failed"}
      BY <1>1, <1>6 DEF ReadHistory, ReadPendingRows, CompareHistory, ReadRows, Move, TypeOK
    <2>2. ~opt'[p].force => ValidateSum
      BY <1>3, <2>1 DEF Vouched, Quiet, Active, Ended
    <2> QED
      BY <1>2, <2>1, <2>2, ListReading DEF Reading, Working
  <1>7. CASE ListPending(p)
    <2>1. /\ pc[p] = "pendingFiles" /\ UNCHANGED <<tx, opt>>
          /\ pc'[p] \in {"done", "next"} /\ plan'[p] = PendingOf(p)
      BY <1>1, <1>7 DEF ListPending, Move, TypeOK
    <2>2. tx'[p].stage = "none"
      BY <1>3, <2>1 DEF Fresh, Reading
    <2>3. \A m \in Migs : plan'[p][m] \in {NoFile, dir'[Up(m)]}
      BY <1>2, <2>1 DEF PendingOf, dirVars
    <2>4. Vouched(p)'
      BY <1>2, <1>3, <2>1, <2>2 DEF Vouched, Quiet, Active, Ended, ValidateSum, dirVars
    <2>5. Fresh(p)'
      BY <2>1, <2>2 DEF Fresh, StageAt
    <2> QED
      BY <2>2, <2>3, <2>4, <2>5 DEF Checked, Listed, Ordered
  <1>8. CASE ListRollbackable(p)
    BY <1>3, <1>8 DEF ListRollbackable, Fresh
  <1>9. ASSUME NEW m \in Migs, RunScript(p, m) PROVE Checked(p)'
    <2> DEFINE t == Begun(p, m, HasWork(p, m))
    <2>1. t.stage = "ran" /\ t.mig = m /\ t.text = plan[p][m]
      BY DEF Begun
    <2>2. /\ pc[p] = "next" /\ IsNext(p, m)
          /\ pc'[p] = "record" /\ tx'[p] = t /\ UNCHANGED <<plan, opt>>
      BY <1>1, <1>9 DEF RunScript, Turn, Move, TypeOK
    <2> HIDE DEF t
    <2>3. plan[p][m] = dir[Up(m)] /\ plan[p][m] # NoFile
      BY <1>3, <2>2 DEF Listed, Working, IsNext, Remaining
    <2>4. dir' = dir /\ (ValidateSum' <=> ValidateSum)
      BY <1>2 DEF dirVars, ValidateSum
    <2>5. Fresh(p)'
      BY <2>1, <2>2 DEF Fresh, StageAt, Reading
    <2>6. Listed(p)'
      BY <1>3, <2>1, <2>2, <2>3, <2>4 DEF Listed, Working
    <2>7. Ordered(p)'
      BY <1>1, <2>1, <2>2 DEF Ordered, IsNext, Remaining
    <2>8. Vouched(p)'
      BY <1>3, <2>2, <2>4 DEF Vouched, Quiet, Active, Ended
    <2> QED
      BY <2>5, <2>6, <2>7, <2>8 DEF Checked
  <1>10. CASE \/ \E m \in Migs : ScriptFails(p, m)
              \/ (InsertRow(p) /\ ledger[tx[p].mig] # NoRow)
              \/ Fail(p) \/ Crash(p) \/ DropSession(p)
    <2>1. pc'[p] \in Ended /\ (tx'[p] = tx[p] \/ tx'[p] = NoTx) /\ UNCHANGED <<plan, opt>>
      BY <1>1, <1>10 DEF ScriptFails, InsertRow, Fail, Crash, DropSession, Move, EndTx,
         Ended, TypeOK
    <2>2. ~Quiet(p)
      BY <1>10 DEF ScriptFails, Turn, InsertRow, Fail, Crash, DropSession, Quiet, Active, Ended
    <2> QED
      BY <1>2, <2>1, <2>2, ListEnding
  <1>11. CASE (InsertRow(p) /\ ledger[tx[p].mig] = NoRow) \/ SendCommit(p)
    <2>1. tx[p] \in Tx
      BY <1>1 DEF TypeOK
    <2>2. /\ pc[p] \in {"record", "commit"}
          /\ \/ pc'[p] = "commit" /\ tx'[p] = [tx[p] EXCEPT !.row = TRUE, !.stage = "wrote"]
             \/ pc'[p] = "ack" /\ tx'[p] = [tx[p] EXCEPT !.stage = "sent"]
          /\ UNCHANGED <<plan, opt>>
      BY <1>1, <1>11 DEF InsertRow, SendCommit, Move, TypeOK
    <2>3. tx'[p].text = tx[p].text /\ tx'[p].mig = tx[p].mig
      BY <2>1, <2>2 DEF Tx
    <2>4. StageAt(p)'
      BY <2>1, <2>2 DEF Tx, StageAt
    <2>5. tx[p].stage # "none"
      BY <1>3, <2>2 DEF Fresh, StageAt
    <2> QED
      BY <1>2, <2>2, <2>3, <2>4, <2>5, ListAdvances DEF Working
  <1>12. CASE DeleteRow(p)
    BY <1>1, <1>12 DEF DeleteRow
  <1>13. CASE Commit(p)
    <2>1. tx[p].stage = "sent" /\ tx'[p] = NoTx /\ UNCHANGED opt
      BY <1>1, <1>13 DEF Commit, EndTx, TypeOK
    <2>2. pc[p] \notin {"record", "commit"} \cup Reading
      BY <1>3, <2>1 DEF Fresh, StageAt
    <2>3. \/ pc[p] = "ack" /\ pc'[p] \in {"done", "next"}
          \/ pc'[p] = pc[p] /\ plan' = plan
      BY <1>1, <1>13 DEF Commit, Move, TypeOK
    <2>5. \A k \in Migs : plan'[p][k] \in {NoFile, plan[p][k]}
      BY <1>1, <1>13 DEF Commit, TypeOK
    <2>6. dir' = dir /\ (ValidateSum' <=> ValidateSum)
      BY <1>2 DEF dirVars, ValidateSum
    <2>7. Fresh(p)'
      BY <1>3, <1>4, <2>1, <2>2, <2>3 DEF Fresh, StageAt, Reading
    <2>8. tx'[p].stage = "none"
      BY <1>4, <2>1
    <2>9. Listed(p)'
      <3>1. pc'[p] \in Working => pc[p] \in Working
        BY <2>3 DEF Working
      <3> QED
        BY <1>3, <2>5, <2>6, <2>8, <3>1 DEF Listed
    <2>10. Ordered(p)'
      BY <2>8 DEF Ordered
    <2>11. Vouched(p)'
      BY <1>3, <2>1, <2>6 DEF Vouched, Quiet
    <2> QED
      BY <2>7, <2>9, <2>10, <2>11 DEF Checked
  <1> QED
    BY <1>1, <1>5, <1>6, <1>7, <1>8, <1>9, <1>10, <1>11, <1>12, <1>13
    DEF InvocationStep, Start, Step

LEMMA ListStep ==
  ASSUME LiveEdits = FALSE
  PROVE  TypeOK /\ ListInv /\ [Next]_vars => ListInv'
  <1> SUFFICES ASSUME TypeOK, ListInv, [Next]_vars PROVE ListInv'
    OBVIOUS
  <1>1. CASE DirStep
    BY <1>1, ListDirStep
  <1>2. CASE UNCHANGED vars
    <2> SUFFICES ASSUME NEW p \in Appliers
                 PROVE  Checked(p)'
      BY DEF ListInv
    <2> QED
      BY <1>2, ListStutter DEF vars
  <1>3. ASSUME NEW q \in Invocations, InvocationStep(q) PROVE ListInv'
    <2> SUFFICES ASSUME NEW p \in Appliers
                 PROVE  Checked(p)'
      BY DEF ListInv
    <2>1. CASE p = q
      BY <1>3, <2>1, ListOwnStep
    <2>2. CASE p # q
      <3>1. UNCHANGED dirVars
        BY <1>3, InvocationKeepsDir DEF InvocationStep
      <3> QED
        BY <1>3, <2>2, <3>1, OthersKept, ListStutter DEF Invocations
    <2> QED
      BY <2>1, <2>2
  <1> QED
    BY <1>1, <1>2, <1>3 DEF Next, InvocationStep

LEMMA ListAlways ==
  ASSUME LiveEdits = FALSE
  PROVE  Spec => [](TypeOK /\ ListInv)
  <1>1. Init => TypeOK /\ ListInv
    BY InitTypeOK, InitListInv
  <1>2. TypeOK /\ ListInv /\ [Next]_vars => TypeOK' /\ ListInv'
    BY TypeStep, ListStep
  <1> QED
    BY <1>1, <1>2, PTL DEF Spec

\* With nobody touching the directory while a command runs, an apply without
\* --force runs no text that a complete shrugged.sum contradicts, although it
\* reads each file long after it has compared them (apply.go:30-35).
THEOREM SumIsHonoured ==
  ASSUME LiveEdits = FALSE
  PROVE  Spec => []AppliedTextMatchesSum
  <1>1. TypeOK /\ ListInv => AppliedTextMatchesSum
    <2> SUFFICES ASSUME TypeOK, ListInv, NEW p \in Appliers,
                        tx[p].stage # "none", ~opt[p].force, sum.state = "full",
                        sum.entry[Up(tx[p].mig)] # NoFile
                 PROVE  tx[p].text = sum.entry[Up(tx[p].mig)]
      BY DEF AppliedTextMatchesSum
    <2>1. tx[p].text = dir[Up(tx[p].mig)] /\ tx[p].text # NoFile
      BY DEF ListInv, Checked, Listed
    <2>2. ValidateSum
      BY DEF ListInv, Checked, Vouched, Quiet
    <2>3. Up(tx[p].mig) \in Files
      BY DEF TypeOK, Tx, Invocations, Files, Up
    <2> QED
      BY <2>1, <2>2, <2>3 DEF ValidateSum
  <1> QED
    BY <1>1, ListAlways, PTL

-----------------------------------------------------------------------------
(* An apply runs only on the history it has compared.                        *)

\* Only migrations recorded before there were checksums have none.
Checksums == \A m \in Migs : ledger[m] = NoChecksum => m \in Legacy

\* The invocation has compared the history, or runs on the result.
Past(p) ==
  pc[p] \in {"pendingRows", "pendingFiles"} \cup Working \/ tx[p].stage # "none"

\* Without --force: what it has read is still what is recorded, or what was recorded
\* since is the text of the file; and so, once compared, is everything recorded.
Compared(p) ==
  /\ ~opt[p].force /\ pc[p] = "compare" =>
       \A m \in Present(ledger) \ Legacy : ledger[m] \in {rows[p][m], dir[Up(m)]}
  /\ ~opt[p].force /\ Past(p) =>
       \A m \in Present(ledger) \ Legacy : ledger[m] = dir[Up(m)]

HistoryInv == Checksums /\ \A p \in Appliers : Compared(p)

\* What any invocation records is the text of a file.
LEMMA LedgerFromFiles ==
  ASSUME TypeOK, ListInv, NEW q \in Invocations, InvocationStep(q), NEW m \in Migs
  PROVE  /\ ledger'[m] \in {ledger[m], NoRow, dir[Up(m)]}
         /\ ledger'[m] = NoChecksum => ledger[m] = NoChecksum
  <1>1. CASE ledger'[m] = ledger[m] \/ ledger'[m] = NoRow
    BY <1>1 DEF NoRow, NoChecksum
  <1>2. CASE /\ q \in Appliers /\ tx[q].stage = "sent"
             /\ m = tx[q].mig /\ ledger'[m] = tx[q].text
    <2>1. tx[q].text = dir[Up(m)] /\ tx[q].text # NoFile
      BY <1>2 DEF ListInv, Checked, Listed
    <2>2. tx[q].text \in Texts
      BY <2>1 DEF TypeOK, Tx
    <2> QED
      BY <1>2, <2>1, <2>2 DEF Texts, NoChecksum
  <1> QED
    BY <1>1, <1>2, LedgerChange

\* How an apply comes to compare the history, and gets past that.
LEMMA AppliersAdvance ==
  ASSUME TypeOK, ListInv, NEW p \in Appliers, InvocationStep(p)
  PROVE  \/ \E cut \in Cuts : ReadHistory(p, cut)
         \/ CompareHistory(p)
         \/ pc'[p] # "compare" /\ (Past(p)' => Past(p) /\ opt'[p] = opt[p])
  <1> USE DEF TypeOK, Move
  <1>1. p \in Invocations /\ p \notin Rollbackers
    BY MigrateAssumption DEF Invocations
  <1>2. Fresh(p)
    BY DEF ListInv, Checked
  <1>3. NoTx.stage = "none"
    BY DEF NoTx
  <1>4. CASE Start(p)
    <2>1. pc[p] = "idle" /\ tx' = tx /\ pc'[p] \in {"history", "failed"}
      BY <1>1, <1>4 DEF Start, ApplyStart
    <2> QED
      BY <1>2, <2>1 DEF Fresh, Reading, Past, Working
  <1>5. CASE \/ \E cut \in Cuts : ReadPendingRows(p, cut)
             \/ ListPending(p)
             \/ \E m \in Migs : RunScript(p, m) \/ ScriptFails(p, m)
    <2>1. /\ pc[p] \in {"pendingRows", "pendingFiles", "next"} /\ opt' = opt
          /\ pc'[p] \in {"pendingFiles", "next", "record", "done", "failed"}
      BY <1>1, <1>5 DEF ReadPendingRows, ListPending, RunScript, ScriptFails, Turn, Move, ReadRows
    <2> QED
      BY <2>1 DEF Past, Working
  <1>6. CASE ListRollbackable(p)
    BY <1>2, <1>6 DEF ListRollbackable, Fresh
  <1>7. CASE InsertRow(p) \/ DeleteRow(p) \/ SendCommit(p)
    <2>1. /\ pc[p] \in {"record", "commit"} /\ opt' = opt
          /\ pc'[p] \in {"commit", "ack", "failed"}
      BY <1>1, <1>7 DEF InsertRow, DeleteRow, SendCommit
    <2> QED
      BY <2>1 DEF Past, Working
  <1>8. CASE Commit(p)
    <2>1. tx[p].stage = "sent" /\ opt' = opt /\ pc'[p] \in {"done", "next", pc[p]}
      BY <1>1, <1>8 DEF Commit
    <2> QED
      BY <1>2, <2>1 DEF Past, Fresh, Reading
  <1>9. CASE Fail(p) \/ Crash(p) \/ DropSession(p)
    <2>1. /\ pc'[p] \in Ended /\ opt' = opt
          /\ tx'[p] \in {tx[p], NoTx}
      BY <1>1, <1>9 DEF Fail, Crash, DropSession, EndTx, Ended
    <2> QED
      BY <1>3, <2>1 DEF Past, Working, Ended
  <1> QED
    BY <1>4, <1>5, <1>6, <1>7, <1>8, <1>9 DEF InvocationStep, Step

\* A history that was compared stays good, whoever records something.
LEMMA ComparedStays ==
  ASSUME TypeOK, ListInv, HistoryInv, NEW q \in Invocations, InvocationStep(q),
         NEW p \in Appliers, opt'[p] = opt[p],
         pc'[p] = "compare" => pc[p] = "compare" /\ rows'[p] = rows[p],
         Past(p)' => Past(p)
  PROVE  Compared(p)'
  <1>1. dir' = dir
    BY InvocationKeepsDir DEF InvocationStep, dirVars
  <1>2. \A m \in Migs : ledger'[m] \in {ledger[m], NoRow, dir[Up(m)]}
    BY LedgerFromFiles
  <1> QED
    BY <1>1, <1>2 DEF HistoryInv, Compared, Present

LEMMA ComparedOwnStep ==
  ASSUME Lossy = FALSE, TypeOK, ListInv, HistoryInv, NEW p \in Appliers, InvocationStep(p)
  PROVE  Compared(p)'
  <1>1. p \in Invocations
    BY DEF Invocations
  <1>2. dir' = dir
    BY <1>1, InvocationKeepsDir DEF InvocationStep, dirVars
  <1>3. Fresh(p)
    BY DEF ListInv, Checked
  <1>4. ASSUME NEW cut \in Cuts, ReadHistory(p, cut) PROVE Compared(p)'
    <2>1. cut = {}
      BY DEF Cuts
    <2>2. /\ pc[p] = "history" /\ pc'[p] = "compare" /\ ledger' = ledger /\ tx' = tx
          /\ \A m \in Migs : rows'[p][m] = ledger[m]
      BY <1>1, <1>4, <2>1 DEF ReadHistory, ReadRows, Move, TypeOK, dbVars
    <2>3. ~Past(p)'
      BY <1>3, <2>2 DEF Past, Fresh, Reading, Working
    <2> QED
      BY <2>2, <2>3 DEF Compared, Present
  <1>5. CASE CompareHistory(p)
    <2>1. /\ pc[p] = "compare" /\ UNCHANGED <<ledger, opt, tx>>
          /\ pc'[p] = IF ModifiedOf(p) # {} /\ ~opt[p].force THEN "failed" ELSE "pendingRows"
      BY <1>1, <1>5 DEF CompareHistory, Move, TypeOK, dbVars
    <2>2. Past(p)' /\ ~opt[p].force => ModifiedOf(p) = {}
      BY <1>3, <2>1 DEF Past, Fresh, Reading, Working
    <2>3. ASSUME ~opt[p].force, ModifiedOf(p) = {}, NEW m \in Present(ledger) \ Legacy
          PROVE  ledger[m] = dir[Up(m)]
      <3>1. m \in Migs /\ ledger[m] \notin {NoRow, NoChecksum}
        BY <2>3 DEF Present, HistoryInv, Checksums
      <3>2. ledger[m] \in {rows[p][m], dir[Up(m)]}
        BY <2>1, <2>3 DEF HistoryInv, Compared
      <3>3. rows[p][m] \in {NoRow, NoChecksum, dir[Up(m)]}
        BY <2>3, <3>1 DEF ModifiedOf, Present
      <3> QED
        BY <3>1, <3>2, <3>3
    <2> QED
      BY <1>2, <2>1, <2>2, <2>3 DEF Compared, Present
  <1>6. CASE pc'[p] # "compare" /\ (Past(p)' => Past(p) /\ opt'[p] = opt[p])
    <2>1. CASE Past(p)'
      BY <1>1, <1>6, <2>1, ComparedStays
    <2>2. CASE ~Past(p)'
      BY <1>6, <2>2 DEF Compared
    <2> QED
      BY <2>1, <2>2
  <1> QED
    BY <1>4, <1>5, <1>6, AppliersAdvance

LEMMA HistoryStep ==
  ASSUME LiveEdits = FALSE, Lossy = FALSE
  PROVE  TypeOK /\ ListInv /\ HistoryInv /\ [Next]_vars => HistoryInv'
  <1> SUFFICES ASSUME TypeOK, ListInv, HistoryInv, [Next]_vars PROVE HistoryInv'
    OBVIOUS
  <1>1. CASE DirStep
    <2>1. /\ UNCHANGED <<ledger, pc, tx>>
          /\ \A p \in Appliers : Quiet(p)
      BY <1>1 DEF DirStep, dbVars, Invocations
    <2> QED
      BY <2>1 DEF HistoryInv, Checksums, Compared, Past, Quiet, Active, Ended, Working
  <1>2. CASE UNCHANGED vars
    BY <1>2 DEF vars, dirVars, dbVars, HistoryInv, Checksums, Compared, Past, Present
  <1>3. ASSUME NEW q \in Invocations, InvocationStep(q) PROVE HistoryInv'
    <2>1. Checksums'
      BY <1>3, LedgerFromFiles DEF HistoryInv, Checksums
    <2>2. ASSUME NEW p \in Appliers PROVE Compared(p)'
      <3>1. CASE p = q
        BY <1>3, <3>1, ComparedOwnStep
      <3>2. CASE p # q
        <4>1. /\ pc'[p] = pc[p] /\ tx'[p] = tx[p]
              /\ rows'[p] = rows[p] /\ opt'[p] = opt[p]
          BY <1>3, <3>2, OthersKept DEF Invocations
        <4> QED
          BY <1>3, <4>1, ComparedStays DEF Past
      <3> QED
        BY <3>1, <3>2
    <2> QED
      BY <2>1, <2>2 DEF HistoryInv
  <1> QED
    BY <1>1, <1>2, <1>3 DEF Next, InvocationStep

LEMMA InitHistoryInv == Init => HistoryInv
  <1> SUFFICES ASSUME Init PROVE HistoryInv
    OBVIOUS
  <1>1. Checksums
    BY DEF Init, Checksums, NoRow, NoChecksum
  <1>2. \A p \in Appliers : pc[p] = "idle" /\ tx[p].stage = "none"
    BY DEF Init, NoTx, Invocations
  <1> QED
    BY <1>1, <1>2 DEF HistoryInv, Compared, Past, Working

\* With nobody touching the directory while a command runs, and no connection that
\* breaks while the history is read, an apply without --force runs only while every
\* recorded checksum is that of its file: other invocations may record and remove
\* migrations between its comparison and its transactions (apply.go:37-52).
THEOREM HistoryIsHonoured ==
  ASSUME LiveEdits = FALSE, Lossy = FALSE
  PROVE  Spec => []HistoryUnmodified
  <1>1. Init => HistoryInv
    BY InitHistoryInv
  <1>2. TypeOK /\ ListInv /\ HistoryInv /\ [Next]_vars => HistoryInv'
    BY HistoryStep
  <1>3. HistoryInv => HistoryUnmodified
    BY DEF HistoryInv, Compared, Past, HistoryUnmodified
  <1> QED
    BY <1>1, <1>2, <1>3, ListAlways, PTL DEF Spec

-----------------------------------------------------------------------------
(* Migrations are applied in order.                                          *)

\* What the second reading of the history found is still recorded, and what an
\* apply does not have on its list is recorded.
Complete(p) ==
  /\ pc[p] = "pendingFiles" => Present(rows[p]) \subseteq Present(ledger)
  /\ pc[p] \in Working \/ tx[p].stage # "none" =>
       \A k \in Migs : dir[Up(k)] # NoFile => k \in Remaining(p) \cup Present(ledger)

OrderInv == \A p \in Appliers : Complete(p)

\* An apply loses nothing that is recorded.
LEMMA LedgerGrows ==
  ASSUME TypeOK, ListInv, NEW q \in Appliers, InvocationStep(q)
  PROVE  Present(ledger) \subseteq Present(ledger')
  <1> SUFFICES ASSUME NEW m \in Migs, ledger[m] # NoRow PROVE ledger'[m] # NoRow
    BY DEF Present
  <1>1. ASSUME tx[q].stage = "sent" PROVE tx[q].text # NoRow
    BY <1>1 DEF ListInv, Checked, Listed, NoFile, NoRow
  <1> QED
    BY <1>1, LedgerChange, MigrateAssumption DEF Invocations

LEMMA CompleteStays ==
  ASSUME NEW p \in Appliers, Complete(p), UNCHANGED dirVars,
         Present(ledger) \subseteq Present(ledger'),
         plan'[p] = plan[p],
         pc'[p] = "pendingFiles" => pc[p] = "pendingFiles" /\ rows'[p] = rows[p],
         pc'[p] \in Working \/ tx'[p].stage # "none" =>
           pc[p] \in Working \/ tx[p].stage # "none"
  PROVE  Complete(p)'
  <1>1. dir' = dir
    BY DEF dirVars
  <1>2. Remaining(p)' = Remaining(p)
    BY DEF Remaining
  <1>3. pc'[p] = "pendingFiles" => Present(rows[p])' = Present(rows[p])
    BY DEF Present
  <1>4. Present(ledger)' = Present(ledger')
    BY DEF Present
  <1> QED
    BY <1>1, <1>2, <1>3, <1>4 DEF Complete

LEMMA CompleteOwnStep ==
  ASSUME TypeOK, LedgerInv, ListInv, NEW p \in Appliers, InvocationStep(p), Complete(p)
  PROVE  Complete(p)'
  <1> USE DEF TypeOK, Move
  <1>1. p \in Invocations /\ p \notin Rollbackers
    BY MigrateAssumption DEF Invocations
  <1>2. UNCHANGED dirVars /\ dir' = dir
    BY <1>1, InvocationKeepsDir DEF InvocationStep, dirVars
  <1>3. Present(ledger) \subseteq Present(ledger')
    BY <1>1, LedgerGrows
  <1>4. Fresh(p) /\ Complete(p)
    BY DEF ListInv, Checked
  <1>5. NoTx.stage = "none"
    BY DEF NoTx
  <1>6. CASE \/ Start(p) \/ CompareHistory(p)
             \/ \E cut \in Cuts : ReadHistory(p, cut)
    <2>1. /\ pc[p] \in Reading /\ tx' = tx /\ plan' = plan
          /\ pc'[p] \in {"history", "compare", "pendingRows", "failed"}
      BY <1>1, <1>6 DEF Start, ApplyStart, CompareHistory, ReadHistory, ReadRows, Reading
    <2> QED
      BY <1>2, <1>3, <1>4, <2>1, CompleteStays DEF Fresh, Working
  <1>7. ASSUME NEW cut \in Cuts, ReadPendingRows(p, cut) PROVE Complete(p)'
    <2>1. /\ pc[p] = "pendingRows" /\ pc'[p] = "pendingFiles" /\ tx' = tx
          /\ ledger' = ledger
          /\ \A m \in Migs : rows'[p][m] \in {NoRow, ledger[m]}
      BY <1>1, <1>7 DEF ReadPendingRows, ReadRows, dbVars
    <2> QED
      BY <1>4, <2>1 DEF Complete, Fresh, Reading, Working, Present
  <1>8. CASE ListPending(p)
    <2>1. /\ pc[p] = "pendingFiles" /\ pc'[p] \in {"done", "next"}
          /\ plan'[p] = PendingOf(p) /\ ledger' = ledger
      BY <1>1, <1>8 DEF ListPending, dbVars
    <2>2. ASSUME NEW k \in Migs, dir[Up(k)] # NoFile, k \notin Present(ledger)
          PROVE  plan'[p][k] # NoFile
      <3>1. rows[p][k] = NoRow
        BY <1>4, <2>1, <2>2 DEF Complete, Present
      <3> QED
        BY <2>1, <2>2, <3>1 DEF PendingOf
    <2> QED
      BY <1>2, <2>1, <2>2 DEF Complete, Remaining, Present
  <1>9. CASE ListRollbackable(p)
    BY <1>4, <1>9 DEF ListRollbackable, Fresh
  <1>10. CASE \/ \E m \in Migs : RunScript(p, m) \/ ScriptFails(p, m)
              \/ InsertRow(p) \/ DeleteRow(p) \/ SendCommit(p)
    <2>1. pc[p] \in Working /\ pc'[p] # "pendingFiles" /\ plan' = plan
      BY <1>1, <1>10 DEF RunScript, ScriptFails, Turn, InsertRow, DeleteRow, SendCommit, Working
    <2> QED
      BY <1>2, <1>3, <1>4, <2>1, CompleteStays
  <1>11. CASE Commit(p)
    <2>1. /\ tx[p].stage = "sent" /\ tx[p].mig \in Migs
          /\ \A k \in Migs \ {tx[p].mig} : plan'[p][k] = plan[p][k]
      BY <1>1, <1>11 DEF Commit, Tx
    <2>2. tx[p].mig \in Present(ledger')
      BY <1>1, <1>11, <2>1, CommitWritesBoth DEF Present, Rows, Texts, NoRow
    <2>3. pc'[p] # "pendingFiles"
      BY <1>1, <1>4, <1>11, <2>1 DEF Commit, Fresh, Reading
    <2>4. \A k \in Migs : dir[Up(k)] # NoFile => k \in Remaining(p) \cup Present(ledger)
      BY <1>4, <2>1 DEF Complete
    <2>5. \A k \in Remaining(p) : k \in Remaining(p)' \/ k = tx[p].mig
      BY <2>1 DEF Remaining
    <2>6. Present(ledger)' = Present(ledger')
      BY DEF Present
    <2> QED
      BY <1>2, <1>3, <2>2, <2>3, <2>4, <2>5, <2>6 DEF Complete
  <1>12. CASE Fail(p) \/ Crash(p) \/ DropSession(p)
    <2>1. /\ pc'[p] \in Ended /\ plan' = plan
          /\ tx'[p] \in {tx[p], NoTx}
      BY <1>1, <1>12 DEF Fail, Crash, DropSession, EndTx, Ended
    <2> QED
      BY <1>2, <1>3, <1>4, <1>5, <2>1, CompleteStays DEF Working, Ended
  <1> QED
    BY <1>6, <1>7, <1>8, <1>9, <1>10, <1>11, <1>12 DEF InvocationStep, Step

\* While the directory changes no apply has a list.
LEMMA OrderDirStep == ASSUME LiveEdits = FALSE, OrderInv, DirStep PROVE OrderInv'
  <1> SUFFICES ASSUME NEW p \in Appliers PROVE Complete(p)'
    BY DEF OrderInv
  <1>1. UNCHANGED <<ledger, pc, rows, plan, tx>> /\ Quiet(p)
    BY DEF DirStep, dbVars, Invocations
  <1> QED
    BY <1>1 DEF OrderInv, Complete, Quiet, Active, Ended, Working, Present

\* The first of a list that holds all that is not recorded comes next.
LEMMA InOrderThen == ASSUME TypeOK, ListInv, OrderInv PROVE AppliedInOrder
  <1> SUFFICES ASSUME NEW p \in Appliers, tx[p].stage # "none",
                      NEW k \in Migs, k < tx[p].mig, dir[Up(k)] # NoFile
               PROVE  ledger[k] # NoRow
    BY DEF AppliedInOrder
  <1>1. k \in Remaining(p) \/ ledger[k] # NoRow
    BY DEF OrderInv, Complete, Present
  <1>2. k \in Remaining(p) => tx[p].mig <= k
    BY DEF ListInv, Checked, Ordered, Remaining
  <1>3. k \in Nat /\ tx[p].mig \in Nat
    BY DirAssumption DEF TypeOK, Tx, Invocations
  <1> QED
    BY <1>1, <1>2, <1>3

LEMMA OrderStep ==
  ASSUME Rollbackers = {}, LiveEdits = FALSE
  PROVE  TypeOK /\ LedgerInv /\ ListInv /\ OrderInv /\ [Next]_vars => OrderInv'
  <1> SUFFICES ASSUME TypeOK, LedgerInv, ListInv, OrderInv, [Next]_vars,
                      NEW p \in Appliers
               PROVE  Complete(p)'
    BY DEF OrderInv
  <1>1. CASE DirStep
    BY <1>1, OrderDirStep DEF OrderInv
  <1>2. CASE UNCHANGED vars
    BY <1>2 DEF vars, dirVars, dbVars, OrderInv, Complete, Present, Remaining
  <1>3. ASSUME NEW q \in Invocations, InvocationStep(q), p # q PROVE Complete(p)'
    <2>1. /\ pc'[p] = pc[p] /\ tx'[p] = tx[p] /\ plan'[p] = plan[p]
          /\ rows'[p] = rows[p]
      BY <1>3, OthersKept DEF Invocations
    <2>2. UNCHANGED dirVars
      BY <1>3, InvocationKeepsDir DEF InvocationStep
    <2>3. Present(ledger) \subseteq Present(ledger')
      BY <1>3, LedgerGrows DEF Invocations
    <2> QED
      BY <2>1, <2>2, <2>3, CompleteStays DEF OrderInv
  <1>4. CASE InvocationStep(p)
    BY <1>4, CompleteOwnStep DEF OrderInv
  <1> QED
    BY <1>1, <1>2, <1>3, <1>4 DEF Next, InvocationStep

\* Without rollbacks, and with nobody touching the directory while a command runs,
\* nobody runs a migration while an earlier one of the directory is not recorded,
\* however many applies overlap, fail, or are killed (apply.go:70-77).
THEOREM OrderIsKept ==
  ASSUME Rollbackers = {}, LiveEdits = FALSE
  PROVE  Spec => []AppliedInOrder
  <1>1. ScriptsSafe
    BY DEF ScriptsSafe
  <1>2. Init => LedgerInv /\ OrderInv
    <2>1. Init => \A p \in Appliers : pc[p] = "idle" /\ tx[p].stage = "none"
      BY DEF Init, NoTx, Invocations
    <2> QED
      BY <2>1, InitLedgerInv DEF OrderInv, Complete, Working
  <1>3. TypeOK /\ LedgerInv /\ ListInv /\ OrderInv /\ [Next]_vars => LedgerInv' /\ OrderInv'
    BY <1>1, LedgerStep, OrderStep
  <1>4. TypeOK /\ ListInv /\ OrderInv => AppliedInOrder
    BY InOrderThen
  <1> QED
    BY <1>2, <1>3, <1>4, ListAlways, PTL DEF Spec

-----------------------------------------------------------------------------
(* The recorded migrations stay an initial segment of the directory.         *)

\* What was recorded before there were checksums is the beginning of the directory.
LegacyFirst == \A m \in Legacy, k \in Initial : k < m => k \in Legacy

\* A rollback has read the ledger as it is, has of it the last migrations, runs the last of
\* all, and finds no row to delete only where there is none.
Topmost(r) ==
  /\ pc[r] \notin {"history", "compare", "pendingRows", "pendingFiles"}
  /\ pc[r] \in {"idle", "chosen"} => tx[r].stage = "none"
  /\ pc[r] = "chosen" => rows[r] = ledger
  /\ pc[r] \in Working =>
       \A m \in Remaining(r), k \in Present(ledger) : m < k => k \in Remaining(r)
  /\ tx[r].stage # "none" => \A k \in Present(ledger) : k <= tx[r].mig
  /\ tx[r].stage \in {"wrote", "sent"} /\ ~tx[r].row => ledger[tx[r].mig] = NoRow

\* As long as the directory is as it was.
InOrder ==
  /\ gen.step = "idle"
  /\ RecordedIsPrefix

\* From the first rollback on, all invocations but one are quiet.
OneAtATime ==
  RolledBack => \A p, q \in Invocations : p = q \/ Quiet(p) \/ Quiet(q)

CarefulInv ==
  /\ changes = 0 => InOrder
  /\ OrderInv
  /\ OneAtATime
  /\ \A r \in Rollbackers : Topmost(r)

LEMMA InitCareful == LegacyFirst /\ Init => CarefulInv
  <1> SUFFICES ASSUME LegacyFirst, Init PROVE CarefulInv
    OBVIOUS
  <1>1. \A p \in Invocations : pc[p] = "idle" /\ tx[p].stage = "none"
    BY DEF Init, NoTx
  <1>2. gen.step = "idle" /\ OrderInv
    BY <1>1 DEF Init, DirInit, OrderInv, Complete, Working, Invocations
  <1>3. RecordedIsPrefix
    <2> SUFFICES ASSUME NEW m \in Migs, NEW k \in Migs, ledger[m] # NoRow, k < m,
                        dir[Up(k)] # NoFile
                 PROVE  ledger[k] # NoRow
      BY DEF RecordedIsPrefix
    <2>1. m \in Legacy
      BY DEF Init
    <2>2. k \in Initial
      BY DEF Init, DirInit, InitialDir, Up, Files
    <2> QED
      BY <2>1, <2>2 DEF LegacyFirst, Init, NoRow, NoChecksum
  <1> QED
    BY <1>1, <1>2, <1>3 DEF CarefulInv, InOrder, OneAtATime, Quiet, Active, Ended, Topmost, Working,
       Invocations

\* Whoever moves once something was rolled back is alone.
LEMMA AloneThen ==
  ASSUME TypeOK, ListInv, CarefulInv, NEW q \in Invocations, InvocationStep(q),
         CarefulRollback, RolledBack'
  PROVE  Alone(q)
  <1>1. pc[q] = "idle" => tx[q].stage = "none"
    BY DEF ListInv, Checked, Fresh, Reading, CarefulInv, Topmost, Invocations
  <1>2. CASE Start(q)
    <2>1. pc[q] = "idle" /\ pc'[q] # "idle"
      BY <1>2 DEF Start, ApplyStart, RollbackStart, ReadRows, Move, TypeOK
    <2> QED
      BY <2>1 DEF CarefulRollback
  <1>3. CASE ~Start(q)
    <2>1. ~Quiet(q)
      BY <1>3 DEF InvocationStep, Step, Quiet, Active, Ended, ReadHistory, ReadPendingRows,
         CompareHistory, ListPending, ListRollbackable, RunScript, ScriptFails, Turn, InsertRow,
         DeleteRow, SendCommit, Commit, Fail, Crash, DropSession
    <2>2. pc[q] # "idle"
      BY <1>1, <2>1 DEF Quiet, Active
    <2>3. RolledBack
      <3>1. PICK r \in Rollbackers : pc'[r] # "idle"
        BY DEF RolledBack
      <3>2. CASE r = q
        BY <2>2, <3>2 DEF RolledBack
      <3>3. CASE r # q
        BY <3>1, <3>3, OthersKept DEF RolledBack, Invocations
      <3> QED
        BY <3>2, <3>3
    <2> QED
      BY <2>1, <2>3 DEF CarefulInv, OneAtATime, Alone
  <1> QED
    BY <1>2, <1>3

\* A rollback that moves has begun.
LEMMA RollbackMoves ==
  ASSUME TypeOK, CarefulInv, NEW q \in Rollbackers, InvocationStep(q)
  PROVE  RolledBack'
  <1>1. q \in Invocations /\ q \notin Appliers
    BY MigrateAssumption DEF Invocations
  <1>2. pc'[q] # "idle"
    <2>1. CASE Start(q)
      BY <1>1, <2>1 DEF Start, RollbackStart, ReadRows, Move, TypeOK
    <2>2. CASE Commit(q)
      <3>1. pc[q] # "idle"
        BY <2>2 DEF CarefulInv, Topmost, Commit
      <3> QED
        BY <1>1, <2>2, <3>1 DEF Commit, Move, TypeOK
    <2>3. CASE Step(q) /\ ~Commit(q)
      BY <1>1, <2>3 DEF Step, ReadHistory, ReadPendingRows, CompareHistory, ListPending,
         ListRollbackable, RunScript, ScriptFails, InsertRow, DeleteRow, SendCommit, ReadRows,
         Move, TypeOK
    <2>4. CASE Fail(q) \/ Crash(q) \/ DropSession(q)
      BY <1>1, <2>4 DEF Fail, Crash, DropSession, Ended, Move, TypeOK
    <2> QED
      BY <2>1, <2>2, <2>3, <2>4 DEF InvocationStep
  <1> QED
    BY <1>2 DEF RolledBack

\* With the last migrations of the ledger on its list, a rollback takes away the last.
LEMMA TopmostOwnStep ==
  ASSUME Lossy = FALSE, TypeOK, LedgerInv, NEW r \in Rollbackers, InvocationStep(r), Topmost(r)
  PROVE  Topmost(r)'
  <1> USE DEF TypeOK, Move
  <1>1. r \in Invocations /\ r \notin Appliers
    BY MigrateAssumption DEF Invocations
  <1>2. NoTx.stage = "none"
    BY DEF NoTx
  <1>3. Present(ledger)' = Present(ledger')
    BY DEF Present
  <1>4. CASE Start(r)
    <2>1. PICK count \in 1..Cardinality(Migs), dry \in BOOLEAN, cut \in Cuts :
            RollbackStart(r, count, dry, cut)
      BY <1>1, <1>4 DEF Start
    <2>2. cut = {}
      BY <2>1 DEF Cuts
    <2>3. ledger = [m \in Migs |-> ledger[m]]
      BY DEF Rows
    <2>4. pc'[r] = "chosen" /\ rows'[r] = ledger /\ ledger' = ledger /\ tx' = tx /\ pc[r] = "idle"
      BY <1>1, <2>1, <2>2, <2>3 DEF RollbackStart, ReadRows, dbVars
    <2> QED
      BY <2>4 DEF Topmost, Working
  <1>5. CASE ListRollbackable(r)
    <2>1. /\ pc[r] = "chosen" /\ tx' = tx /\ ledger' = ledger /\ rows[r] = ledger
          /\ tx[r].stage = "none"
      BY <1>5 DEF ListRollbackable, dbVars, Topmost
    <2>2. pc'[r] \in {"failed", "done", "next"}
      BY <1>1, <1>5 DEF ListRollbackable
    <2>3. ASSUME pc'[r] = "next",
                 NEW m \in Remaining(r)', NEW k \in Present(ledger'), m < k
          PROVE  k \in Remaining(r)'
      <3>1. PICK chosen : chosen = LastByName(r)
        OBVIOUS
      <3>2. /\ \A j \in chosen : dir[Down(j)] # NoFile
            /\ plan'[r] = [j \in Migs |-> IF j \in chosen THEN dir[Down(j)] ELSE NoFile]
        BY <1>1, <1>5, <2>3, <3>1 DEF ListRollbackable
      <3>3. \A j \in Migs : j \in Remaining(r)' <=> j \in chosen
        BY <3>2 DEF Remaining
      <3>4. m \in chosen /\ m \in Migs /\ k \in Migs /\ k \in Present(ledger)
        BY <2>1, <2>3, <3>3 DEF Remaining, Present
      <3>5. PICK A, B : /\ A = {j \in Present(ledger) : j > m}
                        /\ B = {j \in Present(ledger) : j > k}
        OBVIOUS
      <3>6. Cardinality(A) < opt[r].count
        BY <2>1, <3>1, <3>4, <3>5 DEF LastByName
      <3>7. B \subseteq A
        <4>1. \A j \in Present(ledger) : j \in Nat /\ m \in Nat /\ k \in Nat
          BY <3>4, DirAssumption DEF Present
        <4> QED
          BY <2>3, <3>5, <4>1
      <3>8. IsFiniteSet(A)
        <4>1. A \subseteq Migs
          BY <3>5 DEF Present
        <4> QED
          BY <4>1, FS_Subset, DirAssumption
      <3>9. Cardinality(B) <= Cardinality(A) /\ Cardinality(A) \in Nat /\ Cardinality(B) \in Nat
        BY <3>7, <3>8, FS_Subset, FS_CardinalityType
      <3>10. opt[r].count \in Nat
        BY <1>1 DEF Options
      <3>11. k \in chosen
        BY <2>1, <3>1, <3>4, <3>5, <3>6, <3>9, <3>10 DEF LastByName
      <3> QED
        BY <3>3, <3>4, <3>11
    <2> QED
      BY <1>3, <2>1, <2>2, <2>3 DEF Topmost, Working
  <1>6. ASSUME NEW m \in Migs, RunScript(r, m) PROVE Topmost(r)'
    <2>1. tx'[r].mig = m /\ pc'[r] = "record" /\ tx'[r].stage = "ran"
      BY <1>1, <1>6 DEF RunScript, Begun
    <2>2. pc[r] = "next" /\ plan' = plan /\ ledger' = ledger /\ IsNext(r, m)
      BY <1>6 DEF RunScript, Turn, dbVars
    <2>3. ASSUME NEW k \in Present(ledger) PROVE k <= m
      <3>1. k \in Nat /\ m \in Nat
        BY DirAssumption DEF Present
      <3>2. m < k => k \in Remaining(r)
        BY <2>2, <2>3 DEF Topmost, Working, IsNext
      <3> QED
        BY <1>1, <2>2, <3>1, <3>2 DEF IsNext
    <2>4. Remaining(r)' = Remaining(r)
      BY <2>2 DEF Remaining
    <2>5. \A a \in Remaining(r), k \in Present(ledger) : a < k => k \in Remaining(r)
      BY <2>2 DEF Topmost, Working
    <2> QED
      BY <1>3, <2>1, <2>2, <2>3, <2>4, <2>5 DEF Topmost
  <1>7. CASE DeleteRow(r) \/ SendCommit(r)
    <2>1. tx[r] \in Tx
      BY <1>1
    <2>2. /\ tx'[r].mig = tx[r].mig /\ plan' = plan /\ ledger' = ledger
          /\ pc[r] \in {"record", "commit"} /\ pc'[r] \in {"commit", "ack"}
      BY <1>1, <1>7, <2>1 DEF DeleteRow, SendCommit, dbVars, Tx
    <2>3. tx[r].stage # "none" /\ (pc[r] = "commit" => tx[r].stage = "wrote")
      BY <1>1, <2>2 DEF LedgerInv, TxSafe, StageAt
    <2>4. Remaining(r)' = Remaining(r)
      BY <2>2 DEF Remaining
    <2>5. ~tx'[r].row => ledger[tx[r].mig] = NoRow
      <3>1. CASE DeleteRow(r)
        BY <1>1, <2>1, <3>1 DEF DeleteRow, Tx
      <3>2. CASE SendCommit(r)
        BY <1>1, <2>1, <2>3, <3>2 DEF SendCommit, Topmost, Tx
      <3> QED
        BY <1>7, <3>1, <3>2
    <2> QED
      BY <1>3, <2>2, <2>3, <2>4, <2>5 DEF Topmost, Working
  <1>8. CASE Commit(r)
    <2>1. PICK m : m = tx[r].mig
      OBVIOUS
    <2>2. /\ m \in Migs
          /\ ledger' = IF tx[r].row THEN [ledger EXCEPT ![m] = NoFile] ELSE ledger
          /\ ~tx[r].row => ledger[m] = NoRow
      <3>1. m \in Migs /\ NewText(r) = NoFile
        BY <1>1, <1>8, <2>1, CommitWritesBoth
      <3> QED
        BY <1>8, <2>1, <3>1 DEF Commit, Topmost
    <2>3. Present(ledger') \subseteq Present(ledger) \ {m}
      BY <2>2 DEF Present, Rows, NoFile, NoRow
    <2>4. tx'[r].stage = "none"
      BY <1>1, <1>2, <1>8 DEF Commit, EndTx
    <2>5. tx[r].stage = "sent"
      BY <1>8 DEF Commit
    <2>6. /\ \A k \in Migs \ {m} : plan'[r][k] = plan[r][k]
          /\ \/ pc[r] = "ack" /\ pc'[r] \in {"done", "next"} /\ plan'[r][m] = NoFile
             \/ pc'[r] = pc[r] /\ plan' = plan
      BY <1>1, <1>8, <2>1, <2>2 DEF Commit
    <2>7. pc'[r] \in Working => pc[r] \in Working
      BY <2>6 DEF Working
    <2>8. ASSUME pc'[r] \in Working, NEW a \in Remaining(r)', NEW k \in Present(ledger'), a < k
          PROVE  k \in Remaining(r)'
      <3>1. a \in Remaining(r)
        BY <2>6, <2>8 DEF Remaining
      <3>2. k \in Remaining(r) /\ k # m
        BY <2>3, <2>7, <2>8, <3>1 DEF Topmost
      <3> QED
        BY <2>6, <3>2 DEF Remaining
    <2>9. pc'[r] \notin {"idle", "chosen", "history", "compare", "pendingRows", "pendingFiles"}
      BY <2>5, <2>6 DEF Topmost
    <2> QED
      BY <1>3, <2>4, <2>8, <2>9 DEF Topmost
  <1>9. CASE \/ \E m \in Migs : ScriptFails(r, m)
             \/ Fail(r) \/ Crash(r) \/ DropSession(r)
    <2>1. pc'[r] \in Ended /\ tx'[r] \in {tx[r], NoTx} /\ ledger' = ledger
      BY <1>1, <1>9 DEF ScriptFails, Fail, Crash, DropSession, EndTx, Ended, dbVars
    <2> QED
      BY <1>2, <1>3, <2>1 DEF Topmost, Working, Ended
  <1>10. CASE \/ \E cut \in Cuts : ReadHistory(r, cut) \/ ReadPendingRows(r, cut)
              \/ CompareHistory(r) \/ ListPending(r) \/ InsertRow(r)
    BY <1>1, <1>10 DEF ReadHistory, ReadPendingRows, CompareHistory, ListPending, InsertRow, Topmost
  <1> QED
    BY <1>4, <1>5, <1>6, <1>7, <1>8, <1>9, <1>10 DEF InvocationStep, Step

\* An apply records what comes next, a rollback takes away what came last.
LEMMA PrefixStays ==
  ASSUME TypeOK, LedgerInv, ListInv, CarefulInv, changes = 0,
         NEW q \in Invocations, InvocationStep(q)
  PROVE  RecordedIsPrefix'
  <1>1. dir' = dir
    BY InvocationKeepsDir DEF InvocationStep, dirVars
  <1>2. RecordedIsPrefix /\ OrderInv
    BY DEF CarefulInv, InOrder
  <1>3. CASE ledger' = ledger
    BY <1>1, <1>2, <1>3 DEF RecordedIsPrefix
  <1>4. CASE Commit(q) /\ ledger' # ledger
    <2> SUFFICES ASSUME NEW m \in Migs, NEW k \in Migs, ledger'[m] # NoRow, k < m,
                        dir[Up(k)] # NoFile
                 PROVE  ledger'[k] # NoRow
      BY <1>1 DEF RecordedIsPrefix
    <2>1. PICK c : c = tx[q].mig
      OBVIOUS
    <2>2. /\ c \in Migs /\ tx[q].stage # "none"
          /\ ledger' = [ledger EXCEPT ![c] = NewText(q)]
          /\ q \in Appliers => NewText(q) \in Texts
          /\ q \in Rollbackers => NewText(q) = NoFile
      BY <1>4, <2>1, CommitWritesBoth DEF Commit
    <2>3. k \in Nat /\ m \in Nat /\ c \in Nat
      BY <2>2, DirAssumption
    <2>4. ledger'[c] = NewText(q) /\ \A j \in Migs \ {c} : ledger'[j] = ledger[j]
      BY <2>2 DEF TypeOK, Rows
    <2>5. CASE q \in Appliers
      <3>1. ledger'[c] # NoRow
        BY <2>2, <2>4, <2>5 DEF Texts, NoRow
      <3>2. CASE m # c
        BY <1>2, <2>4, <3>1, <3>2 DEF RecordedIsPrefix
      <3>3. CASE m = c
        <4>1. k \in Remaining(q) \/ ledger[k] # NoRow
          BY <1>2, <2>2, <2>5 DEF OrderInv, Complete, Present
        <4>2. k \in Remaining(q) => c <= k
          BY <2>1, <2>2, <2>5 DEF ListInv, Checked, Ordered, Remaining
        <4> QED
          BY <2>3, <2>4, <3>3, <4>1, <4>2
      <3> QED
        BY <3>2, <3>3
    <2>6. CASE q \in Rollbackers
      <3>1. m # c
        BY <2>2, <2>4, <2>6 DEF NoFile, NoRow
      <3>2. ledger[m] # NoRow /\ m <= c
        BY <2>1, <2>2, <2>4, <2>6, <3>1 DEF CarefulInv, Topmost, Present
      <3>3. k # c
        BY <2>3, <3>2
      <3> QED
        BY <1>2, <2>4, <3>2, <3>3 DEF RecordedIsPrefix
    <2> QED
      BY <2>5, <2>6 DEF Invocations
  <1> QED
    BY <1>3, <1>4, OnlyCommitWrites DEF InvocationStep, dbVars

LEMMA CarefulOwnStep ==
  ASSUME Lossy = FALSE, TypeOK, LedgerInv, ListInv, CarefulInv, CarefulRollback,
         NEW q \in Invocations, InvocationStep(q)
  PROVE  CarefulInv'
  <1>1. UNCHANGED dirVars
    BY InvocationKeepsDir DEF InvocationStep
  <1>2. ASSUME NEW p \in Invocations, p # q
        PROVE  /\ pc'[p] = pc[p] /\ tx'[p] = tx[p] /\ plan'[p] = plan[p] /\ rows'[p] = rows[p]
               /\ Quiet(p) => Quiet(p)'
    <2>1. pc'[p] = pc[p] /\ tx'[p] = tx[p] /\ plan'[p] = plan[p] /\ rows'[p] = rows[p]
      BY <1>2, OthersKept
    <2> QED
      BY <2>1 DEF Quiet, Active
  <1>3. OneAtATime'
    <2> SUFFICES ASSUME RolledBack', NEW p1 \in Invocations, NEW p2 \in Invocations, p1 # p2
                 PROVE  Quiet(p1)' \/ Quiet(p2)'
      BY DEF OneAtATime
    <2>1. Alone(q)
      BY AloneThen
    <2>2. \A p \in Invocations \ {q} : Quiet(p)'
      BY <1>2, <2>1 DEF Alone
    <2> QED
      BY <2>2
  <1>4. ASSUME NEW r \in Rollbackers PROVE Topmost(r)'
    <2>1. r \in Invocations /\ Topmost(r)
      BY DEF Invocations, CarefulInv
    <2>2. CASE r = q
      BY <2>1, <2>2, TopmostOwnStep
    <2>3. CASE r # q
      <3>1. pc'[r] = pc[r] /\ tx'[r] = tx[r]
        BY <1>2, <2>1, <2>3
      <3>2. CASE pc[r] = "idle"
        BY <2>1, <3>1, <3>2 DEF Topmost, Working
      <3>3. CASE pc[r] # "idle"
        <4>1. RolledBack'
          BY <3>1, <3>3 DEF RolledBack
        <4>2. Quiet(r)
          BY <2>1, <2>3, <4>1, AloneThen DEF Alone
        <4> QED
          BY <3>1, <3>3, <4>2 DEF Topmost, Quiet, Active, Working, Ended
      <3> QED
        BY <3>2, <3>3
    <2> QED
      BY <2>2, <2>3
  <1>5. ASSUME NEW p \in Appliers PROVE Complete(p)'
    <2>1. p \in Invocations /\ p \notin Rollbackers /\ Complete(p)
      BY MigrateAssumption DEF Invocations, CarefulInv, OrderInv
    <2>2. CASE p = q
      BY <2>1, <2>2, CompleteOwnStep
    <2>3. CASE p # q /\ q \in Appliers
      BY <1>1, <1>2, <2>1, <2>3, LedgerGrows, CompleteStays
    <2>4. CASE p # q /\ q \in Rollbackers
      <3>1. Quiet(p)
        BY <2>1, <2>4, RollbackMoves, AloneThen DEF Alone
      <3>2. pc'[p] = pc[p] /\ tx'[p] = tx[p]
        BY <1>2, <2>1, <2>4
      <3> QED
        BY <3>1, <3>2 DEF Complete, Quiet, Active, Working, Ended
    <2> QED
      BY <2>2, <2>3, <2>4 DEF Invocations
  <1>6. ASSUME changes' = 0 PROVE InOrder'
    <2>1. changes = 0 /\ gen'.step = gen.step /\ InOrder
      BY <1>1, <1>6 DEF dirVars, CarefulInv
    <2>2. RecordedIsPrefix'
      BY <2>1, PrefixStays
    <2> QED
      BY <2>1, <2>2 DEF InOrder
  <1> QED
    BY <1>3, <1>4, <1>5, <1>6 DEF CarefulInv, OrderInv

LEMMA CarefulStep ==
  ASSUME Lossy = FALSE, LiveEdits = FALSE
  PROVE  /\ TypeOK /\ LedgerInv /\ ListInv /\ CarefulInv
         /\ [Next /\ CarefulRollback]_vars
         => CarefulInv'
  <1> SUFFICES ASSUME TypeOK, LedgerInv, ListInv, CarefulInv, [Next /\ CarefulRollback]_vars
               PROVE  CarefulInv'
    OBVIOUS
  <1>1. CASE UNCHANGED vars
    <2>1. /\ gen' = gen /\ changes' = changes /\ dir' = dir /\ ledger' = ledger
          /\ pc' = pc /\ rows' = rows /\ plan' = plan /\ tx' = tx
      BY <1>1 DEF vars, dirVars, dbVars
    <2>2. (InOrder' <=> InOrder) /\ (OrderInv' <=> OrderInv)
      BY <2>1 DEF InOrder, RecordedIsPrefix, OrderInv, Complete, Present, Remaining
    <2>3. OneAtATime'
      BY <2>1 DEF CarefulInv, OneAtATime, RolledBack, Quiet, Active
    <2>4. \A r \in Rollbackers : Topmost(r)'
      BY <2>1 DEF CarefulInv, Topmost, Present, Remaining
    <2> QED
      BY <2>1, <2>2, <2>3, <2>4 DEF CarefulInv
  <1>2. CASE DirStep /\ CarefulRollback
    <2>1. ledger' = ledger /\ pc' = pc /\ rows' = rows /\ plan' = plan /\ tx' = tx
      BY <1>2 DEF DirStep, dbVars
    <2>2. changes' # 0
      <3>1. changes \in Nat /\ (changes = 0 => gen.step = "idle")
        BY DirAssumption DEF TypeOK, DirTypeOK, CarefulInv, InOrder
      <3>2. changes' = changes + 1 \/ (changes' = changes /\ gen.step # "idle")
        BY <1>2 DEF DirStep, DirNext, GenStart, GenStep, GenStop, Touch, CreateFile, WriteFile,
           GenCreateUp, GenWriteUp, GenCreateDown, GenWriteDown, GenHash, GenCreateSum,
           GenWriteSumLine, GenWriteSum
      <3> QED
        BY <3>1, <3>2
    <2>3. ~RolledBack'
      BY <1>2, <2>2 DEF CarefulRollback
    <2>4. \A r \in Rollbackers : Topmost(r)'
      BY <2>1 DEF CarefulInv, Topmost, Present, Remaining
    <2>5. OrderInv'
      BY <1>2, OrderDirStep DEF CarefulInv
    <2> QED
      BY <2>2, <2>3, <2>4, <2>5 DEF CarefulInv, OneAtATime
  <1>3. ASSUME NEW q \in Invocations, InvocationStep(q), CarefulRollback PROVE CarefulInv'
    BY <1>3, CarefulOwnStep
  <1> QED
    BY <1>1, <1>2, <1>3 DEF Next, InvocationStep

LEMMA CarefulAlways ==
  ASSUME ScriptsSafe, LiveEdits = FALSE, Lossy = FALSE, LegacyFirst
  PROVE  CarefulSpec => [](TypeOK /\ LedgerInv /\ ListInv /\ CarefulInv)
  <1>1. Init => TypeOK /\ LedgerInv /\ ListInv /\ CarefulInv
    BY InitTypeOK, InitLedgerInv, InitListInv, InitCareful
  <1>2. /\ TypeOK /\ LedgerInv /\ ListInv /\ CarefulInv /\ [Next /\ CarefulRollback]_vars
        => (TypeOK /\ LedgerInv /\ ListInv /\ CarefulInv)'
    BY TypeStep, LedgerStep, ListStep, CarefulStep
  <1> QED
    BY <1>1, <1>2, PTL DEF CarefulSpec

\* Used one command at a time from the first rollback on, and on a directory that stays as
\* it was, apply and rollback leave an initial segment of the directory recorded: also after
\* commands that failed or were killed in the middle of their list or with their COMMIT in
\* flight, and after any number of applies at once before the first rollback
\* (GetRollbackable, migrate.go:229; the loops of apply.go:73 and rollback.go).
THEOREM RecordsStayAPrefix ==
  ASSUME ScriptsSafe, LiveEdits = FALSE, Lossy = FALSE, LegacyFirst
  PROVE  CarefulSpec => []UntouchedRecordsPrefix
  <1>1. CarefulInv => UntouchedRecordsPrefix
    BY DEF CarefulInv, InOrder, UntouchedRecordsPrefix
  <1> QED
    BY <1>1, CarefulAlways, PTL

\* With rollbacks used like that, too, nobody runs a migration while an earlier one of the
\* directory is not recorded: an apply that follows a rollback lists again what was rolled
\* back (GetPending, migrate.go:83).
THEOREM OrderSurvivesRollback ==
  ASSUME ScriptsSafe, LiveEdits = FALSE, Lossy = FALSE, LegacyFirst
  PROVE  CarefulSpec => []AppliedInOrder
  <1>1. TypeOK /\ ListInv /\ CarefulInv => AppliedInOrder
    BY InOrderThen DEF CarefulInv
  <1> QED
    BY <1>1, CarefulAlways, PTL

-----------------------------------------------------------------------------
(* shrugged.sum never vouches for a half-written file of the migration that   *)
(* has just been written, although it hashes whatever the files hold.         *)

\* The files of the running `migrate` are whole, or edited, or gone, from the moment
\* it has closed them, and so is what it has hashed.
WrittenWhole ==
  /\ gen.step \in {"downCreate", "downWrite", "hash"} => dir[Up(gen.mig)] # "torn"
  /\ gen.step = "hash" => dir[Down(gen.mig)] # "torn"
  /\ gen.step \in {"sumCreate", "sumWrite"} =>
       \A f \in {Up(gen.mig), Down(gen.mig)} : gen.hashed[f] # "torn"

LEMMA InitWrittenWhole == Init => WrittenWhole
  BY DEF Init, DirInit, WrittenWhole

LEMMA WrittenWholeStep == DirTypeOK /\ WrittenWhole /\ [DirNext]_dirVars => WrittenWhole'
  <1> SUFFICES ASSUME DirTypeOK, WrittenWhole, [DirNext]_dirVars PROVE WrittenWhole'
    OBVIOUS
  <1> USE DEF WrittenWhole
  <1>1. /\ gen \in [step : GenSteps, mig : Migs, hashed : Listing]
        /\ dir \in [Files -> Texts \cup {NoFile}]
        /\ Up(gen.mig) \in Files /\ Down(gen.mig) \in Files
        /\ Up(gen.mig) # Down(gen.mig)
    BY DEF DirTypeOK, Listing, Files, Up, Down
  <1>2. ASSUME NEW m \in Migs, GenStart(m) PROVE WrittenWhole'
    BY <1>1, <1>2 DEF GenStart
  <1>3. CASE GenCreateUp
    BY <1>1, <1>3 DEF GenCreateUp, CreateFile, Goto
  <1>4. CASE GenWriteUp
    <2>1. gen'.step = "downCreate" /\ gen'.mig = gen.mig /\ dir'[Up(gen.mig)] = "whole"
      BY <1>1, <1>4 DEF GenWriteUp, WriteFile, Goto
    <2> QED
      BY <2>1
  <1>5. CASE GenCreateDown
    <2>1. /\ gen.step = "downCreate" /\ gen'.step = "downWrite" /\ gen'.mig = gen.mig
          /\ dir'[Up(gen.mig)] = dir[Up(gen.mig)]
      BY <1>1, <1>5 DEF GenCreateDown, CreateFile, Goto
    <2> QED
      BY <2>1
  <1>6. CASE GenWriteDown
    <2>1. /\ gen.step = "downWrite" /\ gen'.step = "hash" /\ gen'.mig = gen.mig
          /\ dir'[Up(gen.mig)] = dir[Up(gen.mig)] /\ dir'[Down(gen.mig)] = "whole"
      BY <1>1, <1>6 DEF GenWriteDown, WriteFile, Goto
    <2> QED
      BY <2>1
  <1>7. CASE GenHash
    <2>1. /\ gen.step = "hash" /\ gen'.mig = gen.mig
          /\ gen'.step \in {"idle", "sumCreate"}
          /\ gen'.step = "sumCreate" => gen'.hashed = dir
      BY <1>1, <1>7 DEF GenHash
    <2> QED
      BY <2>1
  <1>8. CASE GenCreateSum \/ GenWriteSumLine \/ GenWriteSum \/ GenStop
    <2>1. /\ gen'.mig = gen.mig /\ gen'.hashed = gen.hashed /\ dir' = dir
          /\ gen'.step \in {"idle", gen.step} \/ (gen.step = "sumCreate" /\ gen'.step = "sumWrite")
      BY <1>1, <1>8 DEF GenCreateSum, GenWriteSumLine, GenWriteSum, GenStop, Goto
    <2> QED
      BY <2>1
  <1>9. ASSUME NEW f \in Files, NEW text \in {"edited", NoFile}, Touch(f, text)
        PROVE  WrittenWhole'
    <2>1. gen' = gen /\ \A g \in Files : dir'[g] \in {dir[g], "edited", NoFile}
      BY <1>1, <1>9 DEF Touch
    <2> QED
      BY <1>1, <2>1 DEF NoFile
  <1>10. CASE UNCHANGED dirVars
    BY <1>10 DEF dirVars
  <1> QED
    BY <1>2, <1>3, <1>4, <1>5, <1>6, <1>7, <1>8, <1>9, <1>10 DEF DirNext, GenStep

\* The checksums `migrate` completes never vouch for a half-written file of the
\* migration it has just written, whatever was interrupted or edited before, and
\* whichever commands run meanwhile (cli/migrate.go:87-123).
THEOREM OwnFilesAreWhole == Spec => OwnFilesHashedWhole
  <1>1. [Next]_vars => [DirNext]_dirVars
    <2>1. ASSUME NEW p \in Invocations, InvocationStep(p) PROVE UNCHANGED dirVars
      BY <2>1, InvocationKeepsDir DEF InvocationStep
    <2> QED
      BY <2>1 DEF Next, DirStep, vars, InvocationStep
  <1>2. DirTypeOK /\ WrittenWhole /\ [DirNext]_dirVars =>
          (sum.state # "full" /\ sum'.state = "full" =>
             \A f \in {Up(gen.mig), Down(gen.mig)} : sum'.entry[f] # "torn")
    <2> SUFFICES ASSUME WrittenWhole, [DirNext]_dirVars,
                        sum.state # "full", sum'.state = "full"
                 PROVE  GenWriteSum
      BY DEF WrittenWhole, GenWriteSum
    <2>1. sum' # sum
      OBVIOUS
    <2>2. CASE GenCreateSum
      BY <2>2 DEF GenCreateSum
    <2>3. CASE GenWriteSumLine
      BY <2>3 DEF GenWriteSumLine
    <2> QED
      BY <2>1, <2>2, <2>3 DEF DirNext, GenStep, GenStart, GenCreateUp, GenWriteUp,
         GenCreateDown, GenWriteDown, CreateFile, WriteFile, GenHash, GenStop, Touch, dirVars
  <1>3. TypeOK => DirTypeOK
    BY DEF TypeOK
  <1>4. [](DirTypeOK /\ WrittenWhole) /\ [][DirNext]_dirVars => OwnFilesHashedWhole
    BY <1>2, PTL DEF OwnFilesHashedWhole
  <1> QED
    BY <1>1, <1>3, <1>4, TypeCorrect, InitWrittenWhole, WrittenWholeStep, PTL DEF Spec
=============================================================================
