-------------------------------- MODULE Migrate --------------------------------
(***************************************************************************)
(* `shrugged apply` and `shrugged rollback` against one database           *)
(* (internal/cli/apply.go, internal/cli/rollback.go,                       *)
(* internal/migrate/migrate.go): any number of invocations, each of which  *)
(* reads the table shrugged_migrations and the migrations directory and    *)
(* then runs one transaction per migration.                                *)
(*                                                                         *)
(* PostgreSQL is external.  Of a transaction the model keeps what the      *)
(* interleavings depend on: its writes appear at commit; a script that     *)
(* creates or drops a migration's objects holds their locks to the end, so *)
(* another script for that migration waits; an INSERT waits for a          *)
(* transaction that wrote the same primary key and fails if the row is     *)
(* then there; a DELETE waits for one that deleted the row and finds       *)
(* nothing if the row is then gone; the ALTER TABLE with which every       *)
(* reading of the table and every apply begins waits for whoever wrote to  *)
(* it; a session whose client is gone is rolled back, unless its COMMIT    *)
(* had already been sent.                                                  *)
(***************************************************************************)
EXTENDS MigrationDir

CONSTANTS
  Appliers,     \* invocations of `shrugged apply`
  Rollbackers,  \* invocations of `shrugged rollback`
  Legacy,       \* migrations recorded before the checksum column existed
  Lasting,      \* migrations whose down script has no statement: "-- IRREVERSIBLE: ..."
  Idempotent,   \* may a script that is run again succeed and change nothing?
  Lossy,        \* may a connection die while the rows of a query are read?
  Overlap,      \* may invocations run at the same time?
  LiveEdits     \* may the directory change while an invocation runs?

Invocations == Appliers \cup Rollbackers

ASSUME MigrateAssumption ==
  /\ Appliers \cap Rollbackers = {}
  /\ Legacy \subseteq Initial
  /\ Lasting \subseteq Migs
  /\ {Idempotent, Lossy, Overlap, LiveEdits} \subseteq BOOLEAN

NoRow      == "none"   \* no row of that name in shrugged_migrations
NoChecksum == ""       \* a row whose checksum column is null
Rows  == [Migs -> Texts \cup {NoRow, NoChecksum}]
NoRows == [m \in Migs |-> NoRow]
NoPlan == [m \in Migs |-> NoFile]

VARIABLES
  ledger,   \* shrugged_migrations, committed: the recorded checksum of each migration
  effect,   \* the committed schema: the text of each migration whose objects exist
  before,   \* applied_at: the pairs of recorded migrations, the one applied earlier first
  pc,       \* where each invocation is
  opt,      \* its command line: --force, --dry-run, --count
  rows,     \* what GetApplied last returned to it
  plan,     \* the migrations it still has to run, with the text it read
  tx        \* its database session's transaction

dbVars == <<ledger, effect, before>>
vars   == <<dirVars, dbVars, pc, opt, rows, plan, tx>>

Options == [force : BOOLEAN, dry : BOOLEAN, count : Nat]
Steps   == {"idle", "history", "compare", "pendingRows", "pendingFiles", "chosen",
            "next", "record", "commit", "ack", "done", "failed"}
Ended   == {"done", "failed"}

\* eff: its script changed the schema; row: it changed the migration's row.
Tx   == [stage : {"none", "ran", "wrote", "sent"}, mig : Migs,
         text : Texts \cup {NoFile}, eff : BOOLEAN, row : BOOLEAN]
NoTx == [stage |-> "none", mig |-> CHOOSE m \in Migs : TRUE, text |-> NoFile,
         eff |-> FALSE, row |-> FALSE]

TypeOK ==
  /\ DirTypeOK
  /\ ledger \in Rows
  /\ effect \in [Migs -> Texts \cup {NoFile}]
  /\ before \in SUBSET (Migs \X Migs)
  /\ pc \in [Invocations -> Steps]
  /\ opt \in [Invocations -> Options]
  /\ rows \in [Invocations -> Rows]
  /\ plan \in [Invocations -> [Migs -> Texts \cup {NoFile}]]
  /\ tx \in [Invocations -> Tx]

Init ==
  /\ DirInit
  /\ ledger = [m \in Migs |-> IF m \in Legacy THEN NoChecksum ELSE NoRow]
  /\ effect = [m \in Migs |-> IF m \in Legacy THEN "whole" ELSE NoFile]
  /\ before = {pair \in Legacy \X Legacy : pair[1] < pair[2]}
  /\ pc = [p \in Invocations |-> "idle"]
  /\ opt = [p \in Invocations |-> [force |-> FALSE, dry |-> FALSE, count |-> 1]]
  /\ rows = [p \in Invocations |-> NoRows]
  /\ plan = [p \in Invocations |-> NoPlan]
  /\ tx = [p \in Invocations |-> NoTx]

Active(p) == pc[p] \notin {"idle"} \cup Ended
Quiet(p)  == ~Active(p) /\ tx[p].stage = "none"
Alone(p)  == \A q \in Invocations \ {p} : Quiet(q)

Move(p, step) == pc' = [pc EXCEPT ![p] = step]
EndTx(p) == tx' = [tx EXCEPT ![p] = NoTx]

Present(table) == {m \in Migs : table[m] # NoRow}
Remaining(p)   == {m \in Migs : plan[p][m] # NoFile}
-----------------------------------------------------------------------------
(* GetApplied: SELECT ... ORDER BY name.  rows.Err() is not consulted, so a  *)
(* connection that dies half way yields the rows read so far and no error.   *)

\* EnsureMigrationsTable: ALTER TABLE takes an ACCESS EXCLUSIVE lock and gives it back at once.
TableFree == \A q \in Invocations : tx[q].stage \notin {"wrote", "sent"}

ReadRows(p, cut, step) ==
  /\ TableFree
  /\ rows' = [rows EXCEPT ![p] = [m \in Migs |-> IF m \in cut THEN NoRow ELSE ledger[m]]]
  /\ Move(p, step)

Forget(p) == rows' = [rows EXCEPT ![p] = NoRows]   \* the result goes out of scope

Cuts == IF Lossy THEN {{m \in Migs : m >= k} : k \in Migs} \cup {{}} ELSE {{}}

\* GetAppliedWithStatus: a recorded migration whose file is gone or hashes differently.
ModifiedIgnoringGone(p) ==
  {m \in Present(rows[p]) : /\ dir[Up(m)] # NoFile
                            /\ rows[p][m] \notin {NoChecksum, dir[Up(m)]}}

ModifiedOf(p) ==
  {m \in Present(rows[p]) : \/ dir[Up(m)] = NoFile
                            \/ rows[p][m] \notin {NoChecksum, dir[Up(m)]}}

\* GetPending: the up files without a row.
PendingOf(p) ==
  [m \in Migs |-> IF rows[p][m] = NoRow THEN dir[Up(m)] ELSE NoFile]

\* GetRollbackable: the last `count` rows by name.
LastByAnyOrder(p) ==
  {m \in Present(rows[p]) :
     Cardinality({k \in Present(rows[p]) : k < m}) < opt[p].count}

LastByName(p) ==
  {m \in Present(rows[p]) :
     Cardinality({k \in Present(rows[p]) : k > m}) < opt[p].count}

-----------------------------------------------------------------------------
(* apply, up to the list of pending migrations                               *)
ApplyStart(p, force, dry) ==
  /\ pc[p] = "idle"
  /\ Overlap \/ Alone(p)
  /\ opt' = [opt EXCEPT ![p].force = force, ![p].dry = dry]
  /\ Move(p, IF ValidateSum \/ force THEN "history" ELSE "failed")
  /\ UNCHANGED <<dirVars, dbVars, rows, plan, tx>>

ReadHistory(p, cut) ==
  /\ pc[p] = "history"
  /\ ReadRows(p, cut, "compare")
  /\ UNCHANGED <<dirVars, dbVars, opt, plan, tx>>

CompareHistory(p) ==
  /\ pc[p] = "compare"
  /\ Move(p, IF ModifiedOf(p) # {} /\ ~opt[p].force THEN "failed" ELSE "pendingRows")
  /\ Forget(p)
  /\ UNCHANGED <<dirVars, dbVars, opt, plan, tx>>

ReadPendingRows(p, cut) ==
  /\ pc[p] = "pendingRows"
  /\ ReadRows(p, cut, "pendingFiles")
  /\ UNCHANGED <<dirVars, dbVars, opt, plan, tx>>

ListPending(p) ==
  /\ pc[p] = "pendingFiles"
  /\ plan' = [plan EXCEPT ![p] = PendingOf(p)]
  /\ Move(p, IF PendingOf(p) = NoPlan \/ opt[p].dry THEN "done" ELSE "next")
  /\ Forget(p)
  /\ UNCHANGED <<dirVars, dbVars, opt, tx>>

(* rollback, up to the list of down scripts                                  *)
RollbackStart(p, count, dry, cut) ==
  /\ pc[p] = "idle"
  /\ Overlap \/ Alone(p)
  /\ opt' = [opt EXCEPT ![p].count = count, ![p].dry = dry]
  /\ ReadRows(p, cut, "chosen")
  /\ UNCHANGED <<dirVars, dbVars, plan, tx>>

\* One missing down file fails the whole command before anything runs.
ListRollbackable(p) ==
  /\ pc[p] = "chosen"
  /\ LET chosen == LastByName(p)
         ok     == \A m \in chosen : dir[Down(m)] # NoFile
     IN /\ plan' = IF ok THEN [plan EXCEPT ![p] = [m \in Migs |->
                                 IF m \in chosen THEN dir[Down(m)] ELSE NoFile]]
                         ELSE plan
        /\ Move(p, CASE ~ok -> "failed"
                     [] ok /\ (chosen = {} \/ opt[p].dry) -> "done"
                     [] OTHER -> "next")
  /\ Forget(p)
  /\ UNCHANGED <<dirVars, dbVars, opt, tx>>

-----------------------------------------------------------------------------
(* One transaction per migration: Apply and Rollback of migrate.go.          *)

\* Apply goes up by name, Rollback goes down by name.
IsNext(p, m) ==
  /\ m \in Remaining(p)
  /\ \A k \in Remaining(p) : IF p \in Appliers THEN m <= k ELSE k <= m

Begun(p, m, eff) ==
  [stage |-> "ran", mig |-> m, text |-> plan[p][m], eff |-> eff, row |-> FALSE]

\* A script of comments takes no lock and does nothing.
OnlyRemarks(p, m) == p \in Rollbackers /\ m \in Lasting

\* Do the objects the script wants to create (or drop) need creating (dropping)?
HasWork(p, m) ==
  /\ ~OnlyRemarks(p, m)
  /\ IF p \in Appliers THEN effect[m] = NoFile ELSE effect[m] # NoFile

Unlocked(p, m) == \A q \in Invocations \ {p} : ~(tx[q].eff /\ tx[q].mig = m)

\* The script's turn: after EnsureMigrationsTable, which only Apply calls again, and after
\* whoever holds the objects.
Turn(p, m) ==
  /\ pc[p] = "next"
  /\ IsNext(p, m)
  /\ p \in Appliers => TableFree
  /\ OnlyRemarks(p, m) \/ Unlocked(p, m)

RunScriptOutsideTx(p, m) ==
  /\ Turn(p, m)
  /\ HasWork(p, m)
  /\ effect' = [effect EXCEPT ![m] = IF p \in Appliers THEN plan[p][m] ELSE NoFile]
  /\ tx' = [tx EXCEPT ![p] = Begun(p, m, FALSE)]
  /\ Move(p, "record")
  /\ UNCHANGED <<dirVars, ledger, before, opt, rows, plan>>

\* Begin and the first Exec: the script runs inside the transaction.
RunScript(p, m) ==
  /\ Turn(p, m)
  /\ HasWork(p, m) \/ OnlyRemarks(p, m) \/ Idempotent
  /\ tx' = [tx EXCEPT ![p] = Begun(p, m, HasWork(p, m))]
  /\ Move(p, "record")
  /\ UNCHANGED <<dirVars, dbVars, opt, rows, plan>>

ScriptRetried(p, m) ==
  /\ Turn(p, m)
  /\ ~HasWork(p, m) /\ ~OnlyRemarks(p, m)
  /\ UNCHANGED vars

\* CREATE of what exists, DROP of what does not: the loop stops at the first error.
ScriptFails(p, m) ==
  /\ Turn(p, m)
  /\ ~HasWork(p, m) /\ ~OnlyRemarks(p, m)
  /\ Move(p, "failed")
  /\ UNCHANGED <<dirVars, dbVars, opt, rows, plan, tx>>

NoRowWriter(p) == \A q \in Invocations \ {p} : ~(tx[q].row /\ tx[q].mig = tx[p].mig)

\* INSERT: a duplicate key fails the command, and the deferred Rollback undoes the script.
InsertRow(p) ==
  /\ p \in Appliers
  /\ pc[p] = "record"
  /\ NoRowWriter(p)
  /\ IF ledger[tx[p].mig] = NoRow
     THEN /\ tx' = [tx EXCEPT ![p].row = TRUE, ![p].stage = "wrote"]
          /\ Move(p, "commit")
     ELSE EndTx(p) /\ Move(p, "failed")
  /\ UNCHANGED <<dirVars, dbVars, opt, rows, plan>>

\* DELETE: no row is no error.
DeleteRow(p) ==
  /\ p \in Rollbackers
  /\ pc[p] = "record"
  /\ ledger[tx[p].mig] # NoRow => NoRowWriter(p)
  /\ tx' = [tx EXCEPT ![p].row = (ledger[tx[p].mig] # NoRow), ![p].stage = "wrote"]
  /\ Move(p, "commit")
  /\ UNCHANGED <<dirVars, dbVars, opt, rows, plan>>

SendCommit(p) ==
  /\ pc[p] = "commit"
  /\ tx' = [tx EXCEPT ![p].stage = "sent"]
  /\ Move(p, "ack")
  /\ UNCHANGED <<dirVars, dbVars, opt, rows, plan>>

\* What the commit of p's transaction writes.
BlankText(p) == IF p \in Appliers THEN tx[p].text ELSE NoChecksum

NewText(p) == IF p \in Appliers THEN tx[p].text ELSE NoFile

Commit(p) ==
  LET m == tx[p].mig IN
  /\ tx[p].stage = "sent"
  /\ effect' = IF tx[p].eff THEN [effect EXCEPT ![m] = NewText(p)] ELSE effect
  /\ ledger' = IF tx[p].row THEN [ledger EXCEPT ![m] = NewText(p)] ELSE ledger
  /\ before' = CASE ~tx[p].row -> before
                 [] tx[p].row /\ p \in Appliers -> before \cup (Present(ledger) \X {m})
                 [] OTHER -> {pair \in before : m \notin {pair[1], pair[2]}}
  /\ EndTx(p)
  /\ IF pc[p] = "ack"
     THEN /\ plan' = [plan EXCEPT ![p][m] = NoFile]
          /\ Move(p, IF Remaining(p) = {m} THEN "done" ELSE "next")
     ELSE UNCHANGED <<plan, pc>>
  /\ UNCHANGED <<dirVars, opt, rows>>

-----------------------------------------------------------------------------
(* Failures                                                                  *)

FailAndGoOn(p) ==
  /\ pc[p] \in {"record", "commit"}
  /\ EndTx(p)
  /\ plan' = [plan EXCEPT ![p][tx[p].mig] = NoFile]
  /\ Move(p, IF Remaining(p) = {tx[p].mig} THEN "done" ELSE "next")
  /\ UNCHANGED <<dirVars, dbVars, opt, rows>>

\* Any call returns an error: the command stops there, and the deferred Rollback
\* ends its transaction.  A COMMIT that returns an error was not, or not yet, done.
Fail(p) ==
  /\ Active(p)
  /\ IF tx[p].stage = "sent" THEN tx' = tx \/ EndTx(p) ELSE EndTx(p)
  /\ Move(p, "failed")
  /\ UNCHANGED <<dirVars, dbVars, opt, rows, plan>>

\* The process is killed: the server still holds its session.
Crash(p) ==
  /\ Active(p)
  /\ Move(p, "failed")
  /\ UNCHANGED <<dirVars, dbVars, opt, rows, plan, tx>>

\* The server finds the client gone.
DropSession(p) ==
  /\ pc[p] \in Ended
  /\ tx[p].stage # "none"
  /\ EndTx(p)
  /\ UNCHANGED <<dirVars, dbVars, pc, opt, rows, plan>>

DirStep ==
  /\ LiveEdits \/ \A p \in Invocations : Quiet(p)
  /\ DirNext
  /\ UNCHANGED <<dbVars, pc, opt, rows, plan, tx>>

-----------------------------------------------------------------------------
Step(p) ==
  \/ \E cut \in Cuts : ReadHistory(p, cut) \/ ReadPendingRows(p, cut)
  \/ CompareHistory(p)
  \/ ListPending(p)
  \/ ListRollbackable(p)
  \/ \E m \in Migs : RunScript(p, m) \/ ScriptFails(p, m)
  \/ InsertRow(p)
  \/ DeleteRow(p)
  \/ SendCommit(p)
  \/ Commit(p)

Start(p) ==
  \/ /\ p \in Appliers
     /\ \E force, dry \in BOOLEAN : ApplyStart(p, force, dry)
  \/ /\ p \in Rollbackers
     /\ \E count \in 1..Cardinality(Migs), dry \in BOOLEAN, cut \in Cuts :
          RollbackStart(p, count, dry, cut)

Next ==
  \/ DirStep
  \/ \E p \in Invocations :
       Start(p) \/ Step(p) \/ Fail(p) \/ Crash(p) \/ DropSession(p)

Spec == Init /\ [][Next]_vars

\* An invocation that is running goes on until its database blocks it, and the
\* server in the end notices a dead client.
Fairness == \A p \in Invocations : WF_vars(Step(p)) /\ WF_vars(DropSession(p))

FairSpec == Spec /\ Fairness
-----------------------------------------------------------------------------
(* Properties                                                                *)

\* A recorded migration's objects exist, a recorded checksum is that of the script that
\* made them, and of a migration that is not recorded nothing exists, unless its down script
\* could not undo it: transactions of any number of invocations never separate the row from
\* the schema (migrate.go:183-216,266-290; diff/table.go:47).
LedgerMatchesSchema ==
  \A m \in Migs :
    /\ ledger[m] # NoRow => effect[m] # NoFile
    /\ ledger[m] \in Texts => ledger[m] = effect[m]
    /\ m \notin Lasting /\ effect[m] # NoFile => ledger[m] # NoRow

\* The detailed system implements the ledger its reader has in mind.
Ledger == INSTANCE MigrationLedger WITH
            Absent <- NoRow, Recorded <- Legacy, Original <- "whole"

LedgerSpec == Ledger!Spec

\* Without --force, and with nobody touching the directory meanwhile, apply runs
\* no text that shrugged.sum contradicts (apply.go:30-35, sum.go:137-179).
AppliedTextMatchesSum ==
  \A p \in Appliers :
    LET f == Up(tx[p].mig) IN
    /\ tx[p].stage # "none"
    /\ ~opt[p].force
    /\ sum.state = "full"
    /\ sum.entry[f] # NoFile
    => tx[p].text = sum.entry[f]

\* Without --force, and with nobody touching the directory meanwhile, apply runs
\* only on a history whose every recorded checksum is that of its file, whatever
\* the other invocations do in between (apply.go:37-52).
HistoryUnmodified ==
  \A p \in Appliers :
    tx[p].stage # "none" /\ ~opt[p].force =>
      \A m \in Present(ledger) \ Legacy : ledger[m] = dir[Up(m)]

\* Applied in order: nobody runs a migration while an earlier one of the
\* directory is still not recorded (apply.go:70-77 stops at the first failure).
\* That an earlier one is rolled back meanwhile is not considered: rollbacks are
\* careful (CarefulRollback).
AppliedInOrder ==
  \A p \in Appliers :
    tx[p].stage # "none" =>
      \A k \in Migs : k < tx[p].mig /\ dir[Up(k)] # NoFile => ledger[k] # NoRow

\* Used one command at a time on a directory that only grows at its end, apply
\* and rollback keep the recorded migrations an initial segment of the directory.
RecordedIsPrefix ==
  \A m, k \in Migs :
    ledger[m] # NoRow /\ k < m /\ dir[Up(k)] # NoFile => ledger[k] # NoRow

\* A careful use of rollback: on a directory that is as it was, and from the first
\* rollback on one command at a time.
RolledBack == \E r \in Rollbackers : pc[r] # "idle"

CarefulRollback ==
  /\ RolledBack' => changes' = 0
  /\ \A p \in Invocations :
       pc[p] = "idle" /\ pc'[p] # "idle" /\ RolledBack' => Alone(p)

CarefulSpec == Init /\ [][Next /\ CarefulRollback]_vars

\* Where the directory is as it was, the recorded migrations are an initial segment of it:
\* also after a command that failed in the middle of its list, or whose COMMIT was answered
\* by an error (apply.go:73, migrate.go:244).
UntouchedRecordsPrefix == changes = 0 => RecordedIsPrefix

\* A rollback removes what was applied last (docs/shrugged_rollback.md:3).
RollbackTakesLastApplied ==
  [][\A m \in Migs :
       ledger[m] # NoRow /\ ledger'[m] = NoRow =>
         \A k \in Migs : <<m, k>> \notin before]_vars

\* Every command that is not killed comes to an end, although it may have to wait for the
\* transaction of a command that failed or was killed, which holds the migration's objects,
\* its row and with it the table shrugged_migrations.
CommandsEnd == \A p \in Invocations : Active(p) ~> pc[p] \in Ended
=============================================================================
