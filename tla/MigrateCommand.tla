---------------------------- MODULE MigrateCommand ----------------------------
(***************************************************************************)
(* `shrugged migrate`, `shrugged diff` and `shrugged validate`             *)
(* (internal/cli) with the database they work in (internal/docker): a      *)
(* fresh container, or, when DATABASE_URL is set, the database it names.   *)
(* The commands run one after another; between them the schema file is     *)
(* edited and, where the team keeps them elsewhere, down files are moved   *)
(* out of the migrations directory.                                        *)
(*                                                                         *)
(* A migration is written change by change, and a command that breaks off  *)
(* leaves what it has written: an up file with the first statements is     *)
(* replayed by the next command like any other.  Writes torn inside a      *)
(* statement are left out; shrugged.sum is the subject of MigrationDir.    *)
(***************************************************************************)
EXTENDS SchemaEdits

CONSTANTS
  Modes,      \* the cases considered: DATABASE_URL is set (TRUE), or it is not
  InPublic,   \* the objects that DROP SCHEMA public CASCADE takes along
  Fresh,      \* the schema of a database that was just created
  FirstDb,    \* the schema of the database DATABASE_URL names
  FirstDirs,  \* the cases considered: the migrations directory exists already (TRUE), or not
  KeepsDowns, \* do the down files stay in the migrations directory?
  Faults,     \* may a step fail for a reason outside the model (Docker, connections)?
  MaxFiles, MaxKills

ASSUME CommandAssumption ==
  /\ InPublic \subseteq Objects
  /\ Modes \subseteq BOOLEAN /\ FirstDirs \subseteq BOOLEAN /\ {KeepsDowns, Faults} \subseteq BOOLEAN
  /\ {MaxFiles, MaxKills} \subseteq Nat
  /\ \A o \in Objects : \A x \in Needs[o] : x < o   \* schema.sql lists them in order

VARIABLES
  ci,         \* is DATABASE_URL set?
  schema,     \* what the schema file defines
  files,      \* the migrations: their scripts, whether the down file is there, and
              \* (history) whether the up file was written to its end, and then the schema
              \* file it was generated from
  made,       \* does the migrations directory exist?
  db,         \* the database the command works in (between two commands: DATABASE_URL's)
  containers, \* how many containers run
  kills,      \* how many commands were killed
  cmd, pc,    \* the command, and where it is
  todo,       \* the scripts still to replay
  current, found, \* what buildCurrentState and Compare returned
  wrote,      \* how many of the changes the file being written has
  result      \* how the command ends

vars == <<ci, schema, files, made, db, containers, kills, cmd, pc, todo, current, found, wrote, result>>

Commands == {"migrate", "diff", "validate"}
Steps    == {"idle", "connect", "readDir", "replay", "introspect", "reset", "applySchema",
             "compare", "makeDir", "createUp", "writeUp", "createDown", "writeDown", "sum",
             "stop"}
Results  == {"none", "written", "reported", "inSync", "valid", "refused", "brokenOff"}

EmptySchema == [o \in Objects |-> Absent]

\* What every database of the server has, whatever the schema file says: the role that
\* connects, for one.
Given == {o \in Objects : Has(Fresh, o) /\ o \notin InPublic}

\* The schemas in reach of a schema file, as they are introspected.
Wanted == {s \in Schemas : \A o \in Given : s[o] = Fresh[o]}

CommandTypeOK ==
  /\ ci \in Modes
  /\ schema \in Wanted /\ current \in Schemas
  /\ db \in Schemas \cup {Fresh, FirstDb}
  /\ Len(files) <= MaxFiles /\ (files # <<>> => made)
  /\ containers \in Nat /\ kills \in 0..MaxKills
  /\ wrote \in Nat /\ (pc \in {"writeUp", "writeDown"} => wrote <= Len(found))
  /\ cmd \in Commands \cup {"none"} /\ pc \in Steps /\ result \in Results

Init ==
  /\ ci \in Modes
  /\ schema \in Wanted
  /\ files = <<>> /\ made \in FirstDirs
  /\ db = FirstDb
  /\ containers = 0 /\ kills = 0
  /\ cmd = "none" /\ pc = "idle" /\ result = "none"
  /\ todo = <<>> /\ current = EmptySchema /\ found = <<>> /\ wrote = 0

\* The mutant that forgets the reset; then what both reset scripts do.
ResetNothing(state) == state
Reset(state) == [o \in Objects |-> IF o \in InPublic THEN Absent ELSE state[o]]

\* The schema file as a script: one plain CREATE, GRANT or COMMENT per object, in the order
\* of the catalog.
Plainly(o) == IF Catalog[o].kind \in {"grant", "defaultPrivilege", "comment"}
              THEN KindOf(o).create ELSE "create"
SchemaFile == [o \in Objects |->
  IF Has(schema, o) /\ o \notin Given THEN Statement(Plainly(o), o, schema[o])
  ELSE Statement("remark", o, Absent)]

\* ReadDir sorts by name: "<t>.down.sql" comes before "<t>.sql".
ScriptsOf(file) == IF file.kept THEN <<file.down, file.up>> ELSE <<file.up>>

\* The mutant that stops one migration short.
ReplayButNewest(all) == FlattenSeq([i \in 1..(Len(all) - 1) |-> ScriptsOf(all[i])])
Replay(all) == FlattenSeq([i \in DOMAIN all |-> ScriptsOf(all[i])])
-----------------------------------------------------------------------------
\* What a command starts from: a database just created, or the user's after its reset.
Base == IF ci THEN Reset(FirstDb) ELSE Fresh

\* The up scripts, run one after the other.
Rebuilt(all) ==
  LET after[n \in 0..Len(all)] ==
        IF n = 0 THEN [ok |-> TRUE, db |-> Base]
        ELSE LET r == after[n-1] IN IF r.ok THEN Run(r.db, all[n].up) ELSE r
  IN  after[Len(all)]

\* What the theorems suppose of the server: the migrations directory is there, the down
\* files are elsewhere, and a reset takes all but what every database has; of what a new
\* database has, it takes no more than comments.
TidyServer ==
  /\ FirstDirs = {TRUE} /\ ~KeepsDowns
  /\ Fresh \in Schemas /\ InPublic \cup Given = Objects
  /\ \A o \in Given : FirstDb[o] = Fresh[o]
  /\ \A o \in Objects \ Given : Has(Fresh, o) =>
       Catalog[o].kind = "comment" /\ o \in Removable \ GrowOnly

EditSchema ==
  /\ pc = "idle" /\ files # <<>>
  /\ schema' \in (Edits(Rebuilt(files).db) \cap Wanted) \ {schema}
  /\ UNCHANGED <<ci, files, made, db, containers, kills, cmd, pc, todo, current, found, wrote, result>>

MoveDowns ==
  /\ pc = "idle" /\ ~KeepsDowns
  /\ \E i \in DOMAIN files : files[i].kept
  /\ files' = [i \in DOMAIN files |-> [files[i] EXCEPT !.kept = FALSE, !.down = <<>>]]
  /\ UNCHANGED <<ci, schema, made, db, containers, kills, cmd, pc, todo, current, found, wrote, result>>

Invoke(c) ==
  /\ pc = "idle"
  /\ KeepsDowns \/ \A i \in DOMAIN files : ~files[i].kept
  /\ c = "migrate" => Len(files) < MaxFiles
  /\ cmd' = c /\ pc' = "connect"
  /\ UNCHANGED <<ci, schema, files, made, db, containers, kills, todo, current, found, wrote, result>>

\* StartPostgres: a new container, or the reset of the database DATABASE_URL names.
StartPostgres ==
  /\ pc = "connect"
  /\ db' = IF ci THEN Reset(db) ELSE Fresh
  /\ containers' = IF ci THEN containers ELSE containers + 1
  /\ pc' = IF cmd = "validate" THEN "applySchema" ELSE "readDir"
  /\ UNCHANGED <<ci, schema, files, made, kills, cmd, todo, current, found, wrote, result>>

\* buildCurrentState without a directory: the empty schema, not what the database has.
ReadDir ==
  /\ pc = "readDir"
  /\ todo' = Replay(files)
  /\ pc' = IF made THEN "replay" ELSE "reset"
  /\ UNCHANGED <<ci, schema, files, made, db, containers, kills, cmd, current, found, wrote, result>>

\* A script the database refuses ends the command; the deferred stop comes next.
Execute(script, step) ==
  LET run == Run(db, script)
  IN  /\ db' = run.db
      /\ pc' = IF run.ok THEN step ELSE "stop"
      /\ result' = IF run.ok THEN result ELSE "refused"

ReplayScript ==
  /\ pc = "replay" /\ todo # <<>>
  /\ Execute(Head(todo), "replay")
  /\ todo' = Tail(todo)
  /\ UNCHANGED <<ci, schema, files, made, containers, kills, cmd, current, found, wrote>>

ReadCurrent ==
  /\ pc = "replay" /\ todo = <<>>
  /\ current' = db
  /\ pc' = "reset"
  /\ UNCHANGED <<ci, schema, files, made, db, containers, kills, cmd, todo, found, wrote, result>>

ResetDatabase ==
  /\ pc = "reset"
  /\ db' = Reset(db)
  /\ pc' = "applySchema"
  /\ UNCHANGED <<ci, schema, files, made, containers, kills, cmd, todo, current, found, wrote, result>>

ApplySchema ==
  /\ pc = "applySchema"
  /\ Execute(SchemaFile, IF cmd = "validate" THEN "introspect" ELSE "compare")
  /\ UNCHANGED <<ci, schema, files, made, containers, kills, cmd, todo, current, found, wrote>>

\* validate introspects and lints what the schema file made.
Introspect ==
  /\ pc = "introspect"
  /\ pc' = "stop" /\ result' = "valid"
  /\ UNCHANGED <<ci, schema, files, made, db, containers, kills, cmd, todo, current, found, wrote>>

CompareSchemas ==
  /\ pc = "compare"
  /\ \E order \in Orders : found' = Compare(current, db, order)
  /\ IF found' = <<>> THEN pc' = "stop" /\ result' = "inSync"
     ELSE IF cmd = "diff" THEN pc' = "stop" /\ result' = "reported"
     ELSE pc' = "makeDir" /\ UNCHANGED result
  /\ UNCHANGED <<ci, schema, files, made, db, containers, kills, cmd, todo, current, wrote>>

Newest == files[Len(files)]

MakeDirectory ==
  /\ pc = "makeDir"
  /\ made' = TRUE
  /\ pc' = "createUp"
  /\ UNCHANGED <<ci, schema, files, db, containers, kills, cmd, todo, current, found, wrote, result>>

CreateUpFile ==
  /\ pc = "createUp"
  /\ files' = Append(files, [up |-> <<>>, down |-> <<>>, kept |-> FALSE,
                             whole |-> FALSE, goal |-> EmptySchema])
  /\ wrote' = 0
  /\ pc' = "writeUp"
  /\ UNCHANGED <<ci, schema, made, db, containers, kills, cmd, todo, current, found, result>>

WriteUp ==
  /\ pc = "writeUp"
  /\ LET last == wrote + 1 = Len(found)
     IN  /\ files' = [files EXCEPT ![Len(files)].up = @ \o SQL(found[wrote + 1]),
                                   ![Len(files)].whole = last,
                                   ![Len(files)].goal = IF last THEN schema ELSE @]
         /\ pc' = IF last THEN "createDown" ELSE "writeUp"
  /\ wrote' = wrote + 1
  /\ UNCHANGED <<ci, schema, made, db, containers, kills, cmd, todo, current, found, result>>

CreateDownFile ==
  /\ pc = "createDown"
  /\ files' = [files EXCEPT ![Len(files)].kept = TRUE]
  /\ pc' = "writeDown"
  /\ UNCHANGED <<ci, schema, made, db, containers, kills, cmd, todo, current, found, wrote, result>>

\* The changes in reverse order.
WriteDown ==
  /\ pc = "writeDown"
  /\ files' = [files EXCEPT ![Len(files)].down = @ \o DownSQL(found[wrote])]
  /\ wrote' = wrote - 1
  /\ pc' = IF wrote' = 0 THEN "sum" ELSE "writeDown"
  /\ UNCHANGED <<ci, schema, made, db, containers, kills, cmd, todo, current, found, result>>

UpdateSum ==
  /\ pc = "sum"
  /\ pc' = "stop" /\ result' = "written"
  /\ UNCHANGED <<ci, schema, files, made, db, containers, kills, cmd, todo, current, found, wrote>>

\* The command's own variables go with the command, and so does its database.
Ends ==
  /\ pc' = "idle" /\ cmd' = "none" /\ result' = "none"
  /\ db' = IF ci THEN db ELSE FirstDb
  /\ todo' = <<>> /\ current' = EmptySchema /\ found' = <<>> /\ wrote' = 0

\* The mutant that stops the database of DATABASE_URL as well.
StopContainerAlways ==
  /\ pc = "stop"
  /\ containers' = containers - 1
  /\ Ends
  /\ UNCHANGED <<ci, schema, files, made, kills>>

\* The deferred StopContainer; it does nothing for the database of DATABASE_URL.
StopContainer ==
  /\ pc = "stop"
  /\ containers' = IF ci THEN containers ELSE containers - 1
  /\ Ends
  /\ UNCHANGED <<ci, schema, files, made, kills>>

\* The mutant that leaves the container it could not connect to.
WaitFailsUnstopped ==
  /\ pc = "connect" /\ Faults
  /\ containers' = IF ci THEN containers ELSE containers + 1
  /\ Ends
  /\ UNCHANGED <<ci, schema, files, made, kills>>

\* The container starts but waitForPostgres gives up: StartPostgres stops it itself.
WaitFails ==
  /\ pc = "connect" /\ Faults
  /\ Ends
  /\ UNCHANGED <<ci, schema, files, made, containers, kills>>

StepFails ==
  /\ pc \in Steps \ {"idle", "connect", "stop"} /\ Faults
  /\ pc' = "stop" /\ result' = "brokenOff"
  /\ UNCHANGED <<ci, schema, files, made, db, containers, kills, cmd, todo, current, found, wrote>>

\* An interrupt ends the process: nothing traps it, and no deferred call runs.
Kill ==
  /\ pc \notin {"idle", "connect"} /\ kills < MaxKills
  /\ kills' = kills + 1
  /\ Ends
  /\ UNCHANGED <<ci, schema, files, made, containers>>

Next ==
  \/ EditSchema \/ MoveDowns
  \/ \E c \in Commands : Invoke(c)
  \/ StartPostgres \/ ReadDir \/ ReplayScript \/ ReadCurrent \/ ResetDatabase
  \/ ApplySchema \/ Introspect \/ CompareSchemas \/ MakeDirectory \/ CreateUpFile
  \/ WriteUp \/ CreateDownFile \/ WriteDown \/ UpdateSum \/ StopContainer
  \/ WaitFails \/ StepFails \/ Kill

Spec == Init /\ [][Next]_vars
-----------------------------------------------------------------------------
Goal == Newest.goal

(* The migrations are enough to rebuild the schema, whatever an interrupted  *)
(* command has left of one: the up scripts are accepted, one after the other,*)
(* by the database a command starts with, and once the newest migration was  *)
(* written to its end they make the schema file it was generated from        *)
(* (cli/migrate.go, cli/diff.go buildCurrentState).                          *)
UpsRebuildSchema ==
  pc = "idle" /\ files # <<>> =>
    /\ Rebuilt(files).ok
    /\ Newest.whole => Rebuilt(files).db = Goal

(* A schema file for which a migration was just generated is in sync: no     *)
(* command finds a change in it (the messages of cli/migrate.go:78 and       *)
(* cli/diff.go:77), although a new database has objects that the reset takes *)
(* away and the schema file does not define.                                 *)
MigrateConverges ==
  files # <<>> /\ Newest.whole /\ schema = Goal =>
    pc \notin {"makeDir", "createUp"} /\ (pc = "stop" => result # "reported")

(* The scripts the commands run are accepted: the migrations directory can   *)
(* always be replayed and a schema that was valid stays valid.               *)
NothingRefused == result # "refused"

(* Whatever way a command ends, its container is stopped; only a killed      *)
(* command leaves one behind (cli/diff.go, docker.go StartPostgres).         *)
ContainersStopped == pc = "idle" => containers <= kills

(* The commands work in a database of their own, not in the user's.          *)
TargetUntouched == ci => db = FirstDb
===============================================================================
