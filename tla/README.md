# Verification of shrugged

TLA+ models of shrugged, a declarative PostgreSQL migration tool, with the TLC
configurations that check them on small instances and TLAPS proofs of the main
results for every value of the constants. `PROJECT.json` lists the components,
the runs, what each definition translates (`map`) and the hazards the properties
are aimed at.

    tlc -workers 2 -config migrate_race.cfg MCMigrate     # a run
    tlapm MigrateProofs.tla                               # a proof

## 1. The system

| Component | State it keeps | Operations | What is hard about it |
|---|---|---|---|
| Migration runner (`internal/migrate/migrate.go`, `cli/apply.go`, `cli/rollback.go`, `cli/status.go`) | table `shrugged_migrations`; the schema itself | apply, rollback, status | several commands at once, kills, COMMITs in flight, plans that are stale when they run |
| Migrations directory (`internal/migrate/sum.go`, `cli/migrate.go`) | `T.sql`, `T.down.sql`, `shrugged.sum` | migrate writes all three, people edit, apply validates | a crash between two writes, truncation, edits between check and use |
| Scratch-database pool (`internal/api/pool.go`, `cmd/api/main.go`, `docker/docker.go`) | a queue of databases, a counter | Start, Acquire, Release, Shutdown | exclusive use outside the mutex, expired contexts, dirty databases, restarts that reuse names |
| Rate limiter, cache, handler (`internal/api`) | windows per client; results by key; shared result objects | Allow, Remaining, cleanup; Get, Set, cleanup; handleDiff | expiry, eviction at the limit, pointers shared by concurrent requests |
| Diff engine (`internal/diff`) | none | Compare, SQL, DownSQL, IsReversible of 29 kinds | order of the statements, dependencies, what identifies an object, what a change claims to be able to undo |
| Commands migrate, diff, validate (`internal/cli`, `docker/docker.go`) | a container or the database of `DATABASE_URL`; the directory | replay the migrations, reset, apply the schema file, compare, write | a chain of migrations that must replay; what a reset leaves behind; kills |
| Introspection (`internal/introspect`) | none | about 30 catalog queries | random order of tables; fields not loaded |
| Parser, lint (`internal/parser`) | none | LoadFile, ToSQL, Lint | sequential |
| Code generation (`cli/generate.go`, `internal/codegen/golang`, `parser/query_parser.go`, `introspect/query.go`) | the models and the queries directory, which hold user code as well | read the schema, merge and write models, parse queries, let the database describe them, write functions, clean | files emptied by a killed write; what the user added to generated files; a schema that moves between two readings; imports nothing uses any more |
| inspect, configuration, command line | none | read once, print | - |

The commands call the diff engine and the introspection; the API server calls
both inside its pool; apply and rollback share only the directory and the
table of migrations with the rest. PostgreSQL and Docker are external: the
definitions about them say what the code relies on and are marked so in the map.

What makes each part correct:

* **runner**: a migration is recorded exactly while its objects exist (but for what a down
  script of remarks leaves), with the checksum of the text that made them; nothing is applied
  out of order or against a contradicted checksum; every command ends.
* **directory**: migrate never vouches for a half-written file of its own.
* **pool**: one hand per database, existing while used, clean when introspected,
  none forgotten; every request is answered.
* **limiter, cache, handler**: no window over its limit, no refusal without cause, fresh
  hits of the right key marked as such, the right victim when the cache is full.
* **diff engine**: the up script is accepted and reaches the desired schema; what
  claims to be reversible is reversed.
* **columns of a table**: what is altered forth and back ends where the schema files say,
  or is refused for a reason that is in the rows or the types.
* **commands**: the chain of migrations rebuilds the schema, a second migrate
  finds nothing to do, no container is left by a command that was not killed.
* **generate**: the user's code survives, whatever is killed; a successful run leaves models
  and functions that fit the schema, the queries and each other, and that compile.

## 2. The modules

| Module | Models | Composes |
|---|---|---|
| `MigrationDir` | directory, `shrugged.sum`, the file writes of migrate, people's edits, `ValidateSum` | |
| `Migrate` | apply and rollback, any number of invocations against one database | extends `MigrationDir` |
| `MigrationLedger` | what the table of migrations promises: Apply and Rollback as single steps | implemented by `Migrate` |
| `MigrateProofs` | theorems about `Migrate`: types, ledger, refinement, the checks of apply and `shrugged.sum` | extends it |
| `DatabasePool` | pool, requests of `performDiff`, process life cycle, late SQL | |
| `ExclusiveUse` | a resource is in one hand at a time | implemented by `DatabasePool` |
| `PoolProofs` | theorems about `DatabasePool`: exclusive use, accounts, types, clean databases | extends it |
| `RateLimiter`, `DiffCache` | one mutex-protected object each, one action per method | |
| `DiffServer` | a POST /diff request through middleware, cache and handler | instances of `RateLimiter` and `DiffCache` |
| `ServerProofs` | theorems about `DiffServer`: types and sizes, the limiter, what hits are, eviction | extends it |
| `TableOrder` | `sortTablesByDependency` | |
| `SchemaDiff` | `Compare` and the statements of the changes; PostgreSQL accepting or refusing them | extends `TableOrder` |
| `SchemaEdits` | which schema files and edits a run considers; orders of tables; what the theorems suppose of both (`TidyCatalog`) | extends `SchemaDiff` |
| `ListFacts` | what the proofs need of any list: flattening, filtering, `SetToSeq`, induction up to a number | |
| `DiffProofs` | theorems about the operators of the diff engine: the sort, the scripts of a migration | extends `SchemaEdits` and `ListFacts` |
| `RoundTrip` | compare, run up, run down | extends `SchemaEdits` |
| `MigrateCommand` | migrate, diff, validate with their container or database | extends `SchemaEdits` |
| `CommandProofs` | theorems about `MigrateCommand` and `RoundTrip` | extends both and `DiffProofs` |
| `TableColumns` | `compareTableColumns`, `generateAlterTable` and its down script, statement by statement on a table with rows | |
| `ColumnsProofs` | theorems about `TableColumns` | extends it |
| `GoModel` | a generated model file: new, merged, its imports | |
| `QueryFile` | `parseQueryContent` and `extractParameters` | |
| `QueryBinding` | the description of a query, its model, its function | extends `GoModel` and `QueryFile` |
| `Generate` | the generate command, its user, and a schema that changes | extends `QueryBinding` |
| `GenerateProofs` | theorems about `Generate`: the user's code, the models, the functions, types | extends it and `ListFacts` |
| `MC...` | small instances | one per checked module |

### How state and actions correspond to the code

**Migrate.** `ledger`, `effect` and `before` are the committed database: rows and
checksums, whose objects exist, and the order of `applied_at`. Each invocation has
a program counter, its flags, the rows `GetApplied` gave it, the plan it read, and
its session's transaction `tx`. The steps are the calls that reach the database:
read the history, compare, read again, list the files, and per migration the
script, the INSERT or DELETE, sending COMMIT, and the commit itself, which the
server may do after the client is gone. Each reading of the table and each apply begins with
`EnsureMigrationsTable`, whose ALTER TABLE waits for everybody who has written to the table (`TableFree`);
it is one step with the reading or the script after it, since the lock is given back before these
and only the wait can be seen by others. A down script takes the objects away again, unless the
migration is one of `Lasting`: then it is nothing but remarks (`diff/table.go:47`), succeeds and leaves
them, and the next apply of the migration fails on them. `Fail` is an error return, `Crash` a kill,
`DropSession` the server noticing. A text is known by how it came about, so its
checksum is the text.

**MigrationDir.** One action per file call: create up, write up, create down,
write down, hash, truncate `shrugged.sum`, its first line, the rest. `GenStop` is a
kill or an error between any two.

**DatabasePool.** `at` is where a request is in `performDiff`, `held` its database.
The locked part of Acquire is one step, everything outside the mutex another. A
call may fail by itself (`Failures`) or because its context has expired; a failed
call may or may not have had its effect. `public` and `other` record whose SQL
left objects in a database, inside and outside schema `public`; `late` holds
statements whose client gave up. A crash forgets memory and keeps the databases.
`lost` collects the databases that the process gave up with an error in its hand (a CREATE or DROP
that reported one, a death or an exit before the drop); it is what `NothingForgotten` sets apart. An object a statement
leaves after its client gave up carries the mark "late": no lock or deadline of the code could keep it out. A reset
that was given up may run late as well and leaves the mark "reset" in place of what was there; `OnlyOwnObjects` then
allows the request to find nothing.

**DiffServer.** `objects` are the `*DiffResult`s, shared through `ptr` and the cache;
`MarkCached` and `Encode` touch them without a lock, as the handler does.
`BadRequest` stands for every request that is counted by the limiter and answered
without a diff. Clocks advance between any two steps. `granted` is a history variable: when the limiter let
each request of a client through; the limiter itself remembers only windows that are not over.

**SchemaDiff.** An object is an index into `Catalog`; its definition is three numbers:
`main`, what Compare looks at for its kind, `rest` (of a view how many columns it has, of a function its result type),
and `limits`, what only a CREATE writes. A kind is a record with the fields
that identify an object (`key`), the parts that are compared, the parts an ALTER
rewrites, the parts the down script of a DROP restores, and the form of its statements: `create`, `replace` (OR REPLACE),
`ensure` (IF NOT EXISTS), `dropIf`, `unset`, `recreate` (drop and create),
`broken` (PostgreSQL rejects it). `Accepts` and `Effect` are PostgreSQL's side, with what it refuses of a CREATE OR REPLACE (`Replaceable`), of a view's columns
(`Shows`) and of a column dropped under a view or index (`Stripped`); a script runs
in one transaction. Not among its refusals are types (a column's type is `TableColumns`' subject), a new value of an enum
that is used in the transaction that adds it, and columns under triggers, policies and foreign keys. A right that PUBLIC has by default is an
object like any grant, because introspection lists it (`introspect.go:1552-1590`): a catalog with functions or composite types has it too. The loops of the comparisons keep the members of a list that an `if` lets through (`Among`); their
results are flattened into one list of changes.

**TableOrder.** `visited`, `temp` and `sorted` are one record that `visit` takes and returns. `Visit` is a
recursive function of how many tables may still be begun, which the number of all tables bounds: a call for a table that is begun
already does not go deeper.

**MigrateCommand.** One action per call of the command that reaches Docker, the
database or the directory; of a migration, `goal` is history, the schema file it was generated from, and `whole`, whether its up
file was written to its end. The files are written change by change, and what a broken-off command has written stays; a write torn
within a statement is left out, and so is `shrugged.sum`, which these commands only write: both are
`MigrationDir`'s subject. The schema file is a list with one statement for each object of the catalog, a comment
where it has none; what the migrations of a directory make of the database a command starts with (`Base`) is `Rebuilt`. A new
database is `Fresh`: in the instances it has the comment on schema public, which a reset takes away, and the role the container is
started with, which it does not (`Given`).

**TableColumns.** `versions` is the schema file through time, one migration between each two;
`cols` is the table as PostgreSQL has it, `nulls` and `wide` the columns with values that another
definition would not admit. A column is what `loadTables` reads of it: type, nullability, default (the
identity and generation branches of `table.go` are never taken, because no query fills those fields). A migration or a
rollback (`run`) has the set of statements that are still to be run (`script`) and the table as its transaction sees it (`table`);
its statements come one by one, in the order of `generateAlterTable`, the altered columns in that of a Go map: any. The first
that PostgreSQL refuses rolls everything back, after the last one the table becomes `cols`.

**Generate.** One action per file call or statement: the schema is read once (`seen`); each model is
read, merged and opened in one step (`MergeModel`, which leaves the file empty, `Torn`) and written in the next;
then the query file, the descriptions of all queries from the database *as it is then*, `querier.go`, the
functions, and the orphans one by one. The tables in `Skipped`, which is shrugged_migrations, are passed over.
`mine` is a history variable with what the user wrote into each model file: fields
of the Extension struct, other declarations, tags, blocks of constants. A Go file is a record of its declarations and imports; the four
column types are those that differ in their import. A line of a query file is a record of what the generator looks at.
`Interrupt` is a kill or an error between any two steps. The user edits between runs; others
migrate the database at any time.

## 3. The runs

| Run | Instance | Checks |
|---|---|---|
| `migrate_race` | 1 apply, 2 rollbacks, 2 migrations (one recorded before checksums existed, one with a down script of remarks), broken reads, kills; fair | `TypeOK`, `LedgerMatchesSchema`, `LedgerSpec` (refinement), `CommandsEnd` (liveness) |
| `migrate_checked` | 2 applies and a rollback, 2 migrations, 2 changes of the directory between commands; a rollback runs alone and on an unchanged directory | `AppliedTextMatchesSum`, `HistoryUnmodified`, `AppliedInOrder`, `UntouchedRecordsPrefix`, `OwnFilesHashedWhole` |
| `pool_owners` | 2 requests, pool of 1, failures, timeouts, late SQL and resets, 1 restart; fair | `PoolTypeOK`, `OnlyOwnObjects`, `NothingForgotten`, `ExclusiveSpec` (refinement), `RequestsAnswered` (liveness) |
| `server` | 3 requests of one client, 3 keys, limit 2, cache of 2, windows and TTL of 1 tick, 3 ticks | `ServerTypeOK`, `HitsAreMarked`, `WorkIsLimited`, `RefusedOnlyWhenUsed`, `HitsAreFresh`, `OldestGoes` |
| `diff_roundtrip` | 8 objects of 7 kinds, every schema over them, every edit that keeps the tables, every order of tables | `RoundTripTypeOK`, `UpReachesDesired`, `ReversibleMeansReversed` |
| `commands` | 2 tables, a view, a comment, a role; up to 2 migrations, 1 kill, failures, with and without `DATABASE_URL` | `CommandTypeOK`, `UpsRebuildSchema`, `MigrateConverges`, `NothingRefused`, `ContainersStopped` |
| `generate` | 2 tables and that of the migrations, 1 enum, 1 composite type, 2 queries; up to 3 edits, kills anywhere, every small query file | `GenerateTypeOK`, `OwnCodeSurvives`, `ModelsMatchSchema`, `GenerateIsIdempotent`, `TablesCompile`, `FunctionsMatchQueries`, `ModelsFitQueries`, `FunctionsCompile`, `CleanLeavesTheQueries` |
| `columns` | 2 columns, 3 types, 3 versions of the schema file, rows with and without NULLs and wide values | `UpMakesTheTable`, `DownMakesTheOldTable`, `ValuesStay` |
| `downs_replayed` | as `commands`, down files left in place | violates `NothingRefused` |
| `diff_drop_table` | as `diff_roundtrip`, one table removable | violates `UpReachesDesired` |
| `first_migration` | as `commands`, without a migrations directory | violates `NothingRefused` |
| `rollback_last` | a migration with an earlier name is added later | violates `RollbackTakesLastApplied` |

Every property of a passing run has a mutant in `PROJECT.json`, a plausible bug in
the code it is about, defined just before the definition it replaces.
Deadlock is not checked: the commands end and requests are answered, so every
instance stops.

### Bounds, and why they are enough

* `Migs`: two migrations give every order of one before the other, and a loop that
  goes on or stops.
* `CarefulRollback` is an action constraint of `migrate_checked` (the theorems have it in their specification, `CarefulSpec`):
  `UntouchedRecordsPrefix` is only claimed for rollbacks that run alone; applies overlap.
* Invocations: the interactions are pairwise (a lock, a row, a plan made stale by
  another's commit); a third one makes the waiting chains.
* `MaxChanges`: one change suffices to make a check stale, two to generate and then
  edit; the theorems hold for any number.
* Pool: a queue of one makes reuse, overflow and the empty pool happen with two
  requests; `MaxNames` is a consequence of each request creating at most one database.
* Time: three ticks with windows and TTLs of one tick give two boundaries.
* `Catalog`: the kinds differ in few ways (the fields of a kind), and each way occurs
  in an instance; the eight objects have each type of dependency the code orders
  (table-table, table-enum, default-sequence, index-table, view-table, comment-table).
* `ShopStarts` combines three bounds, since edits of one thing seldom need edits of another: up to three
  edits of schema and models without queries (add a field, change the column, change it back); two edits of anything; and
  every query file of up to four of six lines, with the functions of an earlier one in the directory, without edits.
* `MaxVersions` = 3: two migrations in a row, so that the second starts from what the first or its rollback left.
* `MaxFiles` = 2: the second migration is the first that replays another.

### Fairness

`migrate_race` assumes `WF(Step(p))`: a command that is running goes on unless its database
makes it wait, and `WF(DropSession(p))`: the server eventually notices a dead client. Starting a
command, failing and being killed are not fair. `pool_owners` assumes `WF(Serving(r))`:
net/http gives each request a goroutine and every database call ends when the
request's context does; the one DROP without a deadline (`pool.go:67`) is taken to be
answered by the server. Nothing else is fair.

### What the violations show

* `downs_replayed`: `buildCurrentState` executes every `.sql` file, the down files
  included (`cli/diff.go:107`), and `T.down.sql` sorts before `T.sql`. The second `shrugged
  migrate` of a project is refused by the database unless the down files are moved away.
  `commands` shows that everything else about the chain works when they are.
* `diff_drop_table`: drops are emitted in the order of creations, so a table goes before its
  view, its index or its comment.
* `first_migration`: without a directory the current state is taken to be an empty schema (`cli/diff.go:96`), not what a new database has;
  the first migration creates the role `shrugged`, and no later command can replay it. With an empty directory all goes well:
  that is `commands`.
* `rollback_last`: rollback goes by name and not by `applied_at`.

### Configurations outside the regular runs

The directory also holds the configurations of instances that were explored while modelling, each
with one property. They are not part of the regular runs.

| Configuration (module) | Result |
|---|---|
| `rerun_rollback` (`MCMigrate`) | violates `LedgerMatchesSchema`: two applies, one rollback, and scripts that succeed when run again. The second apply runs its script without effect while the first is rolled back, and then records the migration. This is why the theorem needs `ScriptsSafe` |
| `lossy_history` (`MCMigrate`) | violates `HistoryUnmodified`: `GetApplied` ignores `rows.Err()` (`migrate.go:72-80`), so a connection that breaks while rows are read shortens the history silently |
| `dir_sum_truncated` (`MigrationDir`) | violates `ModifiedStaysReported`: `WriteSum` truncates first, and an empty `shrugged.sum` is valid |
| `pool_outside` (`MCDatabasePool`) | violates `OnlyOwnObjects` when SQL creates objects outside schema public: the reset recreates that schema only |
| `diff_cycle` (`MCRoundTrip`) | violates `UpReachesDesired`: tables in a foreign-key cycle are left out of the migration silently |
| `diff_view_columns` (`MCRoundTrip`) | violates `UpReachesDesired`: a changed view is replaced, never dropped and created (`view.go:17`), and PostgreSQL lets no column of a replaced view go |
| `diff_role_limits` (`MCRoundTrip`) | violates `ReversibleMeansReversed`: the down script of a dropped role (`role.go:88-119`) has neither its CONNECTION LIMIT nor its VALID UNTIL, and the change counts as reversible |
| `outside_public` (`MCMigrateCommand`) | violates `NothingRefused`: a schema other than public survives the reset between the migrations and the schema file |
| `database_url` (`MCMigrateCommand`) | violates `TargetUntouched`: with `DATABASE_URL` the commands reset the database it names |
| `generate_compile` (`MCGenerate`) | violates `ModelsCompile`: the merge of a composite type never removes an import, and the import of an array of times is not seen as needed (`filterImportsForFields`) |
| `generate_clean` (`MCGenerate`) | violates `CleanRemovesOrphans`: without a query left, generate returns (`cli/generate.go:116`) before the function that cleans is called, against `docs/shrugged_generate.md:15`. `CleanLeavesTheQueries` holds for every other file |
| `generate_ledger` (`MCGenerate`) | violates `ScannedModelsExist`: shrugged_migrations gets no model (`golang.go:42`) and is matched with queries all the same (`queries.go:134`) |
| `columns_back` (`MCTableColumns`) | violates `ReversibleIsReversed`: `IsReversible` does not look at types, and integer to text has no way back without USING |

Others differ from a configuration that is here in a constant or two, whose values are in the MC modules:

| Changed | Result |
|---|---|
| `diff_drop_table.cfg` with `FunctionCatalog`, `FunctionNeeds` (also as `PartOf`), `OneVersion2` and everything removable | violates `UpReachesDesired`: DROP FUNCTION comes before the REVOKE of the right that PUBLIC has on every function by default, which introspection lists |
| `diff_cycle.cfg` with `TriggerCatalog`, `TriggerNeeds`, `TriggerParts` | violates `UpReachesDesired`: introspection loads a trigger's definition, `generateCreateTrigger` uses timing, events and function, which stay empty |
| `diff_cycle.cfg` with `OverloadCatalog`, `NoParts2`, `OneVersion2` | violates `UpReachesDesired`: functions are compared by name only |
| `generate.cfg` with `OwnBlocks <- EnumsConstants` | violates `OwnCodeSurvives`: a block of the user's constants in which a name begins with the enum's is taken for the generated one (`merge.go:267`) |
| `columns.cfg` with `Partitioned = TRUE` | violates `UpMakesTheTable`: a partition is introspected as a table of its own beside its parent, and ALTERs on it are refused |

## 4. What is proved

All proofs are checked by TLAPS to the last leaf, for every value of the constants.

* `TypeCorrect`: `Spec => []TypeOK` for `Migrate`.
* `LedgerCorrect`: with `ScriptsSafe` (if scripts may succeed when run again there are no
  rollbacks) `Spec => []LedgerMatchesSchema`.
* `ImplementsLedger`: with `ScriptsSafe`, `Spec => LedgerSpec`.
* `SumIsHonoured`: if the directory does not change while a command runs (`LiveEdits = FALSE`),
  `Spec => []AppliedTextMatchesSum`.
* `HistoryIsHonoured`: if moreover rows are read whole (`Lossy = FALSE`), `Spec => []HistoryUnmodified`.
* `OrderIsKept`: without rollbacks, and `LiveEdits = FALSE`, `Spec => []AppliedInOrder`.
* `RecordsStayAPrefix`, `OrderSurvivesRollback`: with `ScriptsSafe`, `LiveEdits = FALSE`, `Lossy = FALSE` and `LegacyFirst`,
  `CarefulSpec => []UntouchedRecordsPrefix` and `CarefulSpec => []AppliedInOrder`: the careful use of rollback that `CarefulRollback`
  describes, for any number of commands and any `--count`.
* `OwnFilesAreWhole`: `Spec => OwnFilesHashedWhole`.
* `PoolIsExclusive`: `Spec => ExclusiveSpec` for `DatabasePool`; `PoolTypes`: `Spec => []PoolTypeOK`.
* `NothingIsForgotten`: `Spec => []NothingForgotten`, and from it `DatabasesInUseExist`: what the pool offers and
  what a request works on exists on the server.
* `ReadsOwnObjects`: if no request creates objects outside schema public, `Spec => []OnlyOwnObjects`, which excepts what
  the server runs after its client has given up: SQL that slips in, a reset that takes away.
* `ServerTypesHold`: `Spec => []ServerTypeOK` for `DiffServer`, and in it that the cache keeps its size; `MarkedHits`:
  `Spec => []HitsAreMarked`; `FreshHits`: `Spec => HitsAreFresh`; `OldestFirst`: `Spec => OldestGoes`.
* `LimitedWork`: `Spec => []WorkIsLimited`, and `JustRefusals`: `Spec => []RefusedOnlyWhenUsed`, for any clients, requests,
  limit and window.
* `TablesSorted`: `sortTablesByDependency` returns each new table once and after those it references, for foreign keys without
  a cycle. `ScriptsAreRight`: for every catalog and edit that `TidyCatalog` allows and every order of the tables, the up script of
  `Compare`'s changes is accepted statement by statement and makes the desired schema of the current one, and, with
  `DownsAreAccepted`, the down script of reversible changes makes the current one of the desired. `TidyCatalog` leaves out the edits that
  PostgreSQL refuses whatever comes before them; the theorem is about what the diff engine decides: which statements, for which objects, in which order.
* `UpsReach`, `DownsReverse`, `RoundTripTypes`, `NothingIsLeft`: with `TidyCatalog`, and the second with `DownsAreAccepted`,
  `TripSpec => []UpReachesDesired`, `[]ReversibleMeansReversed`, `[]RoundTripTypeOK` and `[]NothingLeftToMigrate` for `RoundTrip` (whose specification is `TripSpec`,
  so that one module can be about it and `MigrateCommand`).
* `ContainersAreStopped`: `Spec => []ContainersStopped` for `MigrateCommand`, without any hypothesis.
* `HistoriesRebuildTheSchema`, `MigrateEndsInSync`, `NoScriptRefused`, `CommandTypesHold`: with `TidyCatalog` and
  `TidyServer`, `Spec => []UpsRebuildSchema`, `[]MigrateConverges`, `[]NothingRefused` and `[]CommandTypeOK`, for histories of any length.
* `MigrationsMakeTheTable` and `RollbacksMakeTheOldTable`: for a table that is no partition, `Spec => UpMakesTheTable` and
  `Spec => DownMakesTheOldTable`; `ColumnsKeepValues`: `Spec => ValuesStay`.
* `GenerateTypes` and, with `BlocksApart`, `UserCodeSurvives`: `Spec => []GenerateTypeOK` and `[]OwnCodeSurvives` for `Generate`, for any
  schema, names and edits.
* `ModelsFollowTheSchema`, `SecondRunChangesNothing`: with `TablesApart` and `BlocksApart`, `Spec => []ModelsMatchSchema` and
  `[]GenerateIsIdempotent`; `TableModelsCompile`: with `TablesApart`, `Spec => []TablesCompile`.
* `FunctionsFollowTheQueries`, `CleanRemovesTheRest`: with `FilesApart` and `LinesFit`, `Spec => []FunctionsMatchQueries` and
  `[]CleanLeavesTheQueries`; with `AggsApart` as well, `FunctionsImportWhatTheyUse`: `Spec => []FunctionsCompile`.
* `FunctionsScanTheirModels`: with `TablesApart`, `FilesApart`, `LinesFit` and `FieldsReturn`, `Spec => []ModelsFitQueries`.

They rest on the constants' assumptions: migration names are numbers and finitely
many, initial and legacy migrations are among them, appliers and rollbackers are
disjoint, sizes and bounds are natural numbers, options are Booleans, the limiter has a client and the cache finitely many keys; for `Generate`, objects of different
kinds have different names and no two objects share a file (`NamesAssumption`; two tables of the
same name in two schemas do, see below), shapes are lists of columns of the types `pgTypeToGo` is modelled for
(`ShapesAssumption`), and the lines of query files are those of section 2 (`SourcesAssumption`, `StartsAssumption`).

Some have hypotheses of their own, which the code needs:

| Hypothesis | Says | Without it |
|---|---|---|
| `ScriptsSafe` | scripts that may succeed when run again go with no rollbacks | `rerun_rollback` |
| `LiveEdits = FALSE` | the directory does not change while a command runs | `ValidateSum` has passed when a file is edited, and the edited text is run |
| `Lossy = FALSE` | a connection does not break while rows are read | `lossy_history` |
| `LegacyFirst` | what was recorded before there were checksums is the beginning of the directory | the first state is not in order |
| `TidyCatalog`: `KeysDistinct` | no two objects have the same key in the maps of `Compare` | `OverloadCatalog` |
| `TidyCatalog`: `NeedsComeFirst` | `Compare` comes to the kind of what an object needs before it comes to the object's; foreign keys have no cycle | `diff_cycle` |
| `TidyCatalog`: `DropsAreLeaves` | nothing needs an object that may be dropped, or dropped and created again | `diff_drop_table` |
| `TidyCatalog`: `CreatesWork` | PostgreSQL accepts what is generated to create an object | `TriggerCatalog` |
| `TidyCatalog`: `EditsAreAccepted`, `ColumnsStay` | PostgreSQL takes each edit by itself: a replaced function keeps its result type, a view its columns, a table the columns that views and indexes are over | `diff_view_columns` |
| `DownsAreAccepted` | it takes the edit undone as well, and a DROP takes nothing away that the down script does not write | `diff_role_limits` |
| `TidyCatalog`: `EditsAreSeen` | an edit changes what `Compare` compares and an ALTER writes | seven attributes of a role are compared (`role.go:185`) and two written; removed enum values are not seen |
| `TidyServer` | the migrations directory exists, down files are kept elsewhere, a reset takes away all but what every database has, and a new database has no more than that and comments | `first_migration`, `downs_replayed`, `outside_public` |
| no partition | `ALTER TABLE` is sent for a table that is no partition | `Partitioned = TRUE` |
| `TablesApart` | no two columns of a table become the same Go field (`toPascalCase`) | `userid` and `userId`, or `a_b` and `a-b`, are one field declared twice (`golang.go:309`) |
| `BlocksApart` | no constant of the user's own begins with the name of an enum's type | `EnumsConstants` |
| `FilesApart` | no two queries become the same file (`toSnakeCaseLower`) | the second function is written over the first (`queries.go:257`) |
| `LinesFit` | no line of a query file is longer than the scanner reads | the rest of the file is not read, and no error says so (`query_parser.go:103`) |
| `FieldsReturn` | the column of a field in an Extension struct becomes that field again | a field `UserId` is scanned as `UserID`, which the struct has not (`queries.go:134-187`) |
| `AggsApart` | no `json_agg` has the name of a table's column | with the table's model matched it is unmarshalled without importing encoding/json (`queries.go:271`, `queries.go:522`) |

The instance of `diff_roundtrip` and that of `commands` satisfy `TidyCatalog`, the first `DownsAreAccepted` and the second `TidyServer`: TLC evaluates `ShopIsTidy` on
both. That of `generate` satisfies the five hypotheses about names and lines, which TLC evaluates in `ShopHypotheses`, and `BlocksApart`: its user's
only block is `OwnConstants`.

**The argument for the ledger.** `LedgerMatchesSchema` is not inductive: a commit
keeps it only if the transaction that commits changed row and schema together, from
the state they were in. `LedgerInv` adds: `ScriptLocks`, two open transactions never both changed
the objects of the same migration (a script of remarks changes none and takes no lock); and `TxSafe(p)` for each invocation, which ties a
transaction's flags to the committed state: an apply that created the objects found none
and none appeared since, because it holds their lock; one that wrote a row found none and holds
its key; a row is written only together with the objects it stands for. An apply whose script
did nothing is stopped by the primary key, as long as nobody deletes the row in between; with
rollbacks that premise fails, hence `ScriptsSafe`. One step per action, and `Commit` is the only
one that changes `ledger` or `effect`; the refinement reads the same facts as the guard of an
abstract step.

**The argument for apply's checks.** What a check found must still hold in every later transaction, although the
check and the transactions are many steps apart. `ListInv` says, of each apply: it has no transaction before it has its
list (`Fresh`); its list and its transaction have the texts of the files (`Listed`); it runs the first of its list
(`Ordered`); and `ValidateSum` still holds unless it was forced (`Vouched`). From this follows what *others* may do to
the ledger in between: whatever is recorded is the text of a file (`LedgerFromFiles`), so that a compared history stays good
(`HistoryInv`: between the reading and the comparison a row is the one that was read or the text of a file, `Compared`).
For the order, `OrderInv` adds that a file that is not on the list is recorded (`Complete`), which needs a ledger that only
grows, hence no rollbacks. A changing directory is harmless while nobody runs, because every clause is about
an invocation that does. The two assumptions are needed: `lossy_history` shows the property violated without the second, and
an edit between `ValidateSum` and the reading of a file refutes the first.

With rollbacks used carefully (`CarefulSpec`) the ledger shrinks as well. `CarefulInv` says that from the first rollback on all invocations but
one are quiet (`OneAtATime`), which a killed command whose COMMIT is in flight is not; and of a rollback that the ledger it
read is the ledger still, that its list is closed upwards in the ledger, and that its transaction is about the last migration of all
(`Topmost`). While others run, an apply cannot have a list next to a rollback, so `Complete` stays; whichever commits, the
recorded migrations remain an initial segment (`PrefixStays`). That needs the reading of whole rows: from a list that was cut off,
`rollback` takes the last of what it saw.

**The argument for the pool.** `OwnersInv` says that the owners are typed; that
everything in any hand has a number below `counter` (`Numbered`), so a new name is in
nobody's hand; that the hands are disjoint and the queue holds nothing twice (`Disjoint`);
that a process that is down holds nothing (`DownIsEmpty`), which is what makes it safe to
start the counter over; that nobody else is there while the pool is warmed
(`StartIsAlone`); and that Shutdown takes the queue once (`ClosedOnce`). `NothingForgotten` is inductive together with it: because the hands
are disjoint, a step that moves a database from one hand to another leaves the set of all of them as it was, and a step
that creates or drops one changes both sides. `TenantInv` adds, for each request, that its database is empty when it is
about to execute a schema and holds this schema alone when it is read, but for what ran late; another's step cannot disturb it because the hands
are disjoint, and its own resets, when it waits for them, make it true again.

**The argument for the server.** `HitsAreMarked` is about two requests that share one object without a lock: one may be encoding
it while another marks it. `ResultsInv` says why that is harmless. A request that has stored its result never touches it
again, so of a finished object only the mark changes, and only to true (`FinishedStay`). An entry points to the
finished result for its own key and expires TTL after that was stored (`CachedInv`); what a request has in its hands
is such a result, for the key it asked for, in the cache or not (`PointedInv`); before it is stored, nobody else points to it
(`StoringInv`); between mark and encoding the mark stays (`MarkedInv`). `FreshHits` is the second clause read at the
step that takes a hit; `OldestFirst` needs only the types, since `Set` is the only step that takes a live entry away.

**The argument for the generator.** `OwnCodeSurvives` speaks of files that parse; `OwnInv` covers the rest: a file is absent
with nothing in it, emptied, or a Go file with its user's code (`FilesInv`), only tables have tags
(`OnlyTablesTagged`), and between the emptying of a file and its writing the text in memory holds the user's code
(`CommandInv`). That a merge keeps it is a lemma for each kind of object.

What a finished run has made needs two more inductive invariants, because it is made one file at a time and the files may hold
anything a merge, a kill or the user can leave. *Models* (`ModelInv`): `Fitting` says of one file that it is what the merge makes of the
schema, and is chosen so that a merge of any Go file yields it (`MergeFits` and its lemmas), and a merge of a file
that fits changes nothing (`FittingStays`), which is `SecondRunChangesNothing`. It is stronger than what the
properties say: a table's struct is exactly `TableMain` of what the file holds now, tags and order included, and its imports are bounded from
both sides, by what the fields need and by what anything in the file uses. `FitInv` then says that a file fits once the run has
written it, while the others wait in `todo`. *Functions* (`QueryInv`): `BindInv` says that the
queries in hand are those of the query file as it is now, that the first m of them have their functions (`Written`; of queries that share a name, one
of them), and that the extension's fields, read before the first function was written, are still those of the models, because users edit between runs only;
`ExtInv` says that the extensions hold fields a user can declare. The parser's loop is related to the query file as its author reads it
(`SqlOf`) one line at a time (`ScannedFrom`). `FunctionsScanTheirModels` needs both invariants: the
function names fields by the columns of the query, the model by those of the schema.

**The argument for the limiter.** `granted` remembers every request that was let through, the limiter's counter only those of
the window it has open. `CountInv` ties them together: while a window is open, its counter is the number of granted requests
since it was opened; windows are opened in the past (`OpenedInv`) and nothing is granted in the future (`PastInv`). A refusal then names `Limit` requests of the history, and the cleanup, which deletes windows that are over,
takes nothing away that a refusal could rest on. `WorkIsLimited` adds that the requests past the limiter are exactly those of
the history (`WorkInv`).

**The argument for the diff engine.** A list of changes *covers* an edit (`Covers`) if it has each object whose definition
changes exactly once, and what a created or altered object needs is there before or comes earlier in the list. That the lists of `Compare`
cover the edit is proved one kind at a time (`KindCovered`, for tables `TablesCovered` with `TablesSorted`) and then for the
kinds in the order of `CompareOrder` (`AllChanges`). The script of a list that covers an edit runs through the states *midway* (`Midway`): after
i changes the objects of the first i are as desired and all others as they were. Each statement is accepted in its state and leads to the
next (`OneEdit`, `MidwayReady`); the down script passes the same states backwards. The sort is a search that gives
up on cycles; `TablesSorted` says of each call of `visit` what it may have done to the three maps, by induction on how many tables
are unmarked, and that without a cycle it never gives up (a rank of the tables decreases along foreign keys).
The proof found that `DownSQL` had been written as a CASE with overlapping arms, which leaves its value open; it is an IF before the CASE now, as
in the code.

**The argument for the commands.** `HistoryInv` says that there is a chain of schemas, `reached`, through which the migrations lead (`Chain`),
and where a command is on its way through it (`StepInv`): while it replays, the database is the schema that the migrations replayed so far have
reached and the remaining scripts are those of the others; what it compares is the last of the chain and the schema file; what it writes is a
migration for this pair, which works by `ScriptsAreRight`. While an up file has the statements of the first i changes only, the last
of the chain is the state midway after i (`Writing`), which is a schema like any other, from which the next migration may start; a file that was
written to its end reaches its goal. Kills and failures break a command off between any two steps and touch none of this.
`CountInv` counts the containers: one for each killed command, one more while a command runs without `DATABASE_URL`.

**The argument for the columns.** While a script runs, each column is as far as the statements that are left for it say (`Progress`): their order
within a column is fixed, the order of the columns is not, and no statement touches two. `RowsInv` ties NULLs and wide values to what
the columns admit. A refused statement is then traced to its reason: a NULL, a wide value, a cast or a default PostgreSQL does not have.

**Induction over data.** The library's induction theorems take an operator, which no installed prover can instantiate; what
they say is proved here from the least element of a set of naturals (`Least`, `Induction` in `ListFacts`), and what a recursive
*function* computes is then found step by step (`RunFrom`, `FlatFrom`, `RebuiltFrom`).

**Only model-checked**: liveness (`CommandsEnd`, `RequestsAnswered`), which is out of the prover's reach. Every invariant and every
action property of the passing runs, and both refinements, are proved, under the hypotheses above.

## 5. What is not modelled, and why

* Introspection's catalog queries, `ToSQL`, `Lint` and inspect: sequential translation without a state that outlives it. Where
  the diff or the generator depends on what they leave out it is in `SchemaEdits`, `TableColumns` and `QueryBinding`.
* Configuration, flags, CORS, /health: read once or informative.
* The text of SQL, of Go code and of messages; constraints as such (three numbers per object in `SchemaDiff`); the attributes
  of a column that introspection does not read.
* Two API servers, or an API server and the commands, on one `DATABASE_URL`.
* Removal of enum values, which no comparison sees: the instances only let enums grow (`GrowOnly`).
* Hazards without a property carry a note in `PROJECT.json`.

The instances of `Generate` stay clear of the following, which reading the code shows and no property is stated about:

* Two tables of one name in two schemas are written to one file, the second over the first (`golang.go:140`); two queries of
  one name likewise (`queries.go:257`; `ModelsFitQueries` and `FunctionsCompile` speak of the others, `Sole`).
* The fields a user adds to the struct of a composite type are lost: the properties call the user's
  own what stands in the Extension struct, in tags, in blocks of constants, and in other declarations.
* A line longer than 64 KiB ends the reading of a query file without an error (`query_parser.go:103`): the later queries
  are gone, and `--clean` removes their files. `ScanLine` models it; no instance has such a line.
* A query that matches two tables gets the model of whichever the map of tables gave first (`queries.go:134`): the model has
  it, and `ModelsFitQueries` holds of either.
* A `:row` query without columns names a struct nobody writes; a `json_agg` column under the name of a matched
  model's column is decoded without importing encoding/json (`queries.go:271`).
* A query column or parameter that is an array of times gets a type nobody declares (`introspect/query.go:345`); its import is
  modelled (`QueryImportOf`), and `FunctionsCompile` is about imports only. Columns of queries whose types are enums or composite types are left out.

## 6. Plan

Done: the modules of section 2, in the order migrations, pool, server, diff, commands, generator, columns.

What would come next:

1. Constraints of a table beside its columns in `TableColumns`, once the code compares them.
2. Lint's foreign-key-index rule as a pure operator against a reference definition.
