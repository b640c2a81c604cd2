------------------------------- MODULE Generate -------------------------------
(***************************************************************************)
(* The generate command (cli/generate.go): it introspects the database,    *)
(* writes the model of every enum, composite type and table into the       *)
(* models directory, parses the query file, lets the database describe     *)
(* every query and writes a function for each into the queries directory.  *)
(* Around it, its user edits the generated files, the query file and the   *)
(* schema, and the command may be killed, or a write may fail, at every    *)
(* step; os.WriteFile empties a file before it writes it.                  *)
(***************************************************************************)
EXTENDS QueryBinding

CONSTANTS
  ModelFile,    \* toSnakeCase: the file of an object
  BindingFile,  \* toSnakeCaseLower: the file of a query
  Shapes,       \* of each object, the definitions it may be given
  ExtFields,    \* the fields a user may declare in an Extension struct
  OwnPackages,  \* the packages a user's own declarations may use
  OwnBlocks,    \* the blocks of constants a user may add to an enum's file
  Skipped,      \* tables that get no model: shrugged_migrations
  Sources,      \* the query files an edit may leave behind
  Starts        \* where a behaviour may start: [schema, source, bindings, changes]

ASSUME NamesAssumption ==
  /\ IsFiniteSet(ModelObjects)
  /\ Enums \cap Composites = {} /\ Enums \cap Tables = {} /\ Composites \cap Tables = {}
  /\ DOMAIN ModelFile = ModelObjects /\ IsInjective(ModelFile)
  /\ Skipped \subseteq Tables
  /\ \A o \in ModelObjects : <<>> \notin Shapes[o]
  /\ "querier" \notin Range(BindingFile) /\ "" \notin Tables

ModelFiles   == Range(ModelFile)
BindingFiles == Range(BindingFile) \cup {"querier"}

VARIABLES
  schema,    \* of every object its definition in the database, <<>> if it is not there
  models,    \* the models directory
  source,    \* the lines of the query file
  bindings,  \* the queries directory
  cmd,       \* the running command
  mine,      \* of every model file what its user wrote into it: fields of the
             \* Extension struct, other declarations, tags of the struct's fields,
             \* blocks of constants
  changes    \* the edits that are still to come, a bound

vars == <<schema, models, source, bindings, cmd, mine, changes>>

\* An enum is the constants of its labels.
ASSUME ShapesAssumption ==
  /\ \A o \in Composites \cup Tables : Shapes[o] \subseteq Seq(Columns)
  /\ \A o \in Enums : Shapes[o] \subseteq Seq(TypeNamed)

Absent  == <<>>
Nothing == [ext |-> <<>>, own |-> {}, tags |-> {}, blocks |-> {}]
\* A bug: what has been dropped is still listed.
EverPresent(db, kind) == kind

Present(db, kind) == {o \in kind : db[o] # Absent}

ASSUME StartsAssumption ==
  \A start \in Starts :
    /\ DOMAIN start.schema = ModelObjects /\ DOMAIN start.bindings = BindingFiles
    /\ \A o \in ModelObjects : start.schema[o] \in Shapes[o] \cup {Absent}
    /\ \A f \in BindingFiles : start.bindings[f].state \in {"none", "torn", "go", "querier"}

QueryFiles == Sources \cup {start.source : start \in Starts}
ASSUME SourcesAssumption ==
  \A lines \in QueryFiles :
    /\ lines \in Seq(Range(lines))
    /\ \A line \in Range(lines) :
         /\ line.kind \in {"name", "comment", "long", "sql"}
         /\ line.kind = "name" => line.name \in DOMAIN BindingFile
         /\ line.kind = "sql" =>
              /\ line.starts => line.from \in Tables
              /\ line.params \in Seq([name : STRING, type : PgTypes])
              /\ line.computed \in Seq([name : STRING, type : PgTypes, agg : BOOLEAN])
              /\ \A c \in Range(line.computed) : c.agg => c.type = "jsonb"

Resting == {"idle", "done", "failed"}
Running == {"models", "writeModel", "introspect", "querier", "bindings", "writeBinding", "clean"}

NoCommand == [pc |-> "idle", clean |-> FALSE, seen |-> [o \in ModelObjects |-> Absent], tables |-> <<>>, todo |-> <<>>,
              queries |-> <<>>, extensions |-> <<>>, text |-> NoFile]
Failed == [NoCommand EXCEPT !.pc = "failed"]

Init ==
  /\ \E start \in Starts : /\ schema = start.schema
                           /\ source = start.source
                           /\ bindings = start.bindings
                           /\ changes = start.changes
  /\ models = [f \in ModelFiles |-> NoFile]
  /\ mine = [f \in ModelFiles |-> Nothing]
  /\ cmd = NoCommand
-----------------------------------------------------------------------------
(* The command.                                                            *)

\* introspect.Database; the tables come in any order, loadTables ranging over a map.
StartGenerate ==
  /\ cmd.pc \in Resting
  /\ \E tables \in SetToSeqs(Present(schema, Tables)) :
       cmd' = [NoCommand EXCEPT
                 !.pc = "models", !.seen = schema, !.tables = tables,
                 !.todo = SetToSeq(Present(schema, Enums))
                            \o SetToSeq(Present(schema, Composites)) \o tables]
  /\ UNCHANGED <<schema, models, source, bindings, mine, changes>>

\* A bug: a file that does not parse is taken for one that is not there.
MergeModelOrAnew ==
  /\ cmd.pc = "models" /\ cmd.todo # <<>> /\ Head(cmd.todo) \notin Skipped
  /\ LET o == Head(cmd.todo)
         f == ModelFile[o]
         file == IF models[f] = Torn THEN NoFile ELSE models[f]
     IN  /\ cmd' = [cmd EXCEPT !.pc = "writeModel", !.text = Modelled(o, file, cmd.seen[o])]
         /\ models' = [models EXCEPT ![f] = Torn]
  /\ UNCHANGED <<schema, source, bindings, mine, changes>>

\* The table of migrations is passed over.
SkipTable ==
  /\ cmd.pc = "models" /\ cmd.todo # <<>> /\ Head(cmd.todo) \in Skipped
  /\ cmd' = [cmd EXCEPT !.todo = Tail(@)]
  /\ UNCHANGED <<schema, models, source, bindings, mine, changes>>

\* The next object's file is read and merged, then opened for writing; a file
\* that does not parse ends the command.
MergeModel ==
  /\ cmd.pc = "models" /\ cmd.todo # <<>> /\ Head(cmd.todo) \notin Skipped
  /\ LET o == Head(cmd.todo)
         f == ModelFile[o]
     IN  IF models[f] = Torn
         THEN /\ cmd' = Failed
              /\ UNCHANGED models
         ELSE /\ cmd' = [cmd EXCEPT !.pc = "writeModel", !.text = Modelled(o, models[f], cmd.seen[o])]
              /\ models' = [models EXCEPT ![f] = Torn]
  /\ UNCHANGED <<schema, source, bindings, mine, changes>>

\* The tags of fields that are no longer in the struct go with them.
WriteModel ==
  /\ cmd.pc = "writeModel"
  /\ LET f == ModelFile[Head(cmd.todo)]
     IN  /\ models' = [models EXCEPT ![f] = cmd.text]
         /\ mine' = [mine EXCEPT ![f].tags = @ \cap FieldNames(cmd.text.main)]
  /\ cmd' = [cmd EXCEPT !.pc = "models", !.todo = Tail(@), !.text = NoFile]
  /\ UNCHANGED <<schema, source, bindings, changes>>

\* parser.ParseQueries; without queries the command is done, and cleans nothing.
ReadQueries ==
  /\ cmd.pc = "models" /\ cmd.todo = <<>>
  /\ LET queries == ParseQueryContent(source)
     IN  IF queries = <<>>
         THEN \E clean \in BOOLEAN : cmd' = [cmd EXCEPT !.pc = "done", !.clean = clean]
         ELSE cmd' = [cmd EXCEPT !.pc = "introspect", !.queries = queries]
  /\ UNCHANGED <<schema, models, source, bindings, mine, changes>>

\* introspect.Queries: all of them, in the database as it is now, before any is written.
IntrospectQueries ==
  /\ cmd.pc = "introspect"
  /\ LET answers == [i \in DOMAIN cmd.queries |-> Prepare(cmd.queries[i].sql, schema)]
     IN  IF \A i \in DOMAIN answers : answers[i].ok
         THEN cmd' = [cmd EXCEPT !.pc = "querier", !.queries =
                        [i \in DOMAIN @ |-> [query |-> @[i], columns |-> answers[i].columns]]]
         ELSE cmd' = Failed
  /\ UNCHANGED <<schema, models, source, bindings, mine, changes>>

\* loadAllExtensionFields: the fields of the Extension structs of the files that parse.
ExtensionFields(t) ==
  IF IsGo(models[ModelFile[t]]) THEN FieldNames(models[ModelFile[t]].ext) ELSE {}

\* GenerateQueries: querier.go, which is the same every time, the Extension fields.
Querier == [state |-> "querier"]
WriteQuerier ==
  /\ cmd.pc = "querier"
  /\ \/ /\ bindings["querier"] # Torn
        /\ bindings' = [bindings EXCEPT !["querier"] = Torn]
        /\ UNCHANGED cmd
     \/ /\ bindings["querier"] = Torn
        /\ bindings' = [bindings EXCEPT !["querier"] = Querier]
        /\ cmd' = [cmd EXCEPT !.pc = "bindings", !.todo = cmd.queries,
                              !.extensions = [t \in Tables |-> ExtensionFields(t)]]
  /\ UNCHANGED <<schema, models, source, mine, changes>>

OpenBinding ==
  /\ cmd.pc = "bindings" /\ cmd.todo # <<>>
  /\ LET q == Head(cmd.todo)
     IN  /\ cmd' = [cmd EXCEPT !.pc = "writeBinding",
                               !.text = QueryGo(q.query, q.columns, cmd.tables, cmd.seen,
                                                cmd.extensions)]
         /\ bindings' = [bindings EXCEPT ![BindingFile[q.query.name]] = Torn]
  /\ UNCHANGED <<schema, models, source, mine, changes>>

WriteBinding ==
  /\ cmd.pc = "writeBinding"
  /\ bindings' = [bindings EXCEPT ![BindingFile[cmd.text.query]] = cmd.text]
  /\ cmd' = [cmd EXCEPT !.pc = "bindings", !.todo = Tail(@), !.text = NoFile]
  /\ UNCHANGED <<schema, models, source, mine, changes>>

\* The --clean flag is looked at here.
BindingsWritten ==
  /\ cmd.pc = "bindings" /\ cmd.todo = <<>>
  /\ \E clean \in BOOLEAN :
       cmd' = [cmd EXCEPT !.pc = IF clean THEN "clean" ELSE "done", !.clean = clean]
  /\ UNCHANGED <<schema, models, source, bindings, mine, changes>>

\* A bug: only files written by this run's last query are known.
GeneratedLast == {"querier", BindingFile[Last(cmd.queries).query.name]}

Generated == {"querier"} \cup {BindingFile[q.query.name] : q \in Range(cmd.queries)}

\* cleanOrphanedFiles, file by file.
Clean ==
  /\ cmd.pc = "clean"
  /\ LET orphans == {f \in BindingFiles \ Generated : bindings[f] # NoFile}
     IN  \/ /\ orphans = {}
            /\ cmd' = [cmd EXCEPT !.pc = "done"]
            /\ UNCHANGED bindings
         \/ \E f \in orphans : /\ bindings' = [bindings EXCEPT ![f] = NoFile]
                               /\ UNCHANGED cmd
  /\ UNCHANGED <<schema, models, source, mine, changes>>

\* The command is killed, a write or a statement fails, the container goes away.
Interrupt ==
  /\ cmd.pc \in Running
  /\ cmd' = Failed
  /\ UNCHANGED <<schema, models, source, bindings, mine, changes>>

Command == \/ StartGenerate \/ SkipTable \/ MergeModel \/ WriteModel \/ ReadQueries \/ IntrospectQueries
           \/ WriteQuerier \/ OpenBinding \/ WriteBinding \/ BindingsWritten \/ Clean
-----------------------------------------------------------------------------
(* The user, and whoever else migrates the database.  A user edits between *)
(* two runs, and leaves files with the imports they need.                  *)

Change == changes > 0 /\ changes' = changes - 1
Edited == cmd.pc \in Resting /\ cmd' = NoCommand

\* A migration, at any time.
ChangeSchema(o) ==
  /\ Change
  /\ \E def \in (Shapes[o] \cup {Absent}) \ {schema[o]} : schema' = [schema EXCEPT ![o] = def]
  /\ cmd' = IF cmd.pc \in Resting THEN NoCommand ELSE cmd
  /\ UNCHANGED <<models, source, bindings, mine>>

Save(f, file) ==
  /\ Change /\ Edited
  /\ models' = [models EXCEPT ![f] = [file EXCEPT !.imports = UsedPackages(file)]]
  /\ UNCHANGED <<schema, source, bindings>>

Extend(t) ==
  LET f == ModelFile[t] IN
  \E field \in ExtFields :
    /\ IsGo(models[f])
    /\ field.name \notin FieldNames(models[f].ext)
    /\ Save(f, [models[f] EXCEPT !.ext = Append(@, field)])
    /\ mine' = [mine EXCEPT ![f].ext = Append(@, field)]

WithdrawField(t) ==
  LET f == ModelFile[t] IN
  \E i \in DOMAIN mine[f].ext :
    /\ IsGo(models[f])
    /\ Save(f, [models[f] EXCEPT !.ext = RemoveAt(@, i)])
    /\ mine' = [mine EXCEPT ![f].ext = RemoveAt(@, i)]

\* Another json tag for a field of a table's struct.
Retag(t) ==
  LET f == ModelFile[t] IN
  /\ IsGo(models[f])
  /\ \E name \in FieldNames(models[f].main) \ mine[f].tags :
       /\ Save(f, [models[f] EXCEPT !.main =
            [i \in DOMAIN @ |-> [name |-> @[i].name, type |-> @[i].type,
                                 tag  |-> IF @[i].name = name THEN "own" ELSE @[i].tag]]])
       /\ mine' = [mine EXCEPT ![f].tags = @ \cup {name}]

\* A method, or another declaration, that uses a package; its removal.
Declare(f) ==
  /\ IsGo(models[f])
  /\ \E p \in OwnPackages :
       LET own == IF p \in mine[f].own THEN mine[f].own \ {p} ELSE mine[f].own \cup {p}
       IN  /\ Save(f, [models[f] EXCEPT !.own = own])
           /\ mine' = [mine EXCEPT ![f].own = own]

\* Constants of the user's own, above or below those of the labels.
DeclareConsts(o) ==
  LET f == ModelFile[o] IN
  /\ IsGo(models[f])
  /\ \E block \in OwnBlocks \ mine[f].blocks :
       \E consts \in {<<block>> \o models[f].consts, Append(models[f].consts, block)} :
         /\ Save(f, [models[f] EXCEPT !.consts = consts])
         /\ mine' = [mine EXCEPT ![f].blocks = @ \cup {block}]

DeleteModel(f) ==
  /\ Change /\ Edited
  /\ models[f] # NoFile
  /\ models' = [models EXCEPT ![f] = NoFile]
  /\ mine' = [mine EXCEPT ![f] = Nothing]
  /\ UNCHANGED <<schema, source, bindings>>

EditQueries ==
  /\ Change /\ Edited
  /\ source' \in Sources \ {source}
  /\ UNCHANGED <<schema, models, bindings, mine>>

User == \/ \E o \in ModelObjects : ChangeSchema(o)
        \/ \E t \in Tables : Extend(t) \/ WithdrawField(t) \/ Retag(t)
        \/ \E o \in Enums : DeclareConsts(o)
        \/ \E f \in ModelFiles : Declare(f) \/ DeleteModel(f)
        \/ EditQueries

Next == Command \/ Interrupt \/ User
Spec == Init /\ [][Next]_vars
-----------------------------------------------------------------------------
(* What the packages of the generated code may rely on.                    *)

Done == cmd.pc = "done"

GenerateTypeOK ==
  /\ \A o \in ModelObjects : schema[o] \in Shapes[o] \cup {Absent}
  /\ \A f \in ModelFiles : models[f].state \in {"none", "torn", "go"}
  /\ \A f \in BindingFiles : bindings[f].state \in {"none", "torn", "go", "querier"}
  /\ cmd.pc \in Resting \cup Running
  /\ cmd.pc \in {"writeModel", "writeBinding"} <=> IsGo(cmd.text)
  /\ cmd.pc \in {"models", "writeModel"} => \A o \in Range(cmd.todo) : cmd.seen[o] # Absent
  /\ cmd.extensions # <<>> => cmd.pc \in {"bindings", "writeBinding", "clean", "done"}

KeepsFields(file, own) ==
  /\ file.ext = own.ext
  /\ file.own = own.own
  /\ \A i \in DOMAIN file.main : file.main[i].name \in own.tags => file.main[i].tag = "own"
Keeps(file, own) == KeepsFields(file, own) /\ own.blocks \subseteq Range(file.consts)

\* Whatever runs, fails or is killed: a model file that parses holds all that
\* its user wrote into it (README.md:10; merge.go, golang.go:172).  What a
\* killed write has emptied is never passed over in silence.  A block of constants
\* survives if no name in it begins with the enum's (BlocksApart).
OwnCodeSurvives == \A f \in ModelFiles : IsGo(models[f]) => Keeps(models[f], mine[f])

\* After a successful run every object has its model: an enum's labels are its
\* constants, each column of a table is a field, of the struct or of its Extension and
\* not of both, and the struct's fields have the types of their columns (mergeEnumFile,
\* generateTable, mergeTableFile).
ModelsMatchSchema ==
  Done => \A o \in Present(cmd.seen, ModelObjects \ Skipped) :
    LET file == models[ModelFile[o]]
        def  == cmd.seen[o]
    IN  /\ IsGo(file)
        /\ o \in Enums => \E k \in DOMAIN file.consts :
             NamedBlocks(file.consts) = {k} /\ file.consts[k] = def
        /\ o \in Composites => file.main = StructFields(def)
        /\ o \in Tables =>
             /\ FieldNames(file.main) \cap FieldNames(file.ext) = {}
             /\ Len(file.main) = Cardinality(FieldNames(file.main))
             /\ \A c \in Range(def) : \/ PascalCase[c.name] \in FieldNames(file.ext)
                                      \/ \E f \in Range(file.main) :
                                           /\ f.name = PascalCase[c.name]
                                           /\ f.type = PgTypeToGo(c.type, c.nullable)
             /\ FieldNames(file.main) \subseteq {PascalCase[c.name] : c \in Range(def)}

\* A second run on the same database changes no model (merge.go).
GenerateIsIdempotent ==
  Done => \A o \in Present(cmd.seen, ModelObjects \ Skipped) :
    LET file == models[ModelFile[o]] IN MergedModel(o, file, cmd.seen[o]) = file

\* After a successful run every model compiles (README.md:9, "type-safe models").
ModelsCompile ==
  Done => \A o \in Present(cmd.seen, ModelObjects \ Skipped) : Compiles(models[ModelFile[o]])

\* It is so for the tables without an array of times: whatever columns come and
\* go, and whatever packages the user's own code needs (removeUnusedImports).
TablesCompile ==
  Done => \A t \in Present(cmd.seen, Tables \ Skipped) :
    (\A c \in Range(cmd.seen[t]) : c.type # "timestamptz[]") => Compiles(models[ModelFile[t]])
-----------------------------------------------------------------------------
(* What the names and the query files must be for the generated packages   *)
(* to be right.                                                            *)

\* toPascalCase gives no two columns of a table the same field.
FieldsApart(columns) ==
  \A i, j \in DOMAIN columns : PascalCase[columns[i].name] = PascalCase[columns[j].name] => i = j
TablesApart == \A t \in Tables : \A def \in Shapes[t] : FieldsApart(def)

\* No constant of the user's own begins with the name of an enum.
BlocksApart == \A block \in OwnBlocks : Range(block) \cap TypeNamed = {}

\* toSnakeCaseLower gives no two queries the same file.
FilesApart == IsInjective(BindingFile)

\* The scanner reads every line.
LinesFit == \A lines \in QueryFiles : \A line \in Range(lines) : line.kind # "long"

\* The column of a field that a user declares is that field's again.
FieldsReturn == \A f \in ExtFields : PascalCase[SnakeCase[f.name]] = f.name

\* No json_agg takes the name of a table's column.
SqlLines == {line \in UNION {Range(lines) : lines \in QueryFiles} : line.kind = "sql"}
AggsApart ==
  \A line \in SqlLines : \A c \in Range(line.computed) : c.agg =>
    \A t \in Tables : \A def \in Shapes[t] : \A column \in Range(def) : column.name # c.name
-----------------------------------------------------------------------------
(* The query file as its author reads it: the SQL of an annotation is what *)
(* stands between it and the next one.                                     *)

Annotations == {i \in DOMAIN source : source[i].kind = "name"}
SqlOf(i) ==
  LET later == {j \in Annotations : j > i}
      end   == IF later = {} THEN Len(source) ELSE Min(later) - 1
  IN  FlattenSeq([k \in 1..(end - i) |->
        IF source[i + k].kind = "sql" THEN <<source[i + k]>> ELSE <<>>])
\* Those with SQL and a name of their own.
Queries == {i \in Annotations : /\ SqlOf(i) # <<>>
                                /\ \A j \in Annotations \ {i} : source[j].name # source[i].name}

\* After a successful run every query has its function, with its own SQL, whose
\* arguments stand where the SQL has its @names (parseQueryContent,
\* extractParameters, generateQueryFile).
FunctionsMatchQueries ==
  Done => \A i \in Queries :
    LET f   == bindings[BindingFile[source[i].name]]
        occ == Occurrences(SqlOf(i))
    IN  /\ f.state = "go" /\ f.query = source[i].name
        /\ f.sql = SqlOf(i)
        /\ Len(f.positions) = Len(occ)
        /\ \A k \in DOMAIN occ : f.args[f.positions[k]].name = occ[k].name
        /\ Len(f.args) = Cardinality({p.name : p \in Range(occ)})

\* The queries that share their name, hence their file, with no other.
Sole == {cmd.queries[i] : i \in {j \in DOMAIN cmd.queries : \A k \in DOMAIN cmd.queries \ {j} :
                                   cmd.queries[k].query.name # cmd.queries[j].query.name}}

\* After a successful run a function that scans into a model that was written scans
\* fields the model has, all those that are columns of its table, and a query that
\* returns just a table's columns has a model (README.md:11; findMatchingModel).
ModelsFitQueries ==
  Done => \A q \in Sole :
    LET f     == bindings[BindingFile[q.query.name]]
        model == models[ModelFile[f.model]]
    IN  /\ f.query = q.query.name
        /\ f.model \notin Skipped \cup {""} =>
             /\ f.scans \subseteq FieldNames(model.main) \cup FieldNames(model.ext)
             /\ {PascalCase[c.name] : c \in Range(cmd.seen[f.model])} \subseteq f.scans
        /\ (Returns(q.query) /\ \E t \in Present(cmd.seen, Tables) :
              {c.name : c \in Range(q.columns)} = {c.name : c \in Range(cmd.seen[t])})
           => f.model # ""

\* After a successful run the model a function scans into is there (README.md:11).
ScannedModelsExist ==
  Done => \A q \in Sole :
    LET f == bindings[BindingFile[q.query.name]] IN f.model # "" => IsGo(models[ModelFile[f.model]])

\* After a successful run the functions' files import the packages they name, and no
\* other (collectQueryImports).  A type that is declared nowhere is no part of this.
FunctionsCompile ==
  Done => \A q \in Sole :
    LET f == bindings[BindingFile[q.query.name]] IN f.imports = f.uses

\* After a successful run with --clean, of a file with queries, the queries
\* directory holds their functions and nothing else (docs/shrugged_generate.md:15).
CleanLeavesTheQueries ==
  (Done /\ cmd.clean /\ cmd.queries # <<>>) =>
    {f \in BindingFiles : bindings[f] # NoFile}
      = {"querier"} \cup {BindingFile[source[i].name] : i \in {j \in Annotations : SqlOf(j) # <<>>}}

\* The same, also when the file has no queries left.
CleanRemovesOrphans ==
  (Done /\ cmd.clean) =>
    \A f \in BindingFiles \ {"querier"} : bindings[f] # NoFile =>
      \E i \in Annotations : SqlOf(i) # <<>> /\ BindingFile[source[i].name] = f
===============================================================================
