------------------------------- MODULE GoModel -------------------------------
(***************************************************************************)
(* The Go file that generate keeps for an enum, a composite type or a      *)
(* table: what codegen/golang writes when there is none yet, and how it    *)
(* merges the definition in the database with the file it finds, which by  *)
(* then holds the user's own code too.  A file is kept as its              *)
(* declarations; the embedded Extension struct, always the last field of a *)
(* table's struct, is left out.                                            *)
(***************************************************************************)
EXTENDS Sequences, FiniteSets, SequencesExt

CONSTANTS
  Enums, Composites, Tables,  \* the objects of the database that get a file
  PascalCase,                 \* toPascalCase, a function on the names of columns
  TypeNamed                   \* names of constants that begin with the name of their file's type

ModelObjects == Enums \cup Composites \cup Tables
Packages     == {"time", "json"}

\* A file that is not there, one that os.WriteFile has emptied and not yet
\* written, and one that parses.
NoFile == [state |-> "none"]
Torn   == [state |-> "torn"]
GoFile(main, ext, consts, imports, own) ==
  [state |-> "go", main |-> main, ext |-> ext, consts |-> consts,
   imports |-> imports, own |-> own]
IsGo(file) == file.state = "go"
-----------------------------------------------------------------------------
(* Types and fields.                                                       *)

PgTypes == {"int4", "timestamptz", "timestamptz[]", "jsonb"}
Columns == [name : DOMAIN PascalCase, type : PgTypes, nullable : BOOLEAN]

PgTypeToGo(pg, nullable) ==
  CASE pg = "int4"          -> IF nullable THEN "*int32" ELSE "int32"
    [] pg = "timestamptz"   -> IF nullable THEN "*time.Time" ELSE "time.Time"
    [] pg = "timestamptz[]" -> "[]time.Time"
    [] pg = "jsonb"         -> "json.RawMessage"

ImportOf(pg) ==
  CASE pg \in {"timestamptz", "timestamptz[]"} -> {"time"}
    [] pg = "jsonb" -> {"json"}
    [] OTHER -> {}

ImportsOf(columns) == UNION {ImportOf(c.type) : c \in Range(columns)}

\* The packages a Go type names.
Names(goType) ==
  CASE goType \in {"time.Time", "*time.Time", "[]time.Time"} -> {"time"}
    [] goType = "json.RawMessage" -> {"json"}
    [] OTHER -> {}

\* The fields of a composite type have no tag, those of a table a json tag.
StructFields(columns) ==
  [i \in DOMAIN columns |-> [name |-> PascalCase[columns[i].name],
                             type |-> PgTypeToGo(columns[i].type, columns[i].nullable),
                             tag  |-> "none"]]
TableFields(columns) ==
  [i \in DOMAIN columns |-> [StructFields(columns)[i] EXCEPT
                               !.tag = IF columns[i].nullable THEN "omitempty" ELSE "json"]]

FieldNames(fields) == {f.name : f \in Range(fields)}

\* filterImportsForFields: of the imports, those that a field's type starts with.
FilterImports(fields, imports) ==
  {p \in imports : \E f \in Range(fields) :
     \/ p = "time" /\ f.type \in {"time.Time", "*time.Time"}
     \/ p = "json" /\ f.type = "json.RawMessage"}

\* isPackageUsedInFile.
UsedPackages(file) ==
  (UNION {Names(f.type) : f \in Range(file.main) \cup Range(file.ext)}) \cup file.own
-----------------------------------------------------------------------------
(* A file that is new.                                                     *)

NewModel(o, def) ==
  CASE o \in Enums      -> GoFile(<<>>, <<>>, <<def>>, {}, {})
    [] o \in Composites -> GoFile(StructFields(def), <<>>, <<>>, ImportsOf(def), {})
    [] o \in Tables     -> GoFile(TableFields(def), <<>>, <<>>, ImportsOf(def), {})

\* A bug: the constants of the file are not looked for.
AppendEnumConsts(file, values) == [file EXCEPT !.consts = Append(@, values)]

\* The blocks of constants with a name that begins with the type's.
NamedBlocks(consts) == {i \in DOMAIN consts : Range(consts[i]) \cap TypeNamed # {}}

\* The last of them is replaced, whoever wrote it; without one the constants follow the type.
MergeEnumFile(file, values) ==
  [file EXCEPT !.consts = IF NamedBlocks(@) = {} THEN <<values>> \o @
                          ELSE [@ EXCEPT ![Max(NamedBlocks(@))] = values]]

MergeStructFile(file, columns) ==
  [file EXCEPT !.main = StructFields(columns), !.imports = @ \cup ImportsOf(columns)]

\* extractExistingTags: the struct's tags, by the name of the field, which no other
\* field of a struct has.
ExistingTag(file, f) ==
  LET tags == {g.tag : g \in {h \in Range(file.main) : h.name = f.name /\ h.tag # "none"}}
  IN  IF tags = {} THEN f.tag ELSE CHOOSE tag \in tags : TRUE

\* A bug: the columns the user declares are in the struct as well.
UncoveredAll(file, columns) == TableFields(columns)

\* Columns the user declares in the Extension struct are left to it.
Uncovered(file, columns) ==
  LET fields == TableFields(columns)
  IN  FlattenSeq([i \in DOMAIN fields |->
        IF fields[i].name \in FieldNames(file.ext) THEN <<>> ELSE <<fields[i]>>])

TableMain(file, columns) ==
  LET fields == Uncovered(file, columns)
  IN  [i \in DOMAIN fields |-> [name |-> fields[i].name, type |-> fields[i].type,
                                tag  |-> ExistingTag(file, fields[i])]]

\* A bug: the user's own code is not searched.
RemoveImportsNotNeeded(file, needed) == [file EXCEPT !.imports = @ \cap needed]

\* removeUnusedImports: an import goes when neither the struct nor other code uses it.
RemoveUnusedImports(file, needed) ==
  [file EXCEPT !.imports = {p \in @ : p \in needed \/ p \in UsedPackages(file)}]

EnsureImports(file, needed) == [file EXCEPT !.imports = @ \cup needed]

MergeTableFile(file, columns) ==
  LET main   == TableMain(file, columns)
      needed == FilterImports(main, ImportsOf(columns))
  IN  EnsureImports(RemoveUnusedImports([file EXCEPT !.main = main], needed), needed)

MergedModel(o, file, def) ==
  CASE o \in Enums      -> MergeEnumFile(file, def)
    [] o \in Composites -> MergeStructFile(file, def)
    [] o \in Tables     -> MergeTableFile(file, def)

\* generateEnum, generateCompositeType, generateTable.
Modelled(o, file, def) ==
  IF file = NoFile THEN NewModel(o, def) ELSE MergedModel(o, file, def)
-----------------------------------------------------------------------------
\* The Go compiler: packages used are imported, imports used, nothing declared twice.
Compiles(file) ==
  /\ UsedPackages(file) = file.imports
  /\ IsInjective([i \in DOMAIN file.main |-> file.main[i].name])
  /\ IsInjective(FlattenSeq(file.consts))
==============================================================================
