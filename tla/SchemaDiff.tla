------------------------------ MODULE SchemaDiff ------------------------------
(***************************************************************************)
(* diff.Compare and the SQL its changes write (internal/diff): two         *)
(* introspected schemas in, the statements of the up and of the down       *)
(* script out.                                                             *)
(*                                                                         *)
(* A database object is a member of Catalog.  Its definition has three     *)
(* parts: main, what Compare looks at for its kind (a table's columns, an  *)
(* enum's values, a function's body, a view's query), as a number that     *)
(* grows when a column or a value is added; rest, the remainder (a table's *)
(* constraints, a function's result type and parameter names, the number   *)
(* of columns a view has or an index is over: the first ones of its        *)
(* tables); and limits, what a CREATE alone writes (a role's CONNECTION    *)
(* LIMIT and VALID UNTIL; 1 stands for none).  A kind says which fields    *)
(* identify an object to Compare, which parts are compared, rewritten and  *)
(* restored after a drop, and the form of its statements.                  *)
(*                                                                         *)
(* The type of a column is the subject of TableColumns.  A right that      *)
(* PUBLIC has by default is a grant of the catalog like any other, because *)
(* introspection lists it.                                                 *)
(***************************************************************************)
EXTENDS TableOrder

CONSTANTS
  Catalog,  \* the objects, in the order introspection lists them: [kind, schema, name, args]
  Needs,    \* of each object, the objects PostgreSQL requires it to have
  PartOf    \* of each object, those of them whose DROP takes it along

Objects == DOMAIN Catalog

ASSUME CatalogAssumption ==
  /\ Catalog \in Seq([kind : STRING, schema : STRING, name : STRING, args : STRING])
  /\ Needs \in [Objects -> SUBSET Objects]
  /\ PartOf \in [Objects -> SUBSET Objects]
  /\ \A o \in Objects : PartOf[o] \subseteq Needs[o]

Facets == {"main", "rest", "limits"}
Absent == [main |-> 0, rest |-> 0, limits |-> 0]
Has(schema, o) == schema[o] # Absent
-----------------------------------------------------------------------------
(* The 29 kinds, in the order of Compare.                                    *)
Kind(key) == [key |-> key, compares |-> {}, rewrites |-> {}, restores |-> Facets,
              alter |-> "alter", create |-> "create", drop |-> "drop", recreates |-> TRUE]
Compared(kind, parts)  == [kind EXCEPT !.compares = parts, !.rewrites = parts]
Tolerant(kind, create, drop) == [kind EXCEPT !.create = create, !.drop = drop]
Replaced(kind) == [Compared(kind, {"main"}) EXCEPT
                     !.alter = "replace", !.create = "replace", !.rewrites = Facets]

ByName      == Kind({"name"})
ByQualified == Kind({"schema", "name"})
BySignature == Kind({"schema", "name", "args"})

NamespaceKind     == ByName
ExtensionKind     == Tolerant(ByName, "ensure", "dropIf")
EnumKind          == Compared(ByName, {"main"})
DomainKind        == ByQualified
CompositeTypeKind == ByQualified
SequenceKind      == ByName
TableKind         == [Compared(ByQualified, {"main"}) EXCEPT !.recreates = FALSE]
IndexKind         == ByName
ViewKind          == Replaced(ByName)
MaterializedViewKind == [Replaced(ByQualified) EXCEPT !.alter = "recreate", !.create = "create"]
FunctionKind      == Replaced(ByName)
ProcedureKind     == Replaced(BySignature)
AggregateKind     == ByName
TriggerKind       == [ByName EXCEPT !.create = "broken"]
EventTriggerKind  == ByName
RuleKind          == ByName
PolicyKind        == ByName
CollationKind     == ByQualified
TextSearchConfigKind == ByName
PublicationKind   == ByName
SubscriptionKind  == ByName
ForeignDataWrapperKind == ByName
ForeignServerKind == ByName
ForeignTableKind  == ByName
OperatorKind      == Kind({"name", "args"})
RoleKind          == [Compared(ByName, {"main", "rest"}) EXCEPT
                        !.rewrites = {"main"}, !.restores = {"main", "rest"}]
RoleGrantKind     == Tolerant(BySignature, "ensure", "unset")
DefaultPrivilegeKind == Tolerant(BySignature, "ensure", "unset")
CommentKind       == Tolerant(Replaced(BySignature), "replace", "unset")

Kinds == [namespace |-> NamespaceKind, extension |-> ExtensionKind, enum |-> EnumKind,
  domain |-> DomainKind, composite |-> CompositeTypeKind, sequence |-> SequenceKind,
  table |-> TableKind, index |-> IndexKind, view |-> ViewKind,
  matview |-> MaterializedViewKind, function |-> FunctionKind,
  procedure |-> ProcedureKind, aggregate |-> AggregateKind, trigger |-> TriggerKind,
  eventTrigger |-> EventTriggerKind, rule |-> RuleKind, policy |-> PolicyKind,
  collation |-> CollationKind, textSearch |-> TextSearchConfigKind,
  publication |-> PublicationKind, subscription |-> SubscriptionKind,
  fdw |-> ForeignDataWrapperKind, server |-> ForeignServerKind,
  foreignTable |-> ForeignTableKind, operator |-> OperatorKind, role |-> RoleKind,
  grant |-> RoleGrantKind, defaultPrivilege |-> DefaultPrivilegeKind,
  comment |-> CommentKind]

CompareOrder == <<"namespace", "extension", "enum", "domain", "composite", "sequence",
  "table", "index", "view", "matview", "function", "procedure", "aggregate", "trigger",
  "eventTrigger", "rule", "policy", "collation", "textSearch", "publication",
  "subscription", "fdw", "server", "foreignTable", "operator", "role", "grant",
  "defaultPrivilege", "comment">>

KindOf(o) == Kinds[Catalog[o].kind]

ASSUME KindsAssumption == \A o \in Objects : Catalog[o].kind \in DOMAIN Kinds
-----------------------------------------------------------------------------
Key(o) == [f \in KindOf(o).key |-> Catalog[o][f]]   \* its key in currentMap, desiredMap

\* The members of a list that are in the set, in the order of the list.
Among(list, set) ==
  FlattenSeq([i \in DOMAIN list |-> IF list[i] \in set THEN <<list[i]>> ELSE <<>>])

Listed(schema, kind, order) ==
  Among(order, {o \in Objects : Catalog[o].kind = kind /\ Has(schema, o)})

SameKey(schema, o) ==
  {x \in Objects : Has(schema, x) /\ Catalog[x].kind = Catalog[o].kind /\ Key(x) = Key(o)}

\* The object a map built from the schema holds under o's key: the last one inserted.
Entry(schema, o) == CHOOSE x \in SameKey(schema, o) : \A y \in SameKey(schema, o) : y <= x

\* Added enum values are seen, removed ones are not.
Differs(o, old, new) ==
  \E f \in KindOf(o).compares :
    IF Catalog[o].kind = "enum" THEN new[f] > old[f] ELSE new[f] # old[f]

Change(op, o, new, was, old) == [op |-> op, obj |-> o, new |-> new, was |-> was, old |-> old]
Creation(desired, o) == Change("create", o, desired[o], o, Absent)

\* The mutant that forgets the old definition of what it drops.
RemovalWithoutOld(current, o) == Change("drop", o, Absent, o, Absent)
Removal(current, o)  == Change("drop", o, Absent, o, current[o])
Alteration(current, desired, o) ==
  LET was == Entry(current, o) IN Change("alter", o, desired[o], was, current[was])

Created(current, desired, kind, order) ==
  Among(Listed(desired, kind, order), {o \in Objects : SameKey(current, o) = {}})
Removed(current, desired, kind, order) ==
  Among(Listed(current, kind, order), {o \in Objects : SameKey(desired, o) = {}})
Altered(current, desired, kind, order) ==
  Among(Listed(desired, kind, order),
        {o \in Objects : /\ SameKey(current, o) # {}
                         /\ Differs(o, current[Entry(current, o)], desired[o])})

Creations(current, desired, list)   == [i \in DOMAIN list |-> Creation(desired, list[i])]
Removals(current, list)             == [i \in DOMAIN list |-> Removal(current, list[i])]
Alterations(current, desired, list) ==
  [i \in DOMAIN list |-> Alteration(current, desired, list[i])]

ForeignKeys(o) == SetToSeq({x \in Needs[o] \ {o} : Catalog[x].kind = "table"})

\* deps: the foreign keys among the tables that are created together.
DepsAmong(tables) ==
  [o \in ToSet(tables) |-> Among(ForeignKeys(o), ToSet(tables))]

\* The tables' own comparison: created in dependency order, dropped, then altered.
compareTables(current, desired, order) ==
  LET new == Created(current, desired, "table", order)
  IN  Creations(current, desired, sortTablesByDependency(new, DepsAmong(new)))
      \o Removals(current, Removed(current, desired, "table", order))
      \o Alterations(current, desired, Altered(current, desired, "table", order))

\* Every other kind: one pass over the desired objects, then one over the current ones.
compareKind(current, desired, kind, order) ==
  LET New(o) == SameKey(current, o) = {}
      kept   == Among(Listed(desired, kind, order),
                  {o \in Objects : New(o) \/ Differs(o, current[Entry(current, o)], desired[o])})
  IN  [i \in DOMAIN kept |-> IF New(kept[i]) THEN Creation(desired, kept[i])
                             ELSE Alteration(current, desired, kept[i])]
      \o Removals(current, Removed(current, desired, kind, order))

\* The kinds that have no object at all contribute nothing.
KindsInUse == Among(CompareOrder, {Catalog[o].kind : o \in Objects})

Compare(current, desired, order) ==
  LET Changes(kind) == IF kind = "table" THEN compareTables(current, desired, order)
                       ELSE compareKind(current, desired, kind, order)
  IN  FlattenSeq([i \in DOMAIN KindsInUse |-> Changes(KindsInUse[i])])
-----------------------------------------------------------------------------
(* The statements of a change.                                               *)
Statement(op, o, def) == [op |-> op, obj |-> o, def |-> def]
Remark(o)      == <<Statement("remark", o, Absent)>>       \* -- IRREVERSIBLE: ...
CreateSQL(o, def) == <<Statement(KindOf(o).create, o, def)>>
DropSQL(o)     == <<Statement(KindOf(o).drop, o, Absent)>>
AlterSQL(o, def) ==
  IF KindOf(o).alter = "recreate" THEN DropSQL(o) \o CreateSQL(o, def)
  ELSE <<Statement(KindOf(o).alter, o, def)>>

SQL(c) == CASE c.op = "create" -> CreateSQL(c.obj, c.new)
            [] c.op = "drop"   -> DropSQL(c.obj)
            [] c.op = "alter"  -> AlterSQL(c.obj, c.new)

\* What IsReversible reports: lost are enum values, dropped columns and dropped tables.
IsReversible(c) ==
  CASE c.op = "create" -> TRUE
    [] c.op = "drop"   -> KindOf(c.obj).recreates
    [] c.op = "alter"  -> /\ Catalog[c.obj].kind # "enum"
                          /\ Catalog[c.obj].kind = "table" => c.old.main <= c.new.main

\* What the down script of a DROP writes back: a dropped role loses its limits.
Restored(o, def) == [f \in Facets |-> IF f \in KindOf(o).restores THEN def[f] ELSE 1]

DownSQL(c) ==
  IF ~IsReversible(c) THEN Remark(c.obj)
  ELSE CASE c.op = "create" -> DropSQL(c.obj)
         [] c.op = "drop"   -> CreateSQL(c.was, Restored(c.was, c.old))
         [] c.op = "alter"  -> AlterSQL(c.was, c.old)

UpScript(changes) == FlattenSeq([i \in DOMAIN changes |-> SQL(changes[i])])

\* The mutant that writes the down script in the order of the up script.
DownScriptForward(changes) == FlattenSeq([i \in DOMAIN changes |-> DownSQL(changes[i])])
DownScript(changes) ==
  LET last == Reverse(changes) IN FlattenSeq([i \in DOMAIN last |-> DownSQL(last[i])])
-----------------------------------------------------------------------------
(* PostgreSQL runs a script in one transaction.                              *)
Ready(db, o)  == \A x \in Needs[o] : Has(db, x)
Going(db, o)  == {o} \cup {x \in Objects : Has(db, x) /\ o \in PartOf[x]}
Held(db, o)   == \E x \in Objects \ Going(db, o) : Has(db, x) /\ Needs[x] \cap Going(db, o) # {}

\* DROP FUNCTION name, without its arguments, is refused for an overloaded name.
Ambiguous(db, o) ==
  /\ Catalog[o].kind = "function"
  /\ \E x \in Objects \ {o} : /\ Has(db, x) /\ Catalog[x].kind = "function"
                              /\ Catalog[x].schema = Catalog[o].schema
                              /\ Catalog[x].name = Catalog[o].name

\* CREATE OR REPLACE: a function keeps its result type, a view its columns.
Replaceable(o, old, new) ==
  old # Absent =>
    /\ Catalog[o].kind \in {"function", "procedure"} => new.rest = old.rest
    /\ Catalog[o].kind = "view" => new.rest >= old.rest

\* The columns of a view are those of its tables; ALTER TABLE drops those above def.main.
IsView(o)         == Catalog[o].kind \in {"view", "matview"}
Shows(db, o, def) ==
  IsView(o) => \A x \in Needs[o] : Catalog[x].kind = "table" => def.rest <= db[x].main
Stripped(db, o, def) ==
  {x \in Objects : /\ Catalog[o].kind = "table" /\ o \in Needs[x]
                   /\ IsView(x) \/ Catalog[x].kind = "index"
                   /\ db[x].rest > def.main}

Accepts(db, s) ==
  CASE s.op = "create"  -> /\ ~Has(db, s.obj) /\ Ready(db, s.obj)
                           /\ Shows(db, s.obj, s.def)
    [] s.op = "replace" -> /\ Ready(db, s.obj) /\ Shows(db, s.obj, s.def)
                           /\ Replaceable(s.obj, db[s.obj], s.def)
    [] s.op = "ensure"  -> Has(db, s.obj) \/ Ready(db, s.obj)
    [] s.op = "alter"   -> /\ Has(db, s.obj)
                           /\ \A x \in Stripped(db, s.obj, s.def) : s.obj \in PartOf[x]
    [] s.op = "drop"    -> Has(db, s.obj) /\ ~Held(db, s.obj) /\ ~Ambiguous(db, s.obj)
    [] s.op = "dropIf"  -> ~Held(db, s.obj)
    [] s.op = "unset"   -> Ready(db, s.obj)
    [] s.op = "remark"  -> TRUE
    [] s.op = "broken"  -> FALSE

Effect(db, s) ==
  CASE s.op \in {"create", "replace"} -> [db EXCEPT ![s.obj] = s.def]
    [] s.op = "ensure" -> [db EXCEPT ![s.obj] = IF Has(db, s.obj) THEN @ ELSE s.def]
    [] s.op = "alter"  -> [o \in Objects |->
         CASE o = s.obj -> [f \in Facets |-> IF f \in KindOf(o).rewrites THEN s.def[f]
                                              ELSE db[o][f]]
           [] o \in Stripped(db, s.obj, s.def) -> Absent
           [] OTHER -> db[o]]
    [] s.op \in {"drop", "dropIf", "unset"} ->
         [o \in Objects |-> IF o \in Going(db, s.obj) THEN Absent ELSE db[o]]
    [] OTHER -> db

Run(db, script) ==
  LET after[n \in 0..Len(script)] ==
        IF n = 0 THEN [ok |-> TRUE, db |-> db]
        ELSE LET r == after[n-1] IN
             IF r.ok /\ Accepts(r.db, script[n]) THEN [ok |-> TRUE, db |-> Effect(r.db, script[n])]
             ELSE [ok |-> FALSE, db |-> db]
  IN  after[Len(script)]
===============================================================================
