------------------------------ MODULE MCGenerate ------------------------------
EXTENDS Generate

Column(name, type, nullable) == [name |-> name, type |-> type, nullable |-> nullable]
ID       == Column("id", "int4", FALSE)
At       == Column("at", "timestamptz", FALSE)
MaybeAt  == Column("at", "timestamptz", TRUE)
ArrayAt  == Column("at", "timestamptz[]", FALSE)

Version  == Column("version", "int4", FALSE)

PascalNames  == [id |-> "ID", at |-> "At", count |-> "Count", version |-> "Version"]
SnakeNames   == [ID |-> "i_d", At |-> "at", Count |-> "count"]
ShopModels   == [mood |-> "mood", span |-> "span", users |-> "users", logs |-> "logs",
                 ledger |-> "ledger"]
ShopBindings == [ListUsers |-> "list_users", Touch |-> "touch"]
ShopShapes   == [mood  |-> {<<"MoodCalm">>, <<"MoodCalm", "MoodKeen">>}, span |-> {<<At>>},
                 users |-> {<<ID>>, <<ID, At>>, <<ID, MaybeAt>>}, logs |-> {<<ID>>},
                 ledger |-> {<<Version>>}]
MoodNames    == {"MoodCalm", "MoodKeen", "MoodDefault"}

\* Column types whose import the merge overlooks, or never takes back.
ArrayShapes == [ShopShapes EXCEPT !.users = @ \cup {<<ID, ArrayAt>>}, !.span = @ \cup {<<ID>>}]

\* A field that takes the place of a column, and one that no column has.
ShopFields == {[name |-> "At", type |-> "Scanner", tag |-> "own"],
               [name |-> "Count", type |-> "*time.Time", tag |-> "own"]}

Param(name, type) == [name |-> name, type |-> type]
Computed(name, type, agg) == [name |-> name, type |-> type, agg |-> agg]
AllUsers  == Sql("users", TRUE, {}, <<>>, <<Param("id", "int4")>>, {})
Counted   == Sql("users", TRUE, {}, <<Computed("count", "int4", FALSE)>>, <<>>, {})
Logged    == Sql("users", FALSE, {"id"}, <<Computed("count", "jsonb", TRUE)>>, <<>>, {})
TouchUsers == Sql("users", FALSE, {}, <<>>, <<>>, {})
Filter    == Sql("", FALSE, {}, <<>>, <<Param("at", "timestamptz"), Param("id", "int4"),
                                        Param("at", "timestamptz")>>, {"at"})

Versions  == Sql("ledger", TRUE, {}, <<>>, <<>>, {})

ListUsers == NameLine("ListUsers", "rows")
Touch     == NameLine("Touch", "exec")
HomeFile     == <<ListUsers, AllUsers>>
HomeSources  == {HomeFile, <<ListUsers, Counted, Touch, TouchUsers>>,
                  <<ListUsers, Logged>>}
Lines        == {ListUsers, Touch, AllUsers, TouchUsers, Filter, Comment}
SmallSources == UNION {[1..n -> Lines] : n \in 0..4}

EmptyDir == [f \in BindingFiles |-> NoFile]
OldDir   == [EmptyDir EXCEPT !["querier"] = Querier, !["list_users"] = [state |-> "go", query |-> "old"],
                             !["touch"]   = [state |-> "go", query |-> "old"]]
HomeSchema == [mood |-> <<"MoodCalm">>, span |-> <<At>>, users |-> <<ID, At>>, logs |-> <<ID>>,
               ledger |-> <<>>]
JustUsers  == [HomeSchema EXCEPT !["mood"] = <<>>, !["span"] = <<>>, !["logs"] = <<>>]
Migrated   == [JustUsers EXCEPT !["ledger"] = <<Version>>]

\* Bounds: the schema and the models are edited and there is no query file;
\* everything is edited, less often; so it is in a database that has the table of
\* migrations; the query file is any small one, the directory holds functions of an
\* earlier one, and nothing is edited.
ShopStarts ==
  {[schema |-> [HomeSchema EXCEPT !["logs"] = <<>>], source |-> <<>>, bindings |-> EmptyDir, changes |-> 3],
   [schema |-> HomeSchema, source |-> HomeFile, bindings |-> EmptyDir, changes |-> 2],
   [schema |-> Migrated, source |-> HomeFile, bindings |-> EmptyDir, changes |-> 2]}
  \cup {[schema |-> JustUsers, source |-> s, bindings |-> OldDir, changes |-> 0] : s \in SmallSources}

\* The migrations are queried.
LedgerStarts == {[schema |-> Migrated, source |-> <<ListUsers, Versions>>, bindings |-> EmptyDir, changes |-> 0]}

\* Blocks of constants of a user: of another name, and of the enum's.
OwnConstants   == {<<"fallback">>}
EnumsConstants == {<<"MoodDefault">>}

\* The hypotheses of the theorems about these invariants hold here.
ASSUME ShopHypotheses ==
  TablesApart /\ FilesApart /\ LinesFit /\ FieldsReturn /\ AggsApart
===============================================================================
