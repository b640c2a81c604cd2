----------------------------- MODULE QueryBinding -----------------------------
(***************************************************************************)
(* The Go function generate makes of a query: the columns PostgreSQL says  *)
(* it returns (introspect/query.go), the model whose fields they are, if   *)
(* there is one, and the file with the function (codegen/golang/queries.go)*)
(***************************************************************************)
EXTENDS GoModel, QueryFile

CONSTANTS SnakeCase  \* toSnakeCase, a function on the names of fields

QueryFailed == [ok |-> FALSE]

\* Prepare and the description of the result: a statement, one only, of
\* tables and columns that exist.  db gives the columns of each table.
Prepare(sql, db) ==
  LET first  == sql[1]
      table  == db[first.from]
      chosen == FlattenSeq([i \in DOMAIN table |->
                  IF first.star \/ table[i].name \in first.cols
                  THEN <<[name |-> table[i].name, type |-> table[i].type, agg |-> FALSE]>>
                  ELSE <<>>])
  IN  IF /\ {i \in DOMAIN sql : sql[i].starts} = {1}
         /\ table # <<>>
         /\ first.cols \subseteq {c.name : c \in Range(table)}
      THEN [ok |-> TRUE, columns |-> chosen \o first.computed]
      ELSE QueryFailed
-----------------------------------------------------------------------------
\* What introspect/query.go imports for a column or a parameter: the name that
\* oidToTypeName gives an array of times is not in its own pgTypeToGo, which takes it
\* for a type of the models and names no package.
QueryImportOf(pg) == IF pg = "timestamptz[]" THEN {} ELSE ImportOf(pg)
QueryImportsOf(columns) == UNION {QueryImportOf(c.type) : c \in Range(columns)}

Returns(query) == query.result \in {"row", "rows"}

NoMatch == [table |-> "", ext |-> {}]

\* A bug: columns the table does not have are not asked for.
MatchesMore(columns, t, seen, extensions) ==
  {c.name : c \in Range(seen[t])} \subseteq {c.name : c \in Range(columns)}

\* findMatchingModel: the first table all of whose columns are among those of
\* the query, if what is left are fields of its Extension struct.  tables are
\* the names in the order of the introspected schema, seen their columns,
\* extensions the fields read from the model files.
Matches(columns, t, seen, extensions) ==
  LET names == {c.name : c \in Range(columns)}
      own   == {c.name : c \in Range(seen[t])}
  IN  /\ own \subseteq names
      /\ names \ own \subseteq {SnakeCase[f] : f \in extensions[t]}

FindMatchingModel(query, columns, tables, seen, extensions) ==
  LET found == {i \in DOMAIN tables : Matches(columns, tables[i], seen, extensions)}
      table == tables[Min(found)]
  IN  IF columns = <<>> \/ ~Returns(query) \/ found = {} THEN NoMatch
      ELSE [table |-> table,
            ext   |-> {c.name : c \in Range(columns)} \ {c.name : c \in Range(seen[table])}]
-----------------------------------------------------------------------------
\* A json_agg column is scanned into bytes and decoded, unless it is the
\* Extension's, whose field scans itself.
Decoded(columns, match) == {c \in Range(columns) : c.agg /\ c.name \notin match.ext}

\* The model's struct, or that of a json_agg's elements, comes from the models package.
NeedsModels(query, columns, match) ==
  Returns(query) /\ (match # NoMatch \/ \E c \in Range(columns) : c.agg)

\* A bug: the packages of the columns are imported though the model names their types.
ImportsWithMatch(query, columns, params, match) ==
  (IF Returns(query) THEN QueryImportsOf(columns) ELSE {})
  \cup QueryImportsOf(params)
  \cup (IF NeedsModels(query, columns, match) THEN {"models"} ELSE {})

\* collectQueryImports.
CollectQueryImports(query, columns, params, match) ==
  (IF Returns(query) /\ match = NoMatch THEN QueryImportsOf(columns) ELSE {})
  \cup QueryImportsOf(params)
  \cup (IF NeedsModels(query, columns, match) THEN {"models"} ELSE {})

\* The packages the file names: in the row struct, the parameters and the decoding.
QueryUses(query, columns, params, match) ==
  (IF Returns(query) /\ match = NoMatch
   THEN UNION {QueryImportOf(c.type) : c \in {d \in Range(columns) : ~d.agg}} ELSE {})
  \cup QueryImportsOf(params)
  \cup (IF Returns(query) /\ Decoded(columns, match) # {} THEN {"json"} ELSE {})
  \cup (IF NeedsModels(query, columns, match) THEN {"models"} ELSE {})

\* generateQueryFile: the function's SQL with its $n, its parameters in order,
\* the struct it scans into and the fields it scans.
QueryGo(query, columns, tables, seen, extensions) ==
  LET match == FindMatchingModel(query, columns, tables, seen, extensions)
      p     == ExtractParameters(query.sql)
  IN  [state   |-> "go", query |-> query.name, sql |-> query.sql, positions |-> p.positions,
       args    |-> p.params,
       model   |-> match.table,
       scans   |-> IF Returns(query) THEN {PascalCase[c.name] : c \in Range(columns)} ELSE {},
       imports |-> CollectQueryImports(query, columns, p.params, match),
       uses    |-> QueryUses(query, columns, p.params, match)]
===============================================================================
