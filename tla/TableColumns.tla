------------------------------ MODULE TableColumns ------------------------------
(***************************************************************************)
(* The columns of one table through a series of migrations and rollbacks:  *)
(* compareTableColumns and the ALTER TABLE statements of                   *)
(* internal/diff/table.go, run in order by PostgreSQL on a table that has  *)
(* rows (the scratch databases the statements were generated in have none).*)
(*                                                                         *)
(* A column is what introspection reads of it: type, nullability, default. *)
(* (loadTables fills no other field of parser.Column, so the identity and  *)
(* generation branches of table.go are never taken.)                       *)
(***************************************************************************)
EXTENDS Naturals, Sequences

CONSTANTS
  Columns,        \* names
  Types,          \* as resolveType names them
  Wide,           \* the types that hold values the others do not
  Casts,          \* [from, to]: types PostgreSQL converts without being told how
  Defaults,       \* texts of DEFAULT expressions
  Fits,           \* [default, type]: the types PostgreSQL accepts a default for
  Definitions,    \* of each column, the definitions it may be given
  Partitioned,    \* is the table a partition with its parent, both listed as tables?
  MaxVersions     \* bound: versions of the schema file, a migration between each two

NoDefault == ""
NoColumn  == [type |-> "none", nullable |-> TRUE, default |-> NoDefault]
Column    == [type : Types, nullable : BOOLEAN, default : Defaults \cup {NoDefault}]

\* What PostgreSQL accepted once, it can have a default of.
Fitting(default, type) == default = NoDefault \/ <<default, type>> \in Fits

ASSUME ColumnsAssumption ==
  /\ "none" \notin Types
  /\ "" \notin Columns
  /\ Casts \subseteq Types \X Types
  /\ Fits \subseteq Defaults \X Types
  /\ \A c \in Columns : Definitions[c] \subseteq Column \cup {NoColumn}
  /\ \A c \in Columns : \A d \in Definitions[c] : Fitting(d.default, d.type)

VARIABLES
  versions,  \* the schema file through time; migration i leads from versions[i] to the next
  applied,   \* the version the database was migrated to
  cols,      \* the table: of each name its definition, or NoColumn
  rows,      \* has it rows?
  nulls,     \* the columns with a NULL in some row
  wide,      \* the columns with a value that needs one of the types Wide
  run,       \* the migration that is run up or down: [op, old, new]
  script,    \* its statements that are still to be run
  on,        \* the column of the last one
  table      \* the table as its transaction sees it: [cols, nulls, wide]

transaction == <<run, script, on, table>>
vars == <<versions, applied, cols, rows, nulls, wide, transaction>>

Schemas == {t \in [Columns -> UNION {Definitions[c] : c \in Columns}] :
              \A c \in Columns : t[c] \in Definitions[c]}
Present(t) == {c \in Columns : t[c] # NoColumn}
-----------------------------------------------------------------------------
(* The comparison and its SQL (table.go)                                     *)

Fields == {"type", "nullable", "default"}

\* compareColumn: what differs.
compareColumn(old, new) == {field \in Fields : old[field] # new[field]}

\* A bug: the default is changed while the column still has its old type.
RankDefaultFirst(op) ==
  CASE op = "drop" -> 0 [] op = "add" -> 1 [] op = "default" -> 2 [] op = "type" -> 3
    [] op = "nullable" -> 4

\* The order in which compareColumn finds it, which is that of the statements.
Rank(op) ==
  CASE op = "drop" -> 0 [] op = "add" -> 1 [] op = "type" -> 2 [] op = "nullable" -> 3
    [] op = "default" -> 4

Added(old, new)   == Present(new) \ Present(old)
Dropped(old, new) == Present(old) \ Present(new)
Altered(old, new) == {c \in Present(old) \cap Present(new) : old[c] # new[c]}

\* A script has three parts, one after the other: columns to add, to drop, to alter.
AddColumn(c, def)       == [part |-> 1, op |-> "add", col |-> c, to |-> def]
DropColumn(c)           == [part |-> 2, op |-> "drop", col |-> c, to |-> NoColumn]
SetField(c, field, def) == [part |-> 3, op |-> field, col |-> c, to |-> def[field]]

\* A bug: the column is replaced by one of the new definition.
AlterColumnsAnew(old, new, to) ==
  UNION {{[DropColumn(c) EXCEPT !.part = 3], [AddColumn(c, to[c]) EXCEPT !.part = 3]} :
           c \in Altered(old, new)}

\* The statements that turn the altered columns of old to their definition in `to`.
AlterColumns(old, new, to) ==
  UNION {{SetField(c, field, to[c]) : field \in compareColumn(old[c], new[c])} :
           c \in Altered(old, new)}

generateAlterTable(old, new) ==
  {AddColumn(c, new[c]) : c \in Added(old, new)}
    \cup {DropColumn(c) : c \in Dropped(old, new)}
    \cup AlterColumns(old, new, new)

\* A bug: the down script leaves the added columns.
generateAlterTableDownKeeps(old, new) == AlterColumns(old, new, old)

\* Of what was dropped it has only the remark -- IRREVERSIBLE.
generateAlterTableDown(old, new) ==
  {DropColumn(c) : c \in Added(old, new)} \cup AlterColumns(old, new, old)

IsReversible(old, new) == Dropped(old, new) = {}

\* The statements that may be next.  Columns are altered one after the other, in the
\* random order of a Go map.
NextStatements ==
  LET ready == {s \in script : \A r \in script :
                  /\ s.part <= r.part
                  /\ s.part = r.part /\ s.col = r.col => Rank(s.op) <= Rank(r.op)}
      same  == {s \in ready : s.col = on}
  IN  IF same = {} THEN ready ELSE same
-----------------------------------------------------------------------------
(* PostgreSQL                                                                *)

\* A table that stands alone: no key, view or generated column hangs on its columns.
\* What is done to a partition's parent is done to the partition; by itself it is refused.
OfParent(op) == op \in {"add", "drop", "type"}

Accepts(s) ==
  LET was == table.cols[s.col] IN
  /\ Partitioned => ~OfParent(s.op)
  /\ (s.op = "add") <=> (was = NoColumn)
  /\ s.op = "add" => /\ Fitting(s.to.default, s.to.type)
                     /\ rows => s.to.nullable \/ s.to.default # NoDefault
  /\ s.op = "type" => /\ <<was.type, s.to>> \in Casts
                      /\ s.col \in table.wide => s.to \in Wide
  /\ s.op = "nullable" => s.to \/ s.col \notin table.nulls
  /\ s.op = "default" => Fitting(s.to, was.type)

\* The definition a statement makes of a column's.
Made(was, s) ==
  CASE s.op \in {"add", "drop"} -> s.to
    [] s.op = "type"     -> [type |-> s.to, nullable |-> was.nullable, default |-> was.default]
    [] s.op = "nullable" -> [type |-> was.type, nullable |-> s.to, default |-> was.default]
    [] s.op = "default"  -> [type |-> was.type, nullable |-> was.nullable, default |-> s.to]

Effect(s) ==
  [cols  |-> [table.cols EXCEPT ![s.col] = Made(@, s)],
   nulls |-> CASE s.op = "drop" -> table.nulls \ {s.col}
               [] s.op = "add" /\ rows /\ s.to.default = NoDefault -> table.nulls \cup {s.col}
               [] OTHER -> table.nulls,
   wide  |-> IF s.op = "drop" THEN table.wide \ {s.col} ELSE table.wide]

NoColumns == [c \in Columns |-> NoColumn]
NoRun     == [op |-> "none", old |-> NoColumns, new |-> NoColumns]
NoTable   == [cols |-> NoColumns, nulls |-> {}, wide |-> {}]
-----------------------------------------------------------------------------
Init ==
  /\ cols \in {t \in Schemas : Present(t) # {}}
  /\ versions = <<cols>>
  /\ applied = 1
  /\ rows = FALSE
  /\ nulls = {}
  /\ wide = {}
  /\ run = NoRun
  /\ script = {}
  /\ on = ""
  /\ table = NoTable

\* The schema file is edited and a migration generated, from a database that has replayed
\* all migrations to one that has executed the file.
Generate(new) ==
  /\ run = NoRun
  /\ Len(versions) < MaxVersions
  /\ new # versions[Len(versions)] /\ Present(new) # {}
  /\ versions' = Append(versions, new)
  /\ UNCHANGED <<applied, cols, rows, nulls, wide, transaction>>

Begin(op, old, new, statements) ==
  /\ run = NoRun
  /\ run' = [op |-> op, old |-> old, new |-> new]
  /\ script' = statements
  /\ table' = [cols |-> cols, nulls |-> nulls, wide |-> wide]
  /\ UNCHANGED <<versions, applied, cols, rows, nulls, wide, on>>

\* The next migration is run on the database, in one transaction ...
Apply ==
  /\ applied < Len(versions)
  /\ LET old == versions[applied]  new == versions[applied + 1]
     IN  Begin("up", old, new, generateAlterTable(old, new))

\* ... and the down script of the last one.
Rollback ==
  /\ applied > 1
  /\ LET old == versions[applied - 1]  new == versions[applied]
     IN  Begin("down", old, new, generateAlterTableDown(old, new))

Execute ==
  \E s \in NextStatements :
    /\ Accepts(s)
    /\ table' = Effect(s)
    /\ script' = script \ {s}
    /\ on' = s.col
    /\ UNCHANGED <<versions, applied, cols, rows, nulls, wide, run>>

End == run' = NoRun /\ script' = {} /\ on' = "" /\ table' = NoTable

\* At its first error the transaction is rolled back.
Refuse ==
  /\ \E s \in NextStatements : ~Accepts(s)
  /\ End
  /\ UNCHANGED <<versions, applied, cols, rows, nulls, wide>>

Commit ==
  /\ run # NoRun /\ script = {}
  /\ cols' = table.cols /\ nulls' = table.nulls /\ wide' = table.wide
  /\ applied' = IF run.op = "up" THEN applied + 1 ELSE applied - 1
  /\ End
  /\ UNCHANGED <<versions, rows>>

\* Somebody inserts a row; a migration's first statement locks the table.
Insert ==
  /\ run = NoRun
  /\ rows' = TRUE
  /\ \E n \in SUBSET {c \in Present(cols) : cols[c].nullable} :
     \E w \in SUBSET {c \in Present(cols) \ n : cols[c].type \in Wide} :
       nulls' = nulls \cup n /\ wide' = wide \cup w
  /\ UNCHANGED <<versions, applied, cols, transaction>>

Next ==
  \/ \E new \in Schemas : Generate(new)
  \/ Apply \/ Rollback \/ Execute \/ Refuse \/ Commit
  \/ Insert

Spec == Init /\ [][Next]_vars
-----------------------------------------------------------------------------
(* Properties                                                                *)

\* What stands in the way of turning the columns of one definition into the other's.
Obstacle(from, to) ==
  \/ \E c \in Altered(from, to) :
       \/ <<from[c].type, to[c].type>> \notin Casts /\ from[c].type # to[c].type
       \/ c \in wide /\ to[c].type \notin Wide
       \/ c \in nulls /\ ~to[c].nullable
  \/ \E c \in Added(from, to) : rows /\ ~to[c].nullable /\ to[c].default = NoDefault

Committed(op) == run.op = op /\ run' = NoRun /\ applied' # applied
Refused(op)   == run.op = op /\ run' = NoRun /\ applied' = applied

\* A migration turns the columns it was generated from into those of the schema file,
\* whatever is added, dropped and altered at once and in whatever order the map yields;
\* on a table that stands alone PostgreSQL refuses it only where the rows or the types
\* leave no way, or a rollback could not bring back what it had been generated from
\* (table.go:176-261, 424-525).
UpMakesTheTable ==
  [][/\ Committed("up") => \A c \in Columns : cols[c] = run.old[c] => cols'[c] = run.new[c]
     /\ Refused("up") => cols # run.old \/ Obstacle(run.old, run.new)]_vars

\* What a rollback can bring back: every column of before but for the dropped ones.
Regained(old, new) == [c \in Columns |-> IF c \in Dropped(old, new) THEN NoColumn ELSE old[c]]

\* A rollback brings that back; on a table that stands alone PostgreSQL refuses it only
\* where the rows or the types leave no way back (table.go:527-609).
DownMakesTheOldTable ==
  [][/\ Committed("down") =>
          \A c \in Columns : cols[c] = run.new[c] => cols'[c] = Regained(run.old, run.new)[c]
     /\ Refused("down") => cols # run.new \/ Obstacle(run.new, Regained(run.old, run.new))]_vars

\* No migration and no rollback empties a column that stays in the table (table.go:453).
ValuesStay ==
  [][\A c \in Present(cols) \cap Present(cols') :
       (c \in nulls => c \in nulls') /\ (c \in wide => c \in wide')]_vars

\* A change that IsReversible calls so is reversed by its down statements (README.md:7),
\* unless rows came in that do not fit.
ReversibleIsReversed ==
  [][Refused("down") => rows \/ ~IsReversible(run.old, run.new)]_vars
=============================================================================
