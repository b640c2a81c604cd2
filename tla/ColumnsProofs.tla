------------------------------ MODULE ColumnsProofs ------------------------------
(***************************************************************************)
(* Proofs about TableColumns for any columns, types, casts and defaults,   *)
(* any number of versions of the schema file and any rows.                 *)
(***************************************************************************)
EXTENDS TableColumns, TLAPS

-----------------------------------------------------------------------------
(* Columns and tables                                                        *)

\* The values of the fields; the provers need not look into the sets.
AnyType    == Types \cup {"none"}
Flags      == BOOLEAN
AnyDefault == Defaults \cup {NoDefault}
AnyColumn  == [type : AnyType, nullable : Flags, default : AnyDefault]
Tables     == [Columns -> AnyColumn]

\* A table every column of which PostgreSQL accepted in a version of the schema file.
Legal(t) == t \in Tables /\ \A c \in Columns : t[c] = NoColumn \/ t[c] \in Definitions[c]

\* An absent column is like any other, but for its type.
LEMMA NoColumnIs == NoColumn \in AnyColumn /\ NoColumn.type = "none"
  BY DEF NoColumn, AnyColumn, AnyType, Flags, AnyDefault

\* What the assumption says of a definition.
LEMMA DefinitionIs ==
  ASSUME NEW c \in Columns, NEW def \in Definitions[c]
  PROVE  /\ def \in AnyColumn /\ Fitting(def.default, def.type)
         /\ def # NoColumn => def.type # "none"
  <1>1. def \in Column \/ def = NoColumn
    BY ColumnsAssumption
  <1>2. def \in Column => def \in AnyColumn /\ def.type # "none"
    <2>1. "none" \notin Types
      BY ColumnsAssumption
    <2> QED
      BY <2>1 DEF Column, AnyColumn, AnyType, Flags, AnyDefault
  <1>3. Fitting(def.default, def.type)
    BY ColumnsAssumption
  <1> QED
    BY <1>1, <1>2, <1>3, NoColumnIs

\* The columns of a legal table are well typed, and absent exactly if they have no type.
LEMMA LegalIs ==
  ASSUME NEW t, Legal(t), NEW c \in Columns
  PROVE  /\ t[c] \in AnyColumn
         /\ t[c] # NoColumn => t[c].type # "none" /\ Fitting(t[c].default, t[c].type)
  BY DefinitionIs DEF Legal, Tables

\* A version of the schema file is legal, and so is what a rollback can regain of it.
LEMMA SchemasLegal == \A t \in Schemas : Legal(t)
  <1> SUFFICES ASSUME NEW t \in Schemas PROVE Legal(t)
    OBVIOUS
  <1>1. \A c \in Columns : t[c] \in Definitions[c]
    BY DEF Schemas
  <1>2. t \in Tables
    <2>1. t \in [Columns -> UNION {Definitions[c] : c \in Columns}]
      BY DEF Schemas
    <2>2. \A c \in Columns : t[c] \in AnyColumn
      BY <1>1, DefinitionIs
    <2> QED
      BY <2>1, <2>2 DEF Tables
  <1> QED
    BY <1>1, <1>2 DEF Legal

\* What a rollback can bring back of a version is legal too.
LEMMA RegainedLegal ==
  ASSUME NEW old, NEW new, Legal(old)
  PROVE  Legal(Regained(old, new))
  BY NoColumnIs DEF Legal, Tables, Regained

-----------------------------------------------------------------------------
(* Scripts                                                                   *)

\* What a script's statements are.
LEMMA StatementIs ==
  ASSUME NEW from, NEW to, NEW s \in generateAlterTable(from, to)
  PROVE  \E c \in Columns :
           \/ c \in Added(from, to) /\ s = AddColumn(c, to[c])
           \/ c \in Dropped(from, to) /\ s = DropColumn(c)
           \/ /\ c \in Altered(from, to)
              /\ \E field \in Fields : from[c][field] # to[c][field] /\ s = SetField(c, field, to[c])
  BY DEF generateAlterTable, AlterColumns, compareColumn, Added, Dropped, Altered, Present

\* A down script is the script that leads from the new table to what can be regained of
\* the old one: it drops what was added, and changes back what was changed.
LEMMA DownScript ==
  ASSUME NEW old, NEW new, Legal(old), Legal(new)
  PROVE  generateAlterTableDown(old, new) = generateAlterTable(new, Regained(old, new))
  <1> DEFINE to == Regained(old, new)
  <1>1. \A c \in Columns : to[c] = IF c \in Dropped(old, new) THEN NoColumn ELSE old[c]
    BY DEF Regained
  <1>2. Added(new, to) = {}
    BY <1>1 DEF Added, Dropped, Present
  <1>3. Dropped(new, to) = Added(old, new)
    BY <1>1 DEF Added, Dropped, Present
  <1>4. Altered(new, to) = Altered(old, new) /\ \A c \in Altered(old, new) : to[c] = old[c]
    BY <1>1 DEF Altered, Dropped, Present
  <1> HIDE DEF to
  <1>5. AlterColumns(old, new, old) = AlterColumns(new, to, to)
    <2>1. \A c \in Altered(old, new) : compareColumn(old[c], new[c]) = compareColumn(new[c], to[c])
      BY <1>4 DEF compareColumn
    <2>2. \A c \in Altered(old, new) : \A field \in Fields :
            SetField(c, field, old[c]) = SetField(c, field, to[c])
      BY <1>4
    <2> QED
      BY <1>4, <2>1, <2>2 DEF AlterColumns, compareColumn
  <1> QED
    BY <1>2, <1>3, <1>5 DEF generateAlterTable, generateAlterTableDown, to
-----------------------------------------------------------------------------
(* A column half way through a script                                        *)

\* The definition def of column c while the statements `left` of the script that leads
\* from one table to another are still to be run.
Progress(from, to, left, c, def) ==
  /\ c \in Added(from, to) => def = IF AddColumn(c, to[c]) \in left THEN NoColumn ELSE to[c]
  /\ c \in Dropped(from, to) => def = IF DropColumn(c) \in left THEN from[c] ELSE NoColumn
  /\ c \in Altered(from, to) =>
       /\ def \in AnyColumn
       /\ def.type = IF SetField(c, "type", to[c]) \in left THEN from[c].type ELSE to[c].type
       /\ def.nullable = IF SetField(c, "nullable", to[c]) \in left THEN from[c].nullable
                                                                  ELSE to[c].nullable
       /\ def.default = IF SetField(c, "default", to[c]) \in left THEN from[c].default
                                                                ELSE to[c].default
  /\ from[c] = to[c] => def = from[c]

\* A column is added, dropped, altered or left alone, and only one of these.
LEMMA OneFate ==
  ASSUME NEW from, NEW to, NEW c \in Columns
  PROVE  \/ /\ c \in Added(from, to) /\ c \notin Dropped(from, to) /\ c \notin Altered(from, to)
            /\ from[c] # to[c] /\ from[c] = NoColumn /\ to[c] # NoColumn
         \/ /\ c \notin Added(from, to) /\ c \in Dropped(from, to) /\ c \notin Altered(from, to)
            /\ from[c] # to[c] /\ from[c] # NoColumn /\ to[c] = NoColumn
         \/ /\ c \notin Added(from, to) /\ c \notin Dropped(from, to) /\ c \in Altered(from, to)
            /\ from[c] # to[c] /\ from[c] # NoColumn /\ to[c] # NoColumn
         \/ /\ c \notin Added(from, to) /\ c \notin Dropped(from, to) /\ c \notin Altered(from, to)
            /\ from[c] = to[c]
  BY DEF Added, Dropped, Altered, Present

\* Before the script every column is as in the one table ...
LEMMA ProgressBegins ==
  ASSUME NEW from, NEW to, Legal(from), Legal(to), NEW c \in Columns
  PROVE  Progress(from, to, generateAlterTable(from, to), c, from[c])
  <1> DEFINE left == generateAlterTable(from, to)
  <1>1. c \in Added(from, to) => AddColumn(c, to[c]) \in left
    BY DEF generateAlterTable
  <1>2. c \in Dropped(from, to) => DropColumn(c) \in left
    BY DEF generateAlterTable
  <1>3. ASSUME c \in Altered(from, to), NEW field \in Fields, from[c][field] # to[c][field]
        PROVE  SetField(c, field, to[c]) \in left
    BY <1>3 DEF generateAlterTable, AlterColumns, compareColumn
  <1>4. /\ from[c] \in AnyColumn /\ to[c] \in AnyColumn
        /\ "type" \in Fields /\ "nullable" \in Fields /\ "default" \in Fields
    BY LegalIs DEF Fields
  <1>5. /\ from[c]["type"] = from[c].type /\ to[c]["type"] = to[c].type
        /\ from[c]["nullable"] = from[c].nullable /\ to[c]["nullable"] = to[c].nullable
        /\ from[c]["default"] = from[c].default /\ to[c]["default"] = to[c].default
    BY <1>4 DEF AnyColumn
  <1> HIDE DEF left
  <1>6. ASSUME c \in Altered(from, to)
        PROVE  /\ from[c].type = IF SetField(c, "type", to[c]) \in left THEN from[c].type
                                                                       ELSE to[c].type
               /\ from[c].nullable = IF SetField(c, "nullable", to[c]) \in left
                                     THEN from[c].nullable ELSE to[c].nullable
               /\ from[c].default = IF SetField(c, "default", to[c]) \in left THEN from[c].default
                                                                             ELSE to[c].default
    BY <1>3, <1>4, <1>5, <1>6
  <1> QED
    BY <1>1, <1>2, <1>4, <1>6, OneFate DEF Progress, left

\* ... after it as in the other ...
LEMMA ProgressEnds ==
  ASSUME NEW from, NEW to, Legal(from), Legal(to), NEW c \in Columns, NEW def,
         Progress(from, to, {}, c, def)
  PROVE  def = to[c]
  <1>1. to[c] \in AnyColumn
    BY LegalIs
  <1>2. c \in Altered(from, to) =>
          /\ def \in AnyColumn /\ def.type = to[c].type
          /\ def.nullable = to[c].nullable /\ def.default = to[c].default
    BY DEF Progress
  <1>3. c \in Altered(from, to) => def = to[c]
    BY <1>1, <1>2 DEF AnyColumn
  <1> QED
    BY <1>3, OneFate DEF Progress

\* ... and each statement changes what it is about.
LEMMA ProgressGoesOn ==
  ASSUME NEW from, NEW to, Legal(from), Legal(to),
         NEW left \in SUBSET generateAlterTable(from, to), NEW s \in left,
         NEW c \in Columns, NEW def, Progress(from, to, left, c, def),
         NEW next, next = IF s.col = c THEN Made(def, s) ELSE def
  PROVE  Progress(from, to, left \ {s}, c, next)
  <1>1. PICK d \in Columns :
           \/ d \in Added(from, to) /\ s = AddColumn(d, to[d])
           \/ d \in Dropped(from, to) /\ s = DropColumn(d)
           \/ /\ d \in Altered(from, to)
              /\ \E field \in Fields : from[d][field] # to[d][field] /\ s = SetField(d, field, to[d])
    BY StatementIs
  <1>2. s.col = d
    BY <1>1 DEF AddColumn, DropColumn, SetField
  <1>3. /\ AddColumn(c, to[c]).col = c /\ DropColumn(c).col = c
        /\ \A field : SetField(c, field, to[c]).col = c
    BY DEF AddColumn, DropColumn, SetField
  <1>4. CASE d # c
    <2>1. next = def
      BY <1>2, <1>4
    <2>2. /\ AddColumn(c, to[c]) # s /\ DropColumn(c) # s
          /\ \A field : SetField(c, field, to[c]) # s
      BY <1>2, <1>3, <1>4
    <2> QED
      BY <2>1, <2>2 DEF Progress
  <1>5. CASE d = c /\ c \in Added(from, to)
    <2>1. s = AddColumn(c, to[c])
      BY <1>1, <1>5, OneFate
    <2>2. next = to[c]
      BY <1>2, <1>5, <2>1 DEF Made, AddColumn
    <2> QED
      BY <1>5, <2>1, <2>2, OneFate DEF Progress
  <1>6. CASE d = c /\ c \in Dropped(from, to)
    <2>1. s = DropColumn(c)
      BY <1>1, <1>6, OneFate
    <2>2. next = NoColumn
      BY <1>2, <1>6, <2>1 DEF Made, DropColumn
    <2> QED
      BY <1>6, <2>1, <2>2, OneFate DEF Progress
  <1>7. CASE d = c /\ c \in Altered(from, to)
    <2>1. PICK field \in Fields : s = SetField(c, field, to[c])
      BY <1>1, <1>7, OneFate
    <2>2. def \in AnyColumn /\ to[c] \in AnyColumn
      BY <1>7, LegalIs DEF Progress
    <2>3. next = Made(def, s)
      BY <1>2, <1>7
    <2>4. \A f, g \in Fields : SetField(c, f, to[c]) = SetField(c, g, to[c]) => f = g
      BY DEF SetField
    <2>5. s.op = field /\ s.to = to[c][field]
      BY <2>1 DEF SetField
    <2>6. CASE field = "type"
      <3>1. next = [type |-> to[c].type, nullable |-> def.nullable, default |-> def.default]
        BY <2>2, <2>3, <2>5, <2>6 DEF Made, AnyColumn
      <3>2. next \in AnyColumn
        BY <2>2, <3>1 DEF AnyColumn
      <3>3. next.type = to[c].type /\ next.nullable = def.nullable /\ next.default = def.default
        BY <3>1
      <3> QED
        BY <1>7, <2>1, <2>4, <2>6, <3>2, <3>3, OneFate DEF Progress, Fields
    <2>7. CASE field = "nullable"
      <3>1. next = [type |-> def.type, nullable |-> to[c].nullable, default |-> def.default]
        BY <2>2, <2>3, <2>5, <2>7 DEF Made, AnyColumn
      <3>2. next \in AnyColumn
        BY <2>2, <3>1 DEF AnyColumn
      <3>3. next.type = def.type /\ next.nullable = to[c].nullable /\ next.default = def.default
        BY <3>1
      <3> QED
        BY <1>7, <2>1, <2>4, <2>7, <3>2, <3>3, OneFate DEF Progress, Fields
    <2>8. CASE field = "default"
      <3>1. next = [type |-> def.type, nullable |-> def.nullable, default |-> to[c].default]
        BY <2>2, <2>3, <2>5, <2>8 DEF Made, AnyColumn
      <3>2. next \in AnyColumn
        BY <2>2, <3>1 DEF AnyColumn
      <3>3. next.type = def.type /\ next.nullable = def.nullable /\ next.default = to[c].default
        BY <3>1
      <3> QED
        BY <1>7, <2>1, <2>4, <2>8, <3>2, <3>3, OneFate DEF Progress, Fields
    <2> QED
      BY <2>6, <2>7, <2>8 DEF Fields
  <1> QED
    BY <1>1, <1>4, <1>5, <1>6, <1>7
\* Whatever the table looks like, a statement leaves a well typed column.
LEMMA MadeTyped ==
  ASSUME NEW from, NEW to, Legal(from), Legal(to), NEW s \in generateAlterTable(from, to),
         NEW was \in AnyColumn
  PROVE  Made(was, s) \in AnyColumn
  <1>1. PICK d \in Columns :
           \/ d \in Added(from, to) /\ s = AddColumn(d, to[d])
           \/ d \in Dropped(from, to) /\ s = DropColumn(d)
           \/ /\ d \in Altered(from, to)
              /\ \E field \in Fields : from[d][field] # to[d][field] /\ s = SetField(d, field, to[d])
    BY StatementIs
  <1>2. to[d] \in AnyColumn
    BY LegalIs
  <1>3. CASE s = AddColumn(d, to[d])
    BY <1>2, <1>3 DEF Made, AddColumn
  <1>4. CASE s = DropColumn(d)
    BY <1>4, NoColumnIs DEF Made, DropColumn
  <1>5. ASSUME NEW field \in Fields, s = SetField(d, field, to[d])
        PROVE  Made(was, s) \in AnyColumn
    BY <1>2, <1>5 DEF Made, SetField, AnyColumn, Fields
  <1> QED
    BY <1>1, <1>3, <1>4, <1>5

-----------------------------------------------------------------------------
(* The invariant                                                             *)

From == IF run.op = "up" THEN run.old ELSE run.new
To   == IF run.op = "up" THEN run.new ELSE Regained(run.old, run.new)

Versions == versions \in Seq(Schemas) /\ applied \in 1..Len(versions) /\ cols \in Tables

\* What is run leads from one version to a neighbour of it.
RunInv ==
  /\ run.op \in {"up", "down"} /\ run.old \in Schemas /\ run.new \in Schemas
  /\ run.op = "up" => applied < Len(versions)
  /\ run.op = "down" => applied > 1
  /\ script \subseteq generateAlterTable(From, To)

\* The columns that were as the script expects them are as far as it has come.
TableInv ==
  /\ table.cols \in Tables
  /\ \A c \in Columns :
       /\ cols[c] = From[c] => Progress(From, To, script, c, table.cols[c])
       /\ c \in Dropped(From, To) /\ DropColumn(c) \notin script => table.cols[c] = NoColumn

\* The values of the columns that are not dropped are still there.
RowsInv ==
  \A c \in Columns :
    /\ c \notin Dropped(From, To) => /\ c \in nulls => c \in table.nulls
                                     /\ c \in wide => c \in table.wide
    /\ c \notin Added(From, To) => (c \in table.nulls => c \in nulls)
    /\ c \in table.wide => c \in wide

ColumnsInv ==
  /\ Versions
  /\ \/ run = NoRun /\ script = {}
     \/ RunInv /\ TableInv /\ RowsInv

\* Both ends of a script are legal.
LEMMA EndsLegal == RunInv => Legal(From) /\ Legal(To)
  BY SchemasLegal, RegainedLegal DEF RunInv, From, To

\* Nothing is run at first.
LEMMA ColumnsInit == Init => ColumnsInv
  <1> SUFFICES ASSUME Init PROVE ColumnsInv
    OBVIOUS
  <1>1. cols \in Schemas /\ versions = <<cols>> /\ applied = 1 /\ run = NoRun /\ script = {}
    BY DEF Init
  <1>2. cols \in Tables
    BY <1>1, SchemasLegal DEF Legal
  <1> QED
    BY <1>1, <1>2 DEF ColumnsInv, Versions

\* A script begins with all its statements, on the table as it is.
LEMMA BeginNext ==
  ASSUME Versions, NEW op \in {"up", "down"}, NEW old \in Schemas, NEW new \in Schemas,
         op = "up" => applied < Len(versions), op = "down" => applied > 1,
         NEW statements,
         statements = IF op = "up" THEN generateAlterTable(old, new)
                                   ELSE generateAlterTableDown(old, new),
         Begin(op, old, new, statements)
  PROVE  ColumnsInv'
  <1>1. /\ run' = [op |-> op, old |-> old, new |-> new] /\ script' = statements
        /\ table' = [cols |-> cols, nulls |-> nulls, wide |-> wide]
        /\ UNCHANGED <<versions, applied, cols, rows, nulls, wide>>
    BY DEF Begin
  <1>2. Legal(old) /\ Legal(new)
    BY SchemasLegal
  <1>3. /\ run'.op = op /\ run'.old = old /\ run'.new = new
        /\ table'.cols = cols /\ table'.nulls = nulls /\ table'.wide = wide
    BY <1>1
  <1>4. script' = generateAlterTable(From', To') /\ Legal(From') /\ Legal(To')
    <2>1. CASE op = "up"
      BY <1>1, <1>2, <1>3, <2>1 DEF From, To
    <2>2. CASE op = "down"
      BY <1>1, <1>2, <1>3, <2>2, DownScript, RegainedLegal DEF From, To
    <2> QED
      BY <2>1, <2>2
  <1>5. RunInv'
    BY <1>1, <1>3, <1>4 DEF RunInv
  <1>6. TableInv'
    <2>1. \A c \in Columns : cols[c] = From'[c] => Progress(From', To', script', c, cols[c])
      BY <1>4, ProgressBegins
    <2>2. \A c \in Columns : c \in Dropped(From', To') => DropColumn(c) \in script'
      BY <1>4 DEF generateAlterTable
    <2> QED
      BY <1>1, <1>3, <2>1, <2>2 DEF TableInv, Versions
  <1>7. RowsInv'
    BY <1>1, <1>3 DEF RowsInv
  <1> QED
    BY <1>1, <1>5, <1>6, <1>7 DEF ColumnsInv, Versions

\* A statement moves its own column on, and no other; and it takes no values of columns
\* that are not dropped.
LEMMA ExecuteNext ==
  ASSUME Versions, RunInv, TableInv, RowsInv, Execute
  PROVE  ColumnsInv'
  <1>1. PICK s \in script :
          /\ table' = Effect(s) /\ script' = script \ {s}
          /\ UNCHANGED <<versions, applied, cols, rows, nulls, wide, run>>
    BY DEF Execute, NextStatements
  <1>2. From' = From /\ To' = To
    BY <1>1 DEF From, To
  <1>3. Legal(From) /\ Legal(To) /\ script \in SUBSET generateAlterTable(From, To)
    BY EndsLegal DEF RunInv
  <1>4. PICK d \in Columns :
           \/ d \in Added(From, To) /\ s = AddColumn(d, To[d])
           \/ d \in Dropped(From, To) /\ s = DropColumn(d)
           \/ /\ d \in Altered(From, To)
              /\ \E field \in Fields : From[d][field] # To[d][field] /\ s = SetField(d, field, To[d])
    BY <1>3, StatementIs
  <1>5. s.col = d
    BY <1>4 DEF AddColumn, DropColumn, SetField
  <1>6. /\ table'.cols = [table.cols EXCEPT ![d] = Made(table.cols[d], s)]
        /\ table'.nulls = CASE s.op = "drop" -> table.nulls \ {d}
                            [] s.op = "add" /\ rows /\ s.to.default = NoDefault -> table.nulls \cup {d}
                            [] OTHER -> table.nulls
        /\ table'.wide = IF s.op = "drop" THEN table.wide \ {d} ELSE table.wide
    BY <1>1, <1>5 DEF Effect
  <1>7. table'.cols \in Tables /\ \A c \in Columns :
          table'.cols[c] = IF s.col = c THEN Made(table.cols[c], s) ELSE table.cols[c]
    <2>1. Made(table.cols[d], s) \in AnyColumn
      BY <1>3, MadeTyped DEF TableInv, Tables
    <2> QED
      BY <1>5, <1>6, <2>1 DEF TableInv, Tables
  <1>8. RunInv'
    BY <1>1, <1>2 DEF RunInv
  <1>9. TableInv'
    <2>1. ASSUME NEW c \in Columns, cols[c] = From[c]
          PROVE  Progress(From, To, script', c, table'.cols[c])
      BY <1>1, <1>3, <1>7, <2>1, ProgressGoesOn DEF TableInv
    <2>2. ASSUME NEW c \in Columns, c \in Dropped(From, To), DropColumn(c) \notin script'
          PROVE  table'.cols[c] = NoColumn
      <3>1. CASE s = DropColumn(c)
        BY <1>7, <3>1 DEF Made, DropColumn
      <3>2. CASE s # DropColumn(c)
        <4>1. d # c
          BY <1>4, <2>2, <3>2, OneFate
        <4> QED
          BY <1>1, <1>5, <1>7, <2>2, <3>2, <4>1 DEF TableInv
      <3> QED
        BY <3>1, <3>2
    <2> QED
      BY <1>1, <1>2, <1>7, <2>1, <2>2 DEF TableInv
  <1>10. RowsInv'
    <2>1. s.op = "drop" => d \in Dropped(From, To)
      BY <1>4 DEF AddColumn, SetField, Fields
    <2>2. s.op = "add" => d \in Added(From, To)
      BY <1>4 DEF DropColumn, SetField, Fields
    <2> QED
      BY <1>1, <1>2, <1>6, <2>1, <2>2 DEF RowsInv
  <1> QED
    BY <1>1, <1>8, <1>9, <1>10 DEF ColumnsInv, Versions

\* Every step keeps the invariant.
LEMMA ColumnsNext == ColumnsInv /\ [Next]_vars => ColumnsInv'
  <1> SUFFICES ASSUME ColumnsInv, [Next]_vars PROVE ColumnsInv'
    OBVIOUS
  <1>1. Versions
    BY DEF ColumnsInv
  <1>2. run = NoRun => script = {}
    BY DEF ColumnsInv, RunInv, NoRun
  <1>3. run # NoRun => RunInv /\ TableInv /\ RowsInv
    BY DEF ColumnsInv
  <1>4. ASSUME NEW new \in Schemas, Generate(new) PROVE ColumnsInv'
    BY <1>1, <1>2, <1>4 DEF Generate, ColumnsInv, Versions, transaction
  <1>5. CASE Apply
    <2>1. applied + 1 \in 1..Len(versions) /\ applied \in 1..Len(versions)
      BY <1>1, <1>5 DEF Apply, Versions
    <2>2. versions[applied] \in Schemas /\ versions[applied + 1] \in Schemas
      BY <1>1, <2>1 DEF Versions
    <2> QED
      BY <1>1, <1>5, <2>2, BeginNext DEF Apply
  <1>6. CASE Rollback
    <2>1. applied - 1 \in 1..Len(versions) /\ applied \in 1..Len(versions)
      BY <1>1, <1>6 DEF Rollback, Versions
    <2>2. versions[applied - 1] \in Schemas /\ versions[applied] \in Schemas
      BY <1>1, <2>1 DEF Versions
    <2> QED
      BY <1>1, <1>6, <2>2, BeginNext DEF Rollback
  <1>7. CASE Execute
    <2>1. run # NoRun
      BY <1>2, <1>7 DEF Execute, NextStatements
    <2> QED
      BY <1>1, <1>3, <1>7, <2>1, ExecuteNext
  <1>8. CASE Refuse
    BY <1>1, <1>8 DEF Refuse, End, ColumnsInv, Versions
  <1>9. CASE Commit
    <2>1. RunInv /\ TableInv
      BY <1>3, <1>9 DEF Commit
    <2>2. applied' \in 1..Len(versions)
      BY <1>1, <1>9, <2>1 DEF Commit, RunInv, Versions
    <2> QED
      BY <1>1, <1>9, <2>1, <2>2 DEF Commit, End, TableInv, ColumnsInv, Versions
  <1>10. CASE Insert
    BY <1>1, <1>2, <1>10 DEF Insert, ColumnsInv, Versions, transaction
  <1>11. CASE UNCHANGED vars
    <2>1. UNCHANGED <<versions, applied, cols, rows, nulls, wide, run, script, table>>
      BY <1>11 DEF vars, transaction
    <2>2. Versions'
      BY <1>1, <2>1 DEF Versions
    <2>3. run # NoRun => (RunInv /\ TableInv /\ RowsInv)'
      BY <1>3, <2>1 DEF RunInv, TableInv, RowsInv, From, To
    <2> QED
      BY <1>2, <2>1, <2>2, <2>3 DEF ColumnsInv
  <1> QED
    BY <1>4, <1>5, <1>6, <1>7, <1>8, <1>9, <1>10, <1>11 DEF Next

\* The invariant holds of every reachable state.
LEMMA ColumnsHold == Spec => []ColumnsInv
  BY ColumnsInit, ColumnsNext, PTL DEF Spec
-----------------------------------------------------------------------------
(* What a run ends with                                                      *)

\* A run ends by its commit, or by a statement that was refused.
LEMMA RunEnds ==
  ASSUME ColumnsInv, [Next]_vars, NEW op \in {"up", "down"}, run.op = op, run' = NoRun
  PROVE  /\ RunInv /\ TableInv /\ RowsInv
         /\ \/ Commit /\ applied' # applied
            \/ Refuse /\ applied' = applied
  <1>1. run # NoRun /\ RunInv /\ TableInv /\ RowsInv /\ applied \in Nat
    BY DEF ColumnsInv, NoRun, Versions
  <1>2. Commit \/ Refuse
    BY <1>1 DEF Next, Generate, Apply, Rollback, Begin, Execute, Insert, vars, transaction
  <1>3. Commit => applied' # applied
    BY <1>1 DEF Commit, RunInv
  <1>4. Refuse => applied' = applied
    BY DEF Refuse
  <1> QED
    BY <1>1, <1>2, <1>3, <1>4

\* A committed script has turned every column that was as expected to what was wanted.
LEMMA CommitMakes ==
  ASSUME RunInv, TableInv, Commit, NEW c \in Columns, cols[c] = From[c]
  PROVE  cols'[c] = To[c]
  <1>1. script = {} /\ cols' = table.cols
    BY DEF Commit
  <1> QED
    BY <1>1, EndsLegal, ProgressEnds DEF TableInv

\* A statement is refused only where the rows or the types leave no way: the table is what
\* the comparison took it for, and a default is only changed when the type already is.
LEMMA RefusedWhy ==
  ASSUME ~Partitioned, RunInv, TableInv, RowsInv, Refuse, cols = From
  PROVE  Obstacle(From, To)
  <1>1. PICK s \in script :
          /\ ~Accepts(s)
          /\ \A r \in script : s.part = r.part /\ s.col = r.col => Rank(s.op) <= Rank(r.op)
    BY DEF Refuse, NextStatements
  <1>2. PICK d \in Columns :
           \/ d \in Added(From, To) /\ s = AddColumn(d, To[d])
           \/ d \in Dropped(From, To) /\ s = DropColumn(d)
           \/ /\ d \in Altered(From, To)
              /\ \E field \in Fields : From[d][field] # To[d][field] /\ s = SetField(d, field, To[d])
    BY <1>1, StatementIs DEF RunInv
  <1>3. Legal(From) /\ Legal(To) /\ From[d] \in AnyColumn /\ To[d] \in AnyColumn
    BY EndsLegal, LegalIs
  <1>4. Progress(From, To, script, d, table.cols[d])
    BY DEF TableInv
  <1>5. CASE d \in Added(From, To) /\ s = AddColumn(d, To[d])
    <2>1. table.cols[d] = NoColumn
      BY <1>1, <1>4, <1>5 DEF Progress
    <2>2. Fitting(To[d].default, To[d].type)
      BY <1>3, <1>5, LegalIs, OneFate
    <2>3. s.col = d /\ s.op = "add" /\ s.to = To[d]
      BY <1>5 DEF AddColumn
    <2>4. rows /\ ~To[d].nullable /\ To[d].default = NoDefault
      BY <1>1, <2>1, <2>2, <2>3 DEF Accepts
    <2> QED
      BY <1>5, <2>4 DEF Obstacle
  <1>6. CASE d \in Dropped(From, To) /\ s = DropColumn(d)
    <2>1. table.cols[d] # NoColumn
      BY <1>1, <1>4, <1>6, OneFate DEF Progress
    <2>2. s.col = d /\ s.op = "drop"
      BY <1>6 DEF DropColumn
    <2> QED
      BY <1>1, <2>1, <2>2 DEF Accepts
  <1>7. ASSUME d \in Altered(From, To), NEW field \in Fields,
               From[d][field] # To[d][field], s = SetField(d, field, To[d])
        PROVE  Obstacle(From, To)
    <2>1. /\ table.cols[d] \in AnyColumn
          /\ table.cols[d].type = IF SetField(d, "type", To[d]) \in script THEN From[d].type
                                                                         ELSE To[d].type
      BY <1>4, <1>7 DEF Progress
    <2>2. table.cols[d] # NoColumn
      BY <1>3, <1>7, <2>1, LegalIs, OneFate, NoColumnIs
    <2>3. s.part = 3 /\ s.col = d /\ s.op = field /\ s.to = To[d][field]
      BY <1>7 DEF SetField
    <2>4. (d \in table.nulls => d \in nulls) /\ (d \in table.wide => d \in wide)
      BY <1>7, OneFate DEF RowsInv
    <2>5. CASE field = "type"
      <3>1. s.op = "type" /\ s.to = To[d].type /\ From[d].type # To[d].type
        BY <1>3, <1>7, <2>3, <2>5 DEF AnyColumn
      <3>2. table.cols[d].type = From[d].type
        BY <1>1, <1>7, <2>1, <2>5
      <3>3. <<From[d].type, To[d].type>> \notin Casts \/ (d \in wide /\ To[d].type \notin Wide)
        BY <1>1, <2>2, <2>3, <2>4, <3>1, <3>2 DEF Accepts
      <3> QED
        BY <1>7, <3>1, <3>3 DEF Obstacle
    <2>6. CASE field = "nullable"
      <3>1. s.op = "nullable" /\ s.to = To[d].nullable
        BY <1>3, <2>3, <2>6 DEF AnyColumn
      <3>2. ~To[d].nullable /\ d \in nulls
        BY <1>1, <2>2, <2>3, <2>4, <3>1 DEF Accepts
      <3> QED
        BY <1>7, <3>2 DEF Obstacle
    <2>7. CASE field = "default"
      <3>1. s.op = "default" /\ s.to = To[d].default
        BY <1>3, <2>3, <2>7 DEF AnyColumn
      <3>2. SetField(d, "type", To[d]) \notin script
        <4>1. /\ SetField(d, "type", To[d]).part = 3 /\ SetField(d, "type", To[d]).col = d
              /\ SetField(d, "type", To[d]).op = "type"
          BY DEF SetField
        <4>2. Rank("default") = 4 /\ Rank("type") = 2
          BY DEF Rank
        <4> QED
          BY <1>1, <2>3, <3>1, <4>1, <4>2
      <3>3. table.cols[d].type = To[d].type
        BY <2>1, <3>2
      <3>4. Fitting(To[d].default, To[d].type)
        BY <1>3, <1>7, LegalIs, OneFate
      <3> QED
        BY <1>1, <2>2, <2>3, <3>1, <3>3, <3>4 DEF Accepts
    <2> QED
      BY <2>5, <2>6, <2>7 DEF Fields
  <1> QED
    BY <1>2, <1>5, <1>6, <1>7

-----------------------------------------------------------------------------
(* Theorems                                                                  *)

\* Whatever is added, dropped and altered at once, and in whatever order the map of columns
\* yields: a migration turns every column that is as it was when the migration was generated
\* into that of the schema file, and PostgreSQL refuses it only where the rows or the types
\* leave no way (table.go:176-261, 424-525).  Of a partition this is not so: its ALTERs are
\* refused whatever they are.
THEOREM MigrationsMakeTheTable ==
  ASSUME ~Partitioned
  PROVE  Spec => UpMakesTheTable
  <1> DEFINE Step ==
        /\ Committed("up") => \A c \in Columns : cols[c] = run.old[c] => cols'[c] = run.new[c]
        /\ Refused("up") => cols # run.old \/ Obstacle(run.old, run.new)
  <1>1. ASSUME ColumnsInv, [Next]_vars PROVE Step
    <2>1. run.op = "up" => From = run.old /\ To = run.new
      BY DEF From, To
    <2>2. ASSUME Committed("up") PROVE Commit /\ RunInv /\ TableInv
      BY <1>1, <2>2, RunEnds DEF Committed
    <2>3. ASSUME Refused("up") PROVE Refuse /\ RunInv /\ TableInv /\ RowsInv
      BY <1>1, <2>3, RunEnds DEF Refused
    <2>4. ASSUME Committed("up"), NEW c \in Columns, cols[c] = run.old[c]
          PROVE  cols'[c] = run.new[c]
      BY <2>1, <2>2, <2>4, CommitMakes DEF Committed
    <2>5. ASSUME Refused("up"), cols = run.old PROVE Obstacle(run.old, run.new)
      BY <2>1, <2>3, <2>5, RefusedWhy DEF Refused
    <2> QED
      BY <2>4, <2>5
  <1>2. ColumnsInv /\ [Next]_vars => [Step]_vars
    BY <1>1
  <1> HIDE DEF Step
  <1>3. UpMakesTheTable <=> [][Step]_vars
    BY DEF UpMakesTheTable, Step
  <1> QED
    BY <1>2, <1>3, ColumnsHold, PTL DEF Spec

\* A rollback brings back every column of before but the dropped ones, and is refused only
\* where the rows or the types leave no way back (table.go:527-609).
THEOREM RollbacksMakeTheOldTable ==
  ASSUME ~Partitioned
  PROVE  Spec => DownMakesTheOldTable
  <1> DEFINE Step ==
        /\ Committed("down") =>
             \A c \in Columns : cols[c] = run.new[c] => cols'[c] = Regained(run.old, run.new)[c]
        /\ Refused("down") => cols # run.new \/ Obstacle(run.new, Regained(run.old, run.new))
  <1>1. ASSUME ColumnsInv, [Next]_vars PROVE Step
    <2>1. run.op = "down" => From = run.new /\ To = Regained(run.old, run.new)
      BY DEF From, To
    <2>2. ASSUME Committed("down") PROVE Commit /\ RunInv /\ TableInv
      BY <1>1, <2>2, RunEnds DEF Committed
    <2>3. ASSUME Refused("down") PROVE Refuse /\ RunInv /\ TableInv /\ RowsInv
      BY <1>1, <2>3, RunEnds DEF Refused
    <2>4. ASSUME Committed("down"), NEW c \in Columns, cols[c] = run.new[c]
          PROVE  cols'[c] = Regained(run.old, run.new)[c]
      BY <2>1, <2>2, <2>4, CommitMakes DEF Committed
    <2>5. ASSUME Refused("down"), cols = run.new
          PROVE  Obstacle(run.new, Regained(run.old, run.new))
      BY <2>1, <2>3, <2>5, RefusedWhy DEF Refused
    <2> QED
      BY <2>4, <2>5
  <1>2. ColumnsInv /\ [Next]_vars => [Step]_vars
    BY <1>1
  <1> HIDE DEF Step
  <1>3. DownMakesTheOldTable <=> [][Step]_vars
    BY DEF DownMakesTheOldTable, Step
  <1> QED
    BY <1>2, <1>3, ColumnsHold, PTL DEF Spec

\* No migration and no rollback empties a column that stays in the table: a changed column
\* is never dropped and added again (table.go:453, 455-476).
THEOREM ColumnsKeepValues == Spec => ValuesStay
  <1> DEFINE Step ==
        \A c \in Present(cols) \cap Present(cols') :
          (c \in nulls => c \in nulls') /\ (c \in wide => c \in wide')
  <1>1. ASSUME ColumnsInv, [Next]_vars PROVE Step
    <2>1. CASE Commit
      <3>1. RunInv /\ TableInv /\ RowsInv
        BY <1>1, <2>1 DEF ColumnsInv, Commit
      <3>2. script = {} /\ cols' = table.cols /\ nulls' = table.nulls /\ wide' = table.wide
        BY <2>1 DEF Commit
      <3> QED
        BY <3>1, <3>2 DEF TableInv, RowsInv, Present
    <2>2. CASE Insert
      BY <2>2 DEF Insert
    <2>3. CASE ~Commit /\ ~Insert
      <3>1. UNCHANGED <<nulls, wide>>
        BY <1>1, <2>3
        DEF Next, Generate, Apply, Rollback, Begin, Execute, Refuse, vars
      <3> QED
        BY <3>1
    <2> QED
      BY <2>1, <2>2, <2>3
  <1>2. ColumnsInv /\ [Next]_vars => [Step]_vars
    BY <1>1
  <1> HIDE DEF Step
  <1>3. ValuesStay <=> [][Step]_vars
    BY DEF ValuesStay, Step
  <1> QED
    BY <1>2, <1>3, ColumnsHold, PTL DEF Spec
=============================================================================
