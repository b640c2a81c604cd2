------------------------------ MODULE QueryFile ------------------------------
(***************************************************************************)
(* The files of annotated SQL that generate makes functions of             *)
(* (parser/query_parser.go).  A file is its lines, a line one of           *)
(*   NameLine: -- name: GetUser :row       Comment: any other line with -- *)
(*   Sql:      a line of a statement       LongLine: one that bufio.Scanner *)
(*                                         does not fit into its 64 KiB.   *)
(* A name annotation with a result type that does not exist is a comment   *)
(* to the parser.  nest annotations are read and used nowhere: they are    *)
(* comments too.                                                           *)
(***************************************************************************)
EXTENDS Naturals, Sequences, SequencesExt

NameLine(name, result) == [kind |-> "name", name |-> name, result |-> result]
Comment  == [kind |-> "comment"]
LongLine == [kind |-> "long"]
\* starts: the line begins a statement; from, star, cols: the table it selects
\* from, whether all its columns, which of them; computed: columns of its own,
\* each with its name, type and whether it is a json_agg of a table's rows;
\* params: the names after an @, as often as they occur, and their types;
\* isNull: those of them the line compares with IS NULL.
Sql(from, star, cols, computed, params, isNull) ==
  [kind |-> "sql", starts |-> from # "", from |-> from, star |-> star, cols |-> cols,
   computed |-> computed, params |-> params, isNull |-> isNull]
-----------------------------------------------------------------------------
(* parseQueryContent: one pass over the lines, which keeps the query of the *)
(* last annotation and the SQL read since.                                  *)

NoQuery == [kind |-> "none"]
Scanning == [current |-> NoQuery, sql |-> <<>>, queries |-> <<>>, stopped |-> FALSE]

\* The query is kept unless it has no SQL.
Flush(s) ==
  IF s.current = NoQuery \/ s.sql = <<>> THEN s.queries
  ELSE Append(s.queries, [name |-> s.current.name, result |-> s.current.result, sql |-> s.sql])

\* A bug: the SQL of the query before is kept.
OldSql(s) == s.sql

\* sqlBuilder.Reset.
NoSql(s) == <<>>

ScanLine(s, line) ==
  CASE s.stopped -> s
    [] ~s.stopped /\ line.kind = "long" -> [s EXCEPT !.stopped = TRUE]
    [] ~s.stopped /\ line.kind = "name" ->
         [s EXCEPT !.queries = Flush(s), !.current = line, !.sql = NoSql(s)]
    [] ~s.stopped /\ line.kind = "sql" ->
         [s EXCEPT !.sql = IF s.current = NoQuery THEN @ ELSE Append(@, line)]
    [] OTHER -> s

ParseQueryContent(lines) ==
  LET scanned[n \in 0..Len(lines)] ==
        IF n = 0 THEN Scanning ELSE ScanLine(scanned[n - 1], lines[n])
  IN  Flush(scanned[Len(lines)])
-----------------------------------------------------------------------------
(* extractParameters: @names become $1, $2, ... in the order of their first *)
(* occurrence; the names then are the parameters of the function.           *)

Occurrences(sql) == FlattenSeq([i \in DOMAIN sql |-> sql[i].params])

\* The position of a parameter, 0 if it is not there.
PositionOf(params, name) == SelectInSeq(params, LAMBDA p : p.name = name)

AddParameter(params, p) ==
  IF PositionOf(params, p.name) > 0 THEN params ELSE Append(params, p)

Parameters(occurrences) ==
  LET found[n \in 0..Len(occurrences)] ==
        IF n = 0 THEN <<>> ELSE AddParameter(found[n - 1], occurrences[n])
  IN  found[Len(occurrences)]

ExtractParameters(sql) ==
  LET occurrences == Occurrences(sql)
      found       == Parameters(occurrences)
      nullable    == UNION {sql[i].isNull : i \in DOMAIN sql}
  IN  [params    |-> [i \in DOMAIN found |-> [name |-> found[i].name, type |-> found[i].type,
                                              optional |-> found[i].name \in nullable]],
       positions |-> [i \in DOMAIN occurrences |-> PositionOf(found, occurrences[i].name)]]
==============================================================================
