------------------------------ MODULE TableOrder ------------------------------
(***************************************************************************)
(* sortTablesByDependency (internal/diff/table.go; the parser has the same *)
(* function for ToSQL): a depth-first search over the foreign keys, which  *)
(* gives up on a root as soon as it meets a table it is still visiting.    *)
(***************************************************************************)
EXTENDS Naturals, FiniteSets, SequencesExt

\* The two maps, the list, and whether the call returned true.
Marks(deps) ==
  [temp : SUBSET DOMAIN deps, visited : SUBSET DOMAIN deps, sorted : Seq(DOMAIN deps),
   ok : BOOLEAN]
Unmarked == [temp |-> {}, visited |-> {}, sorted |-> <<>>, ok |-> TRUE]

Begun(st, key)  == [st EXCEPT !.temp = @ \cup {key}]
Ended(st, key)  == [st EXCEPT !.temp = @ \ {key}, !.visited = @ \cup {key},
                              !.sorted = Append(@, key)]
GivenUp(st)     == [st EXCEPT !.ok = FALSE]

\* The loop over what a table references; below visits one of them.
VisitAll(list, st, below) ==
  LET after[i \in 0..Len(list)] ==
        IF i = 0 THEN st
        ELSE LET s == after[i-1] IN IF s.ok THEN below[list[i]][s] ELSE s
  IN  after[Len(list)]

VisitKey(key, deps, st, below) ==
  LET all == VisitAll(deps[key], Begun(st, key), below)
  IN  CASE key \in st.temp    -> GivenUp(st)
        [] key \in st.visited \ st.temp -> st
        [] OTHER              -> IF all.ok THEN Ended(all, key) ELSE all

\* visit(key), by the number of keys that it may still begin: at 0 all have begun.
Visit(deps) ==
  LET visit[n \in 0..Cardinality(DOMAIN deps)] ==
        IF n = 0 THEN [key \in DOMAIN deps |-> [st \in Marks(deps) |-> GivenUp(st)]]
        ELSE LET below == visit[n-1] IN
             [key \in DOMAIN deps |-> [st \in Marks(deps) |-> VisitKey(key, deps, st, below)]]
  IN  visit[Cardinality(DOMAIN deps)]

\* The mutant that creates the tables in the order they were read.
TablesAsListed(tables, deps) == tables

sortTablesByDependency(tables, deps) ==
  LET visit == Visit(deps)
      roots[i \in 0..Len(tables)] ==
        IF i = 0 THEN Unmarked
        ELSE LET st == roots[i-1] IN
             IF tables[i] \in st.visited THEN st
             ELSE [visit[tables[i]][st] EXCEPT !.ok = TRUE]
  IN  roots[Len(tables)].sorted
===============================================================================
