----------------------------- MODULE SchemaEdits -----------------------------
(***************************************************************************)
(* The schemas a schema file may define over the objects of a Catalog, and *)
(* the edits of it that a run considers.                                   *)
(***************************************************************************)
EXTENDS SchemaDiff

CONSTANTS
  Versions,   \* of each object, the definitions a schema file may give it
  Removable,  \* the objects an edit may take out of the schema file
  GrowOnly    \* the objects to which an edit only adds columns or values

ASSUME EditsAssumption ==
  /\ Versions \in [Objects -> SUBSET [Facets -> Nat]]
  /\ Removable \subseteq Objects /\ GrowOnly \subseteq Objects

Definitions == {Absent} \cup UNION {Versions[o] : o \in Objects}

Schemas == {s \in [Objects -> Definitions] :
              \A o \in Objects : /\ s[o] \in Versions[o] \cup {Absent}
                                 /\ Has(s, o) => Ready(s, o)}

Edits(s) ==
  {t \in Schemas : /\ \A o \in Objects \ Removable : Has(s, o) => Has(t, o)
                   /\ \A o \in GrowOnly : Has(t, o) => s[o].main <= t[o].main}

\* loadTables ranges over a Go map: the tables come in any order, the rest as queried.
IsTable(o) == Catalog[o].kind = "table"
Tables     == {o \in Objects : IsTable(o)}
Orders ==
  {[o \in Objects |-> IF IsTable(o) THEN p[o] ELSE o] : p \in Bijection(Tables, Tables)}
-----------------------------------------------------------------------------
(* What the theorems about the diff engine suppose of the objects and of the *)
(* edits.  The README names an instance that shows why, part by part.        *)

\* No two objects have the same key in the maps of Compare.
KeysDistinct ==
  \A x, y \in Objects : Catalog[x].kind = Catalog[y].kind /\ Key(x) = Key(y) => x = y

\* Compare comes to what an object needs before it comes to the object; foreign keys
\* have no cycle.
Place(o) == CHOOSE i \in DOMAIN KindsInUse : KindsInUse[i] = Catalog[o].kind
NeedsComeFirst ==
  /\ \A o \in Objects : \A x \in Needs[o] : Place(x) < Place(o) \/ (IsTable(x) /\ IsTable(o))
  /\ \E rank \in [Tables -> 1..Cardinality(Tables)] :
       \A o \in Tables : \A x \in Needs[o] \cap Tables : rank[x] < rank[o]

\* Nothing needs what is dropped, or dropped and created again.
Recreated(o)   == KindOf(o).alter = "recreate" /\ \E d, e \in Versions[o] : d # e
DropsAreLeaves ==
  \A o \in Objects : o \in Removable \/ Recreated(o) => \A x \in Objects : o \notin Needs[x]

\* An edit of a definition is one that Compare sees and an ALTER writes.
EditsAreSeen ==
  \A o \in Objects : \A d, e \in Versions[o] :
    d # e /\ (o \in GrowOnly => d.main <= e.main) =>
      /\ Differs(o, d, e)
      /\ KindOf(o).alter = "alter" => \A f \in Facets : f \notin KindOf(o).rewrites => d[f] = e[f]

\* PostgreSQL takes the edit: a function keeps its result type, a view its columns, and a
\* table the columns that views and indexes are over.
EditsAreAccepted ==
  \A o \in Objects : \A d, e \in Versions[o] :
    KindOf(o).alter = "replace" /\ (o \in GrowOnly => d.main <= e.main) => Replaceable(o, d, e)
ColumnsStay ==
  \A x \in Objects : IsView(x) \/ Catalog[x].kind = "index" =>
    \A o \in Needs[x] : IsTable(o) =>
      \A d \in Versions[x] : \A e \in Versions[o] : d.rest <= e.main

CreatesWork == \A o \in Objects : KindOf(o).create # "broken"

TidyCatalog ==
  /\ KeysDistinct /\ NeedsComeFirst /\ DropsAreLeaves /\ EditsAreSeen
  /\ EditsAreAccepted /\ ColumnsStay /\ CreatesWork

\* And the way back: the edit undone is accepted too, and nothing is lost by a drop.
DownsAreAccepted ==
  /\ \A o \in Objects : \A d, e \in Versions[o] :
       KindOf(o).alter = "replace" /\ (o \in GrowOnly => d.main <= e.main)
         => Replaceable(o, e, d)
  /\ \A o \in Removable : \A d \in Versions[o] : Restored(o, d) = d
===============================================================================
