----------------------------- MODULE CommandProofs -----------------------------
(***************************************************************************)
(* The chain of migrations that migrate, diff and validate keep, for any   *)
(* catalog and edits that TidyCatalog allows, any server that TidyServer   *)
(* allows, any number of migrations and of kills: what the commands leave, *)
(* half a migration included, can be replayed, rebuilds the schema file it *)
(* was written for to its end, is in sync then, and no script is refused.  *)
(* Last, a single migration and its rollback: the up script reaches the    *)
(* desired schema, the down script of reversible changes comes back (when  *)
(* DownsAreAccepted), and nothing is left to change.  That the scripts do  *)
(* what they are for comes from DiffProofs.                                *)
(***************************************************************************)
EXTENDS MigrateCommand, RoundTrip, DiffProofs

-----------------------------------------------------------------------------
(* What the commands origin from, and the schema file as a script. *)

\* What every reset leaves: the objects that every database of the server has.
Blank == [o \in Objects |-> IF o \in Given THEN Fresh[o] ELSE Absent]

\* The two states that a schema file is run in.
Starts(s) == s \in {Blank, Fresh}

LEMMA ResetBlanks ==
  ASSUME TidyServer, NEW state, \A o \in Given : state[o] = Fresh[o]
  PROVE  Reset(state) = Blank
<1>1. ASSUME NEW o \in Objects
      PROVE  (IF o \in InPublic THEN Absent ELSE state[o]) = (IF o \in Given THEN Fresh[o] ELSE Absent)
  <2>1. o \in InPublic => o \notin Given BY DEF Given
  <2>2. o \notin InPublic => o \in Given BY DEF TidyServer
  <2> QED BY <2>1, <2>2
<1> QED BY <1>1 DEF Reset, Blank

LEMMA BaseIs == ASSUME TidyServer PROVE Base = IF ci THEN Blank ELSE Fresh
<1>1. Reset(FirstDb) = Blank BY ResetBlanks DEF TidyServer
<1> QED BY <1>1 DEF Base

LEMMA Wants == ASSUME NEW s \in Wanted PROVE s \in Schemas /\ \A o \in Given : s[o] = Fresh[o]
BY DEF Wanted

\* What is not there without a schema file is no more than comments.
LEMMA StartsWith ==
  ASSUME TidyServer, NEW s, Starts(s), NEW o \in Objects, Has(s, o), o \notin Given
  PROVE  Catalog[o].kind = "comment" /\ o \in Removable \ GrowOnly
<1>1. s = Fresh
  <2>1. s = Blank => ~Has(s, o) BY DEF Blank, Has
  <2> QED BY <2>1 DEF Starts
<1> QED BY <1>1 DEF TidyServer

LEMMA StartIsWanted ==
  ASSUME TidyCatalog, TidyServer, NEW s, Starts(s) PROVE s \in Wanted
<1>1. Fresh \in Wanted BY DEF TidyServer, Wanted
<1>2. Blank \in Wanted
  <2>1. Fresh \in [Objects -> Definitions] /\ Absent \in Definitions
    BY DEF TidyServer, Schemas, Definitions
  <2>2. Blank \in [Objects -> Definitions] BY <2>1 DEF Blank
  <2>3. ASSUME NEW o \in Objects PROVE Blank[o] \in Versions[o] \cup {Absent}
    BY DEF Blank, TidyServer, Schemas
  <2>4. ASSUME NEW o \in Objects, Has(Blank, o), NEW x \in Needs[o] PROVE Has(Blank, x)
    <3>1. x \in Objects BY CatalogAssumption
    <3>2. o \in Given /\ Has(Fresh, o) BY <2>4 DEF Blank, Has
    <3>3. Has(Fresh, x) BY <3>1, <3>2 DEF TidyServer, Schemas, Ready
    <3>4. x \in Given
      <4>1. SUFFICES ASSUME x \notin Given PROVE FALSE OBVIOUS
      <4>2. x \in Removable BY <3>1, <3>3, <4>1 DEF TidyServer
      <4> QED BY <3>1, <4>2 DEF TidyCatalog, DropsAreLeaves
    <3> QED BY <3>1, <3>3, <3>4 DEF Blank, Has
  <2>5. Blank \in Schemas BY <2>2, <2>3, <2>4 DEF Schemas, Ready
  <2>6. \A o \in Given : o \in Objects BY DEF Given
  <2> QED BY <2>5, <2>6 DEF Wanted, Blank
<1> QED BY <1>1, <1>2 DEF Starts

\* The schema file's objects over what a database has at first.
Over(origin, s) == [x \in Objects |-> IF Has(s, x) THEN s[x] ELSE origin[x]]

LEMMA OverIsWanted ==
  ASSUME NEW origin \in Wanted, NEW s \in Wanted PROVE Over(origin, s) \in Wanted
<1>1. origin \in Schemas /\ s \in Schemas BY Wants
<1>2. PICK t : t = Over(origin, s) OBVIOUS
<1>3. t \in [Objects -> Definitions] BY <1>1, <1>2 DEF Over, Schemas
<1>4. \A o \in Objects : t[o] \in Versions[o] \cup {Absent} BY <1>1, <1>2 DEF Over, Schemas
<1>5. ASSUME NEW o \in Objects, Has(t, o), NEW x \in Needs[o] PROVE Has(t, x)
  <2>1. x \in Objects BY CatalogAssumption
  <2>2. Has(s, o) \/ Has(origin, o) BY <1>2, <1>5 DEF Over, Has
  <2>3. Has(s, x) \/ Has(origin, x) BY <1>1, <2>1, <2>2 DEF Schemas, Ready
  <2> QED BY <1>2, <2>1, <2>3 DEF Over, Has
<1>6. t \in Schemas BY <1>3, <1>4, <1>5 DEF Schemas, Ready
<1>7. ASSUME NEW o \in Given PROVE t[o] = Fresh[o]
  <2>1. o \in Objects BY DEF Given
  <2> QED BY <1>2, <2>1, Wants DEF Over
<1> QED BY <1>2, <1>6, <1>7 DEF Wanted

\* The form of the statement that creates an object.
LEMMA PlainForms ==
  ASSUME NEW o \in Objects
  PROVE  \/ Plainly(o) = "create" /\ Catalog[o].kind # "comment"
         \/ Plainly(o) = "ensure" /\ Catalog[o].kind # "comment"
         \/ Plainly(o) = "replace" /\ Catalog[o].kind = "comment"
<1>1. CASE Catalog[o].kind = "comment"
  <2>1. KindOf(o) = CommentKind BY <1>1 DEF KindOf, Kinds
  <2> QED BY <1>1, <2>1 DEF Plainly, CommentKind, Tolerant, Replaced, Compared, BySignature, Kind
<1>2. CASE Catalog[o].kind = "grant"
  <2>1. KindOf(o) = RoleGrantKind BY <1>2 DEF KindOf, Kinds
  <2> QED BY <1>2, <2>1 DEF Plainly, RoleGrantKind, Tolerant, BySignature, Kind
<1>3. CASE Catalog[o].kind = "defaultPrivilege"
  <2>1. KindOf(o) = DefaultPrivilegeKind BY <1>3 DEF KindOf, Kinds
  <2> QED BY <1>3, <2>1 DEF Plainly, DefaultPrivilegeKind, Tolerant, BySignature, Kind
<1>4. CASE Catalog[o].kind \notin {"comment", "grant", "defaultPrivilege"} BY <1>4 DEF Plainly
<1> QED BY <1>1, <1>2, <1>3, <1>4

\* The statement of the schema file for the next object is accepted and defines it.
LEMMA OneMoreObject ==
  ASSUME TidyCatalog, TidyServer, NEW s \in Wanted, NEW origin, Starts(origin), NEW o \in Objects,
         NEW base, base = [x \in Objects |-> IF x < o /\ Has(s, x) THEN s[x] ELSE origin[x]],
         NEW st, st = IF Has(s, o) /\ o \notin Given THEN Statement(Plainly(o), o, s[o])
                      ELSE Statement("remark", o, Absent)
  PROVE  /\ Accepts(base, st)
         /\ Effect(base, st) = [x \in Objects |-> IF x <= o /\ Has(s, x) THEN s[x] ELSE origin[x]]
<1>1. PICK n \in Nat : Objects = 1..n BY ObjectsAreNumbered
<1>2. PICK next : next = [x \in Objects |-> IF x <= o /\ Has(s, x) THEN s[x] ELSE origin[x]] OBVIOUS
<1>3. s \in Schemas /\ origin \in Schemas /\ \A x \in Given : s[x] = origin[x]
  BY Wants, StartIsWanted
<1>4. base[o] = origin[o] BY <1>1
<1>5. CASE Has(s, o) /\ o \notin Given
  <2>1. st.op = Plainly(o) /\ st.obj = o /\ st.def = s[o] BY <1>5 DEF Statement
  <2>2. Catalog[o].kind # "comment" => ~Has(base, o) BY <1>4, <1>5, StartsWith DEF Has
  <2>3. Ready(base, o)
    <3>1. SUFFICES ASSUME NEW x \in Needs[o] PROVE Has(base, x) BY DEF Ready
    <3>2. x \in Objects /\ x < o BY CatalogAssumption, CommandAssumption
    <3>3. Has(s, x) BY <1>3, <1>5 DEF Schemas, Ready
    <3> QED BY <3>2, <3>3 DEF Has
  <2>4. Shows(base, o, s[o])
    <3>1. Fitting(base) BY <1>3 DEF Fitting, Schemas
    <3>2. PICK def : def = s[o] OBVIOUS
    <3>3. def \in Versions[o] BY <1>3, <1>5, <3>2 DEF Schemas, Has
    <3>4. ColumnsStay BY DEF TidyCatalog
    <3> QED BY <2>3, <3>1, <3>2, <3>3, <3>4, ColumnsAreThere
  <2>5. [base EXCEPT ![o] = s[o]] = next
    <3>1. \A x \in Objects : /\ o <= o
                             /\ x # o => (x <= o <=> x < o)
      BY <1>1
    <3>2. \A x \in Objects : [base EXCEPT ![o] = s[o]][x] = next[x]
      <4>1. SUFFICES ASSUME NEW x \in Objects PROVE [base EXCEPT ![o] = s[o]][x] = next[x] OBVIOUS
      <4>2. CASE x = o BY <1>2, <1>5, <3>1, <4>2
      <4>3. CASE x # o
        <5>1. base[x] = next[x] BY <1>2, <3>1, <4>3
        <5> QED BY <4>3, <5>1
      <4> QED BY <4>2, <4>3
    <3> QED BY <1>2, <3>2
  <2>6. CASE Plainly(o) = "create" /\ Catalog[o].kind # "comment"
    <3>1. Accepts(base, st) BY <2>1, <2>2, <2>3, <2>4, <2>6 DEF Accepts
    <3>2. Effect(base, st) = [base EXCEPT ![o] = s[o]] BY <2>1, <2>6 DEF Effect
    <3> QED BY <1>2, <2>5, <3>1, <3>2
  <2>7. CASE Plainly(o) = "ensure" /\ Catalog[o].kind # "comment"
    <3>1. Accepts(base, st) BY <2>1, <2>2, <2>3, <2>7 DEF Accepts
    <3>2. Effect(base, st) = [base EXCEPT ![o] = s[o]] BY <2>1, <2>2, <2>7 DEF Effect
    <3> QED BY <1>2, <2>5, <3>1, <3>2
  <2>8. CASE Plainly(o) = "replace" /\ Catalog[o].kind = "comment"
    <3>0. Replaceable(o, base[o], s[o]) BY <2>8 DEF Replaceable
    <3>1. Accepts(base, st) BY <2>1, <2>3, <2>4, <2>8, <3>0 DEF Accepts
    <3>2. Effect(base, st) = [base EXCEPT ![o] = s[o]] BY <2>1, <2>8 DEF Effect
    <3> QED BY <1>2, <2>5, <3>1, <3>2
  <2> QED BY <2>6, <2>7, <2>8, PlainForms
<1>6. CASE ~(Has(s, o) /\ o \notin Given)
  <2>1. st.op = "remark" BY <1>6 DEF Statement
  <2>2. Accepts(base, st) /\ Effect(base, st) = base BY <2>1 DEF Accepts, Effect
  <2>3. Has(s, o) => s[o] = origin[o] BY <1>3, <1>6
  <2>4. base = next BY <1>1, <1>2, <2>3
  <2> QED BY <1>2, <2>2, <2>4
<1> QED BY <1>5, <1>6

\* The schema file runs, in a database just created and in one that was reset.
LEMMA SchemaFileRuns ==
  ASSUME TidyCatalog, TidyServer, schema \in Wanted, NEW origin, Starts(origin)
  PROVE  Run(origin, SchemaFile) = [ok |-> TRUE, db |-> Over(origin, schema)]
<1>1. PICK n \in Nat : Objects = 1..n BY ObjectsAreNumbered
<1> DEFINE After(i) == [x \in Objects |-> IF x <= i /\ Has(schema, x) THEN schema[x] ELSE origin[x]]
<1>2. Len(SchemaFile) = n BY <1>1 DEF SchemaFile
<1>0. PICK f : Ran(f, origin, SchemaFile, n) /\ Run(origin, SchemaFile) = f[n]
  BY <1>2, RunFrom
<1>3. /\ f[0] = [ok |-> TRUE, db |-> origin]
      /\ \A i \in 0..(n - 1) : f[i + 1] =
           IF f[i].ok /\ Accepts(f[i].db, SchemaFile[i + 1])
           THEN [ok |-> TRUE, db |-> Effect(f[i].db, SchemaFile[i + 1])]
           ELSE [ok |-> FALSE, db |-> origin]
  BY <1>0 DEF Ran
<1>4. PICK T : T = {i \in 0..n : f[i] = [ok |-> TRUE, db |-> After(i)]} OBVIOUS
<1>5. 0 \in T
  <2>1. origin \in [Objects -> Definitions] BY StartIsWanted DEF Wanted, Schemas
  <2>2. origin = After(0) BY <1>1, <2>1
  <2> QED BY <1>3, <1>4, <2>2
<1>6. ASSUME NEW i \in 0..n, i < n, i \in T PROVE i + 1 \in T
  <2>1. i + 1 \in Objects /\ i \in 0..(n - 1) BY <1>1, <1>6
  <2>2. PICK base : base = [x \in Objects |->
                             IF x < i + 1 /\ Has(schema, x) THEN schema[x] ELSE origin[x]]
    OBVIOUS
  <2>3. base = After(i) BY <1>1, <2>1, <2>2
  <2>4. PICK st : st = SchemaFile[i + 1] OBVIOUS
  <2>5. st = IF Has(schema, i + 1) /\ i + 1 \notin Given
             THEN Statement(Plainly(i + 1), i + 1, schema[i + 1])
             ELSE Statement("remark", i + 1, Absent)
    BY <2>1, <2>4 DEF SchemaFile
  <2>6. Accepts(base, st) /\ Effect(base, st) = After(i + 1)
    BY <2>1, <2>2, <2>5, OneMoreObject
  <2>7. f[i] = [ok |-> TRUE, db |-> base] BY <1>4, <1>6, <2>3
  <2>8. f[i + 1] = [ok |-> TRUE, db |-> After(i + 1)] BY <1>3, <2>1, <2>4, <2>6, <2>7
  <2> QED BY <1>4, <1>6, <2>8
<1>7. n \in T
  <2>1. 0..n \subseteq T BY <1>5, <1>6, Induction, Zenon
  <2> QED BY <2>1
<1>8. After(n) = Over(origin, schema) BY <1>1 DEF Over
<1> QED BY <1>0, <1>4, <1>7, <1>8

\* After a reset, it makes what it defines.
LEMMA OverBlank == ASSUME NEW s \in Wanted PROVE Over(Blank, s) = s
<1>1. s \in [Objects -> Definitions] BY DEF Wanted, Schemas
<1>2. \A o \in Objects : ~Has(s, o) => Blank[o] = s[o]
  <2>1. \A o \in Given : s[o] = Fresh[o] BY DEF Wanted
  <2> QED BY <2>1 DEF Blank, Has
<1> QED BY <1>1, <1>2 DEF Over

-----------------------------------------------------------------------------
\* The containers: one for the command that runs without DATABASE_URL, one for each of
\* those that were killed.
CountInv ==
  /\ ci \in BOOLEAN /\ kills \in Nat /\ pc \in Steps
  /\ containers = IF ci THEN 0 ELSE IF pc \in {"idle", "connect"} THEN kills ELSE kills + 1

LEMMA CountNext == CountInv /\ [Next]_vars => CountInv'
<1> SUFFICES ASSUME CountInv, [Next]_vars PROVE CountInv' OBVIOUS
<1> USE DEF CountInv, Steps
<1>1. CASE EditSchema BY <1>1 DEF EditSchema
<1>2. CASE MoveDowns BY <1>2 DEF MoveDowns
<1>3. ASSUME NEW c \in Commands, Invoke(c) PROVE CountInv' BY <1>3 DEF Invoke
<1>4. CASE StartPostgres BY <1>4 DEF StartPostgres
<1>5. CASE ReadDir BY <1>5 DEF ReadDir
<1>6. CASE ReplayScript BY <1>6 DEF ReplayScript, Execute
<1>7. CASE ReadCurrent BY <1>7 DEF ReadCurrent
<1>8. CASE ResetDatabase BY <1>8 DEF ResetDatabase
<1>9. CASE ApplySchema BY <1>9 DEF ApplySchema, Execute
<1>10. CASE Introspect BY <1>10 DEF Introspect
<1>11. CASE CompareSchemas BY <1>11 DEF CompareSchemas
<1>12. CASE MakeDirectory \/ CreateUpFile \/ CreateDownFile \/ UpdateSum
  BY <1>12 DEF MakeDirectory, CreateUpFile, CreateDownFile, UpdateSum
<1>13. CASE WriteUp BY <1>13 DEF WriteUp
<1>14. CASE WriteDown BY <1>14 DEF WriteDown
<1>15. CASE StopContainer BY <1>15 DEF StopContainer, Ends
<1>16. CASE WaitFails BY <1>16 DEF WaitFails, Ends
<1>17. CASE StepFails BY <1>17 DEF StepFails
<1>18. CASE Kill BY <1>18 DEF Kill, Ends
<1>19. CASE UNCHANGED vars BY <1>19 DEF vars
<1> QED BY <1>1, <1>2, <1>3, <1>4, <1>5, <1>6, <1>7, <1>8, <1>9, <1>10, <1>11, <1>12, <1>13,
           <1>14, <1>15, <1>16, <1>17, <1>18, <1>19 DEF Next

(* Only a killed command leaves its container behind (docker.go StartPostgres, *)
(* StopContainer).                                                             *)
THEOREM ContainersAreStopped == Spec => []ContainersStopped
<1>1. Init => CountInv BY CommandAssumption DEF Init, CountInv, Steps
<1>2. CountInv => ContainersStopped BY DEF CountInv, ContainersStopped
<1> QED BY <1>1, <1>2, CountNext, PTL DEF Spec
-----------------------------------------------------------------------------
(* The chain of the migrations.  The k-th of them, as far as it was written, *)
(* leads from reached[k-1] to reached[k].                                     *)
Count == Len(files)

FileFields == {"up", "down", "kept", "whole", "goal"}

Chain(reached) ==
  /\ \E S : files \in Seq(S)
  /\ reached \in [0..Count -> Wanted] /\ reached[0] = Base
  /\ \A k \in 1..Count :
       /\ DOMAIN files[k] = FileFields /\ files[k].up \in Seq(Statements)
       /\ Run(reached[k-1], files[k].up) = [ok |-> TRUE, db |-> reached[k]]
       /\ files[k].whole => reached[k] = files[k].goal
  /\ schema \in Wanted /\ schema \in Edits(reached[Count])
  /\ made

\* The first k migrations have been replayed, the scripts of the others are still to run.
Replayed(reached, k) ==
  /\ db = reached[k]
  /\ \E S : todo \in Seq(S)
  /\ Len(todo) = Count - k
  /\ \A i \in 1..Len(todo) : todo[i] = files[k + i].up

\* The up file has the statements of the first changes, and more are to come.
Writing(reached) ==
  /\ Count # 0 /\ current = reached[Count - 1] /\ schema \in Edits(current)
  /\ \E list : /\ Covers(current, schema, list, Changed(current, schema), {})
               /\ found = ChangesOf(current, schema, list)
               /\ wrote \in 0..(Len(list) - 1)
               /\ reached[Count] = Midway(current, schema, list, wrote)

StepInv(reached) ==
  /\ cmd \in Commands \cup {"none"} /\ pc \in Steps
  /\ pc # "idle" => cmd \in Commands
  /\ db \in Wanted \cup {FirstDb} /\ current \in Schemas
  /\ pc \in {"connect", "readDir"} => \A k \in 1..Count : ~files[k].kept
  /\ pc = "readDir" \/ (pc = "applySchema" /\ cmd = "validate") => db = Base
  /\ pc \in {"readDir", "replay", "reset", "compare"} => cmd # "validate"
  /\ pc \in {"makeDir", "createUp"} => cmd = "migrate"
  /\ pc = "replay" => \E k \in 0..Count : Replayed(reached, k)
  /\ pc \in {"reset", "applySchema", "compare", "makeDir", "createUp"} /\ cmd # "validate" =>
       current = reached[Count]
  /\ pc = "applySchema" /\ cmd # "validate" => db = Blank
  /\ pc = "compare" => db = schema
  /\ pc \in {"makeDir", "createUp"} =>
       found # <<>> /\ \E order \in Orders : found = Compare(current, schema, order)
  /\ pc = "writeUp" => Writing(reached)
  /\ pc \in {"createDown", "writeDown"} => wrote \in 1..Len(found)
  /\ pc = "stop" /\ result = "reported" => schema # reached[Count]
  /\ result # "refused"

At(reached) == Chain(reached) /\ StepInv(reached)
HistoryInv  == \E reached : At(reached)

LEMMA EmptyIsSchema == EmptySchema \in Schemas
<1>1. \A o \in Objects : EmptySchema[o] = Absent BY DEF EmptySchema
<1>2. Absent \in Definitions BY DEF Definitions
<1>3. EmptySchema \in [Objects -> Definitions] BY <1>2 DEF EmptySchema
<1> QED BY <1>1, <1>3 DEF Schemas, Has

\* The migrations are numbered, and each leads to a schema within reach of a schema file.
LEMMA ChainCounts ==
  ASSUME NEW reached, Chain(reached)
  PROVE  /\ Count \in Nat /\ DOMAIN files = 1..Count /\ (Count = 0 <=> files = <<>>)
         /\ \A k \in 0..Count : reached[k] \in Wanted /\ reached[k] \in Schemas
<1>1. Count \in Nat /\ DOMAIN files = 1..Count /\ (Count = 0 <=> files = <<>>)
  BY DEF Chain, Count
<1>2. \A k \in 0..Count : reached[k] \in Wanted BY DEF Chain
<1> QED BY <1>1, <1>2, Wants

\* Every schema file may be the first one, over what a new database has.
LEMMA FirstSchema ==
  ASSUME TidyCatalog, TidyServer, NEW t \in Wanted PROVE Base \in Wanted /\ t \in Edits(Base)
<1>1. Starts(Base) BY BaseIs DEF Starts
<1>2. PICK s : s = Base OBVIOUS
<1>3. s \in Wanted /\ s \in Schemas /\ t \in Schemas /\ \A o \in Given : s[o] = t[o]
  BY <1>1, <1>2, StartIsWanted, Wants
<1>4. ASSUME NEW o \in Objects \ Removable, Has(s, o) PROVE Has(t, o)
  <2>1. o \in Given BY <1>1, <1>2, <1>4, StartsWith
  <2> QED BY <1>3, <1>4, <2>1 DEF Has
<1>5. ASSUME NEW o \in GrowOnly PROVE s[o].main <= t[o].main
  <2>1. o \in Objects BY EditsAssumption
  <2>2. s[o].main \in Nat /\ t[o].main \in Nat
    <3>1. s[o] \in [Facets -> Nat] /\ t[o] \in [Facets -> Nat] BY <1>3, <2>1, AbsentOrDefined
    <3> QED BY <3>1 DEF Facets
  <2>3. CASE o \in Given BY <1>3, <2>2, <2>3
  <2>4. CASE o \notin Given
    <3>1. ~Has(s, o) BY <1>1, <1>2, <2>1, <2>4, <1>5, StartsWith
    <3>2. s[o].main = 0 BY <3>1 DEF Has, Absent
    <3> QED BY <2>2, <3>2
  <2> QED BY <2>3, <2>4
<1>6. t \in Edits(s) BY <1>3, <1>4, <1>5 DEF Edits
<1> QED BY <1>2, <1>3, <1>6

\* Midway in a migration, the database is a schema, and the schema file one of its edits.
LEMMA MidwayIsSchema ==
  ASSUME TidyCatalog, NEW s \in Wanted, NEW t \in Edits(s), t \in Wanted, NEW list,
         Covers(s, t, list, Changed(s, t), {}), NEW i \in 0..Len(list),
         NEW d, d = Midway(s, t, list, i)
  PROVE  d \in Wanted /\ t \in Edits(d)
<1>1. s \in Schemas /\ t \in Schemas /\ \A o \in Given : s[o] = Fresh[o] /\ t[o] = Fresh[o]
  BY Wants
<1>2. PICK n \in Nat : n = Len(list) BY DEF Covers
<1>3. ASSUME NEW o \in Objects PROVE d[o] = s[o] \/ d[o] = t[o] BY DEF Midway
<1>4. d \in [Objects -> Definitions]
  <2>1. \A o \in Objects : s[o] \in Definitions /\ t[o] \in Definitions BY <1>1 DEF Schemas
  <2> QED BY <2>1 DEF Midway
<1>5. \A o \in Objects : d[o] \in Versions[o] \cup {Absent} BY <1>1, <1>3 DEF Schemas
<1>6. ASSUME NEW y \in Objects, Has(d, y), NEW x \in Needs[y] PROVE Has(d, x)
  <2>1. x \in Objects BY CatalogAssumption
  <2>2. Has(s, x) => Has(t, x)
    <3>1. x \notin Removable BY <1>6, <2>1 DEF TidyCatalog, DropsAreLeaves
    <3> QED BY <2>1, <3>1 DEF Edits
  <2>3. Has(s, x) => Has(d, x) BY <1>3, <2>1, <2>2 DEF Has
  <2>4. CASE \E j \in 1..i : list[j] = y
    <3>1. PICK j \in 1..i : list[j] = y BY <2>4
    <3>2. d[y] = t[y] /\ j \in 1..n BY <1>2, <3>1 DEF Midway
    <3>3. Has(t, y) BY <1>6, <3>2 DEF Has
    <3>4. Has(t, x) BY <1>1, <3>3, <1>6 DEF Schemas, Ready
    <3>5. Has(s, x) \/ \E k \in 1..(j - 1) : list[k] = x
      BY <1>2, <1>6, <3>1, <3>2, <3>3 DEF Covers
    <3>6. ASSUME NEW k \in 1..(j - 1), list[k] = x PROVE Has(d, x)
      <4>1. k \in 1..i BY <1>2, <3>1
      <4>2. d[x] = t[x] BY <2>1, <3>6, <4>1 DEF Midway
      <4> QED BY <3>4, <4>2 DEF Has
    <3> QED BY <2>3, <3>5, <3>6
  <2>5. CASE ~(\E j \in 1..i : list[j] = y)
    <3>1. d[y] = s[y] BY <2>5 DEF Midway
    <3>2. Has(s, x) BY <1>1, <1>6, <3>1 DEF Schemas, Ready, Has
    <3> QED BY <2>3, <3>2
  <2> QED BY <2>4, <2>5
<1>7. d \in Schemas BY <1>4, <1>5, <1>6 DEF Schemas, Ready
<1>8. d \in Wanted
  <2>1. \A o \in Given : o \in Objects BY DEF Given
  <2> QED BY <1>1, <1>3, <1>7, <2>1 DEF Wanted
<1>9. ASSUME NEW o \in Objects \ Removable, Has(d, o) PROVE Has(t, o)
  <2>1. CASE d[o] = t[o] BY <1>9, <2>1 DEF Has
  <2>2. CASE d[o] = s[o] BY <1>9, <2>2 DEF Has, Edits
  <2> QED BY <1>3, <2>1, <2>2
<1>10. ASSUME NEW o \in GrowOnly, Has(t, o) PROVE d[o].main <= t[o].main
  <2>1. o \in Objects BY EditsAssumption
  <2>2. t[o] \in [Facets -> Nat] BY <1>1, <2>1, AbsentOrDefined
  <2>3. t[o].main \in Nat BY <2>2 DEF Facets
  <2>4. CASE d[o] = t[o] BY <2>3, <2>4
  <2>5. CASE d[o] = s[o] BY <1>10, <2>5 DEF Edits
  <2> QED BY <1>3, <2>1, <2>4, <2>5
<1>11. t \in Edits(d) BY <1>1, <1>9, <1>10 DEF Edits
<1> QED BY <1>8, <1>11

\* Without down files, what is replayed is the up scripts, one after the other.
LEMMA OnlyUps ==
  ASSUME NEW S, NEW all \in Seq(S), \A k \in 1..Len(all) : ~all[k].kept
  PROVE  /\ \E T : Replay(all) \in Seq(T)
         /\ Len(Replay(all)) = Len(all)
         /\ \A k \in 1..Len(all) : Replay(all)[k] = all[k].up
<1>0. DOMAIN all = 1..Len(all) OBVIOUS
<1>1. PICK xs : xs = [i \in DOMAIN all |-> all[i].up] OBVIOUS
<1>2. PICK T : T = {all[i].up : i \in DOMAIN all} OBVIOUS
<1>3. xs \in Seq(T) /\ DOMAIN xs = DOMAIN all BY <1>1, <1>2
<1>4. [i \in DOMAIN all |-> ScriptsOf(all[i])] = [i \in DOMAIN xs |-> <<xs[i]>>]
  <2>1. \A i \in DOMAIN all : ScriptsOf(all[i]) = <<xs[i]>> BY <1>0, <1>1 DEF ScriptsOf
  <2> QED BY <1>3, <2>1
<1>5. Replay(all) = xs BY <1>3, <1>4, FlattenSingles DEF Replay
<1>6. Len(xs) = Len(all) BY <1>0, <1>3
<1> QED BY <1>0, <1>1, <1>3, <1>5, <1>6

\* What Rebuilt makes of the first migrations, one more each time.
LEMMA RebuiltFrom ==
  ASSUME NEW all, NEW n \in Nat, Len(all) = n
  PROVE  \E f : /\ f[0] = [ok |-> TRUE, db |-> Base]
                /\ \A i \in 0..(n - 1) :
                     f[i + 1] = IF f[i].ok THEN Run(f[i].db, all[i + 1].up) ELSE f[i]
                /\ Rebuilt(all) = f[n]
<1> DEFINE Step(r, m) == IF r.ok THEN Run(r.db, m.up) ELSE r
           Upto(m, f) == f = [i \in 0..m |-> IF i = 0 THEN [ok |-> TRUE, db |-> Base]
                                             ELSE Step(f[i-1], all[i])]
<1>0. PICK T : T = {m \in 0..n : \E f : Upto(m, f)} OBVIOUS
<1>h. PICK h : h = CHOOSE f : Upto(n, f) OBVIOUS
<1>6. Rebuilt(all) = h[n] BY <1>h, Zenon DEF Rebuilt
<1> HIDE DEF Step
<1>1. 0 \in T
  <2>1. PICK f : f = [i \in 0..0 |-> [ok |-> TRUE, db |-> Base]] OBVIOUS
  <2>2. Upto(0, f) BY <2>1
  <2> QED BY <2>2, <1>0
<1>2. ASSUME NEW m \in 0..n, m < n, m \in T PROVE m + 1 \in T
  <2>1. PICK f : Upto(m, f) BY <1>0, <1>2
  <2>2. PICK g : g = [i \in 0..(m + 1) |-> IF i = 0 THEN [ok |-> TRUE, db |-> Base]
                                           ELSE Step(f[i-1], all[i])] OBVIOUS
  <2>3. \A i \in 0..m : f[i] = IF i = 0 THEN [ok |-> TRUE, db |-> Base]
                               ELSE Step(f[i-1], all[i]) BY <2>1
  <2>4. \A i \in 0..m : i \in 0..(m + 1) OBVIOUS
  <2>5. \A i \in 0..m : g[i] = f[i] BY <2>2, <2>3, <2>4
  <2>6. \A i \in 0..(m + 1) : i # 0 => i - 1 \in 0..m OBVIOUS
  <2>7. Upto(m + 1, g) BY <2>2, <2>5, <2>6
  <2>8. m + 1 \in 0..n BY <1>2
  <2> QED BY <1>0, <2>7, <2>8
<1>3. n \in T
  <2>1. \A m \in 0..n : m < n /\ m \in T => m + 1 \in T BY <1>2
  <2>2. 0..n \subseteq T BY <1>1, <2>1, Induction, Zenon
  <2> QED BY <2>2
<1>4. Upto(n, h) BY <1>0, <1>3, <1>h
<1>5. \A i \in 0..n : h[i] = IF i = 0 THEN [ok |-> TRUE, db |-> Base]
                             ELSE Step(h[i-1], all[i]) BY <1>4
<1>a. 0 \in 0..n OBVIOUS
<1>7. h[0] = [ok |-> TRUE, db |-> Base] BY <1>5, <1>a
<1>8. ASSUME NEW i \in 0..(n - 1) PROVE h[i + 1] = Step(h[i], all[i + 1])
  <2>1. i + 1 \in 0..n /\ i + 1 # 0 /\ (i + 1) - 1 = i OBVIOUS
  <2> QED BY <1>5, <2>1
<1> QED BY <1>6, <1>7, <1>8 DEF Step

LEMMA HistoryRebuilds ==
  ASSUME NEW reached, Chain(reached)
  PROVE  Rebuilt(files) = [ok |-> TRUE, db |-> reached[Count]]
<1>1. PICK n \in Nat : n = Count /\ n = Len(files) BY ChainCounts DEF Count
<1>2. PICK f : /\ f[0] = [ok |-> TRUE, db |-> Base]
               /\ \A i \in 0..(n - 1) :
                    f[i + 1] = IF f[i].ok THEN Run(f[i].db, files[i + 1].up) ELSE f[i]
               /\ Rebuilt(files) = f[n]
  BY <1>1, RebuiltFrom
<1>3. PICK T : T = {i \in 0..n : f[i] = [ok |-> TRUE, db |-> reached[i]]} OBVIOUS
<1>4. 0 \in T
  <2>1. reached[0] = Base BY DEF Chain
  <2>2. f[0] = [ok |-> TRUE, db |-> reached[0]] /\ 0 \in 0..n BY <1>2, <2>1
  <2> QED BY <1>3, <2>2
<1>5. ASSUME NEW i \in 0..n, i < n, i \in T PROVE i + 1 \in T
  <2>1. i \in 0..(n - 1) /\ i + 1 \in 1..n /\ (i + 1) - 1 = i BY <1>5
  <2>2. f[i] = [ok |-> TRUE, db |-> reached[i]] BY <1>3, <1>5
  <2>3. f[i + 1] = Run(reached[i], files[i + 1].up) BY <1>2, <2>1, <2>2
  <2>4. Run(reached[(i + 1) - 1], files[i + 1].up) = [ok |-> TRUE, db |-> reached[i + 1]]
    BY <1>1, <2>1 DEF Chain
  <2>5. f[i + 1] = [ok |-> TRUE, db |-> reached[i + 1]] BY <2>1, <2>3, <2>4
  <2> QED BY <1>3, <2>1, <2>5
<1>6. n \in T
  <2>1. \A i \in 0..n : i < n /\ i \in T => i + 1 \in T BY <1>5
  <2>2. 0..n \subseteq T BY <1>4, <2>1, Induction, Zenon
  <2> QED BY <2>2
<1> QED BY <1>1, <1>2, <1>3, <1>6

-----------------------------------------------------------------------------
(* Step by step. *)

LEMMA InitHistory ==
  ASSUME TidyCatalog, TidyServer PROVE Init => HistoryInv
<1> SUFFICES ASSUME Init PROVE HistoryInv OBVIOUS
<1>1. files = <<>> /\ schema \in Wanted /\ made BY DEF Init, TidyServer
<1>2. files \in Seq({}) /\ Count = 0 BY <1>1 DEF Count
<1>3. PICK reached : reached = [k \in 0..0 |-> Base] OBVIOUS
<1>4. Base \in Wanted /\ schema \in Edits(Base) BY <1>1, FirstSchema
<1>5. reached \in [0..0 -> Wanted] /\ reached[0] = Base BY <1>3, <1>4
<1>6. \A k \in 1..0 : FALSE OBVIOUS
<1>7. Chain(reached) BY <1>1, <1>2, <1>4, <1>5, <1>6 DEF Chain
<1>8. StepInv(reached) BY EmptyIsSchema DEF Init, StepInv, Commands, Steps
<1> QED BY <1>7, <1>8 DEF HistoryInv, At

\* Where no migration is written, nothing that Chain says of them changes.
LEMMA ChainKept ==
  ASSUME NEW reached, Chain(reached), UNCHANGED <<ci, schema, files>>, made' = made
  PROVE  Chain(reached)' /\ Count' = Count
BY DEF Chain, Count, Base

LEMMA Edited ==
  ASSUME NEW reached, At(reached), EditSchema PROVE At(reached)'
<1>1. Chain(reached) /\ StepInv(reached) BY DEF At
<1>2. schema' \in Edits(reached[Count]) /\ schema' \in Wanted
  BY <1>1, HistoryRebuilds DEF EditSchema
<1>3. UNCHANGED <<files, made, ci>> /\ Count' = Count BY DEF EditSchema, Count
<1>4. Chain(reached)' BY <1>1, <1>2, <1>3 DEF Chain, Base
<1>5. StepInv(reached)' BY <1>1, <1>3 DEF StepInv, EditSchema
<1> QED BY <1>4, <1>5 DEF At

LEMMA MovedFile ==
  ASSUME NEW m, DOMAIN m = FileFields, NEW w, w = [m EXCEPT !.kept = FALSE, !.down = <<>>]
  PROVE  DOMAIN w = DOMAIN m /\ w.up = m.up /\ w.goal = m.goal /\ w.whole = m.whole
BY DEF FileFields

LEMMA Moved ==
  ASSUME NEW reached, At(reached), MoveDowns PROVE At(reached)'
<1>0. Chain(reached) /\ StepInv(reached) BY DEF At
<1>1. PICK n \in Nat : n = Count /\ DOMAIN files = 1..n BY <1>0, ChainCounts
<1>2. files' = [i \in 1..n |-> [files[i] EXCEPT !.kept = FALSE, !.down = <<>>]]
  BY <1>1 DEF MoveDowns
<1>3. PICK T : T = {files'[i] : i \in 1..n} OBVIOUS
<1>4. files' \in Seq(T) /\ Len(files') = n
  <2>1. PICK new : new = files' OBVIOUS
  <2>2. DOMAIN new = 1..n /\ new = [i \in 1..n |-> new[i]] BY <1>2, <2>1
  <2>3. T = {new[i] : i \in 1..n} BY <1>3, <2>1
  <2>4. new \in [1..n -> T] BY <2>2, <2>3
  <2>5. new \in Seq(T) /\ Len(new) = n BY <2>4, FunctionIsList
  <2> QED BY <2>1, <2>5
<1>5. \A k \in 1..n : /\ DOMAIN files'[k] = FileFields /\ files'[k].up = files[k].up
                      /\ files'[k].goal = files[k].goal /\ files'[k].whole = files[k].whole
  <2>1. \A k \in 1..n : DOMAIN files[k] = FileFields BY <1>0, <1>1 DEF Chain
  <2>2. SUFFICES ASSUME NEW k \in 1..n
                 PROVE  /\ DOMAIN files'[k] = FileFields /\ files'[k].up = files[k].up
                        /\ files'[k].goal = files[k].goal /\ files'[k].whole = files[k].whole
    OBVIOUS
  <2>3. PICK m, w : m = files[k] /\ w = files'[k] OBVIOUS
  <2>4. DOMAIN m = FileFields /\ w = [m EXCEPT !.kept = FALSE, !.down = <<>>]
    BY <1>2, <2>1, <2>3
  <2> QED BY <2>3, <2>4, MovedFile
<1>6. Count' = n /\ Count = n BY <1>1, <1>4 DEF Count
<1>7. UNCHANGED <<schema, made, ci>> BY DEF MoveDowns
<1>8. Chain(reached)' BY <1>0, <1>4, <1>5, <1>6, <1>7 DEF Chain, Base
<1>9. StepInv(reached)' BY <1>0 DEF StepInv, MoveDowns
<1> QED BY <1>8, <1>9 DEF At

LEMMA Invoked ==
  ASSUME TidyServer, NEW reached, At(reached), NEW c \in Commands, Invoke(c) PROVE At(reached)'
<1>0. Chain(reached) /\ StepInv(reached) BY DEF At
<1>1. DOMAIN files = 1..Count BY <1>0, ChainCounts
<1>2. \A k \in 1..Count : ~files[k].kept BY <1>1 DEF Invoke, TidyServer
<1>3. UNCHANGED <<ci, schema, files, made, result, db, current>> BY DEF Invoke
<1>4. Chain(reached)' /\ Count' = Count BY <1>0, <1>3, ChainKept
<1>5. StepInv(reached)' BY <1>0, <1>2, <1>3, <1>4 DEF StepInv, Invoke, Steps
<1> QED BY <1>4, <1>5 DEF At

\* The databases that a command comes to are like all others but in public.
LEMMA GivenThere ==
  ASSUME TidyServer, NEW reached, StepInv(reached) PROVE Reset(db) = Blank
<1>1. \A o \in Given : db[o] = Fresh[o] BY DEF StepInv, Wanted, TidyServer
<1> QED BY <1>1, ResetBlanks

LEMMA Started ==
  ASSUME TidyCatalog, TidyServer, NEW reached, At(reached), StartPostgres PROVE At(reached)'
<1>0. Chain(reached) /\ StepInv(reached) BY DEF At
<1>1. UNCHANGED <<ci, schema, files, made, result, current, cmd, found, wrote>> BY DEF StartPostgres
<1>2. Chain(reached)' /\ Count' = Count BY <1>0, <1>1, ChainKept
<1>3. db' = Base BY <1>0, GivenThere, BaseIs DEF StartPostgres
<1>4. Base' = Base BY <1>1 DEF Base
<1>5. Base \in Wanted BY BaseIs, StartIsWanted DEF Starts
<1>6. pc = "connect" /\ pc' = IF cmd = "validate" THEN "applySchema" ELSE "readDir"
  BY DEF StartPostgres
<1>7. StepInv(reached)' BY <1>0, <1>1, <1>2, <1>3, <1>4, <1>5, <1>6 DEF StepInv, Steps
<1> QED BY <1>2, <1>7 DEF At

LEMMA DirRead ==
  ASSUME NEW reached, At(reached), ReadDir PROVE At(reached)'
<1>0. Chain(reached) /\ StepInv(reached) BY DEF At
<1>1. UNCHANGED <<ci, schema, files, made, result, current, cmd, found, db, wrote>> BY DEF ReadDir
<1>2. Chain(reached)' /\ Count' = Count BY <1>0, <1>1, ChainKept
<1>3. pc = "readDir" /\ pc' = "replay" /\ todo' = Replay(files) BY <1>0 DEF ReadDir, Chain
<1>4. \A k \in 1..Len(files) : ~files[k].kept BY <1>0, <1>3 DEF StepInv, Count
<1>5. PICK S : files \in Seq(S) BY <1>0 DEF Chain
<1>6. /\ \E T : Replay(files) \in Seq(T)
      /\ Len(Replay(files)) = Len(files)
      /\ \A k \in 1..Len(files) : Replay(files)[k] = files[k].up
  BY <1>4, <1>5, OnlyUps
<1>7. db = reached[0] BY <1>0, <1>3 DEF StepInv, Chain
<1>8. Count \in Nat BY <1>5 DEF Count
<1>9. Replayed(reached, 0)'
  <2>1. \A k \in 1..Len(files) : files[0 + k] = files[k] OBVIOUS
  <2> QED BY <1>1, <1>2, <1>3, <1>6, <1>7, <1>8, <2>1 DEF Replayed, Count
<1>10. StepInv(reached)' BY <1>0, <1>1, <1>2, <1>3, <1>8, <1>9 DEF StepInv, Steps
<1> QED BY <1>2, <1>10 DEF At

\* The next up script, run where the earlier ones have been, is accepted.
LEMMA ScriptReplayed ==
  ASSUME NEW reached, At(reached), ReplayScript PROVE At(reached)'
<1>0. Chain(reached) /\ StepInv(reached) BY DEF At
<1>1. UNCHANGED <<ci, schema, files, made, current, cmd, found, wrote>> BY DEF ReplayScript
<1>2. Chain(reached)' /\ Count' = Count BY <1>0, <1>1, ChainKept
<1>4. pc = "replay" /\ todo # <<>> BY DEF ReplayScript
<1>5. PICK k \in 0..Count : Replayed(reached, k) BY <1>0, <1>4 DEF StepInv
<1>6. PICK S : todo \in Seq(S) BY <1>5 DEF Replayed
<1>7. Count \in Nat BY <1>0, ChainCounts
<1>8. Len(todo) = Count - k /\ Len(todo) # 0 BY <1>4, <1>5, <1>6 DEF Replayed
<1>9. k + 1 \in 1..Count /\ k + 1 \in 0..Count /\ (k + 1) - 1 = k BY <1>6, <1>7, <1>8
<1>10. Head(todo) = files[k + 1].up
  <2>1. Head(todo) = todo[1] BY <1>4, <1>6
  <2>2. 1 \in 1..Len(todo) BY <1>6, <1>8
  <2> QED BY <1>5, <2>1, <2>2 DEF Replayed
<1>11. Run(db, Head(todo)) = [ok |-> TRUE, db |-> reached[k + 1]]
  <2>1. db = reached[k] BY <1>5 DEF Replayed
  <2>2. Run(reached[(k + 1) - 1], files[k + 1].up) = [ok |-> TRUE, db |-> reached[k + 1]]
    BY <1>0, <1>9 DEF Chain
  <2> QED BY <1>9, <1>10, <2>1, <2>2
<1>12. db' = reached[k + 1] /\ pc' = "replay" /\ result' = result
  BY <1>11 DEF ReplayScript, Execute
<1>13. Replayed(reached, k + 1)'
  <2>1. todo' = Tail(todo) BY DEF ReplayScript
  <2>2. todo' \in Seq(S) /\ Len(todo') = Len(todo) - 1 BY <1>4, <1>6, <2>1
  <2>3. \A i \in 1..Len(todo') : todo'[i] = todo[i + 1] /\ i + 1 \in 1..Len(todo)
    BY <1>4, <1>6, <2>1, <2>2
  <2>4. \A i \in 1..Len(todo') : k + (i + 1) = (k + 1) + i BY <2>2
  <2>5. \A i \in 1..Len(todo') : todo'[i] = files[(k + 1) + i].up
    BY <1>5, <2>3, <2>4 DEF Replayed
  <2> QED BY <1>1, <1>2, <1>7, <1>8, <1>12, <2>2, <2>5 DEF Replayed
<1>14. reached[k + 1] \in Wanted BY <1>0, <1>9, ChainCounts
<1>15. StepInv(reached)' BY <1>0, <1>1, <1>2, <1>4, <1>9, <1>12, <1>13, <1>14 DEF StepInv
<1> QED BY <1>2, <1>15 DEF At

LEMMA CurrentRead ==
  ASSUME NEW reached, At(reached), ReadCurrent PROVE At(reached)'
<1>0. Chain(reached) /\ StepInv(reached) BY DEF At
<1>1. UNCHANGED <<ci, schema, files, made, result, cmd, found, db, wrote>> BY DEF ReadCurrent
<1>2. Chain(reached)' /\ Count' = Count BY <1>0, <1>1, ChainKept
<1>3. pc = "replay" /\ todo = <<>> /\ current' = db /\ pc' = "reset" BY DEF ReadCurrent
<1>4. PICK k \in 0..Count : Replayed(reached, k) BY <1>0, <1>3 DEF StepInv
<1>5. k = Count
  <2>1. Count \in Nat BY <1>0, ChainCounts
  <2>2. Len(todo) = 0 BY <1>3
  <2> QED BY <1>4, <2>1, <2>2 DEF Replayed
<1>6. current' = reached[Count] /\ current' \in Schemas
  BY <1>0, <1>3, <1>4, <1>5, ChainCounts DEF Replayed
<1>7. StepInv(reached)' BY <1>0, <1>1, <1>2, <1>3, <1>6 DEF StepInv, Steps
<1> QED BY <1>2, <1>7 DEF At

LEMMA DatabaseReset ==
  ASSUME TidyCatalog, TidyServer, NEW reached, At(reached), ResetDatabase PROVE At(reached)'
<1>0. Chain(reached) /\ StepInv(reached) BY DEF At
<1>1. UNCHANGED <<ci, schema, files, made, result, cmd, found, current, wrote>> BY DEF ResetDatabase
<1>2. Chain(reached)' /\ Count' = Count BY <1>0, <1>1, ChainKept
<1>3. db' = Blank /\ Blank \in Wanted BY <1>0, GivenThere, StartIsWanted DEF ResetDatabase, Starts
<1>4. pc = "reset" /\ pc' = "applySchema" BY DEF ResetDatabase
<1>5. StepInv(reached)' BY <1>0, <1>1, <1>2, <1>3, <1>4 DEF StepInv, Steps
<1> QED BY <1>2, <1>5 DEF At

LEMMA SchemaApplied ==
  ASSUME TidyCatalog, TidyServer, NEW reached, At(reached), ApplySchema PROVE At(reached)'
<1>0. Chain(reached) /\ StepInv(reached) BY DEF At
<1>1. UNCHANGED <<ci, schema, files, made, cmd, found, current, wrote>> BY DEF ApplySchema
<1>2. Chain(reached)' /\ Count' = Count BY <1>0, <1>1, ChainKept
<1>3. pc = "applySchema" /\ schema \in Wanted BY <1>0 DEF ApplySchema, Chain
<1>4. db = IF cmd = "validate" THEN Base ELSE Blank BY <1>0, <1>3 DEF StepInv
<1>5. Starts(db) BY <1>4, BaseIs DEF Starts
<1>6. Run(db, SchemaFile) = [ok |-> TRUE, db |-> Over(db, schema)] BY <1>3, <1>5, SchemaFileRuns
<1>7. /\ db' = Over(db, schema) /\ result' = result
      /\ pc' = IF cmd = "validate" THEN "introspect" ELSE "compare"
  BY <1>6 DEF ApplySchema, Execute
<1>8. db' \in Wanted BY <1>3, <1>5, <1>7, StartIsWanted, OverIsWanted
<1>9. cmd # "validate" => db' = schema BY <1>3, <1>4, <1>7, OverBlank
<1>10. StepInv(reached)' BY <1>0, <1>1, <1>2, <1>3, <1>7, <1>8, <1>9 DEF StepInv, Steps
<1> QED BY <1>2, <1>10 DEF At

LEMMA Introspected ==
  ASSUME NEW reached, At(reached), Introspect PROVE At(reached)'
<1>0. Chain(reached) /\ StepInv(reached) BY DEF At
<1>1. UNCHANGED <<ci, schema, files, made, cmd, found, current, db, wrote>> BY DEF Introspect
<1>2. Chain(reached)' /\ Count' = Count BY <1>0, <1>1, ChainKept
<1>3. pc = "introspect" /\ pc' = "stop" /\ result' = "valid" BY DEF Introspect
<1>4. StepInv(reached)' BY <1>0, <1>1, <1>3 DEF StepInv, Steps
<1> QED BY <1>2, <1>4 DEF At

\* What is reported or written is never empty; then the schema file is not what was reached.
LEMMA SchemasCompared ==
  ASSUME KeysDistinct, NEW reached, At(reached), CompareSchemas PROVE At(reached)'
<1>0. Chain(reached) /\ StepInv(reached) BY DEF At
<1>1. UNCHANGED <<ci, schema, files, made, cmd, current, db, wrote>> BY DEF CompareSchemas
<1>2. Chain(reached)' /\ Count' = Count BY <1>0, <1>1, ChainKept
<1>3. pc = "compare" BY DEF CompareSchemas
<1>4. db = schema /\ cmd # "validate" /\ cmd \in Commands /\ current = reached[Count]
  BY <1>0, <1>3 DEF StepInv
<1>5. PICK order \in Orders : found' = Compare(current, schema, order)
  BY <1>4 DEF CompareSchemas
<1>6. schema \in Schemas BY <1>0, Wants DEF Chain
<1>7. found' # <<>> => schema # reached[Count] BY <1>4, <1>5, <1>6, NothingToChange
<1>8. \/ pc' = "stop" /\ result' = "inSync"
      \/ pc' = "stop" /\ result' = "reported" /\ found' # <<>>
      \/ pc' = "makeDir" /\ result' = result /\ found' # <<>> /\ cmd # "diff"
  BY DEF CompareSchemas
<1>9. StepInv(reached)'
  BY <1>0, <1>1, <1>2, <1>3, <1>4, <1>5, <1>7, <1>8 DEF StepInv, Steps, Commands
<1> QED BY <1>2, <1>9 DEF At

-----------------------------------------------------------------------------
(* The writing of a migration, change by change. *)

LEMMA DirectoryMade ==
  ASSUME NEW reached, At(reached), MakeDirectory PROVE At(reached)'
<1>0. Chain(reached) /\ StepInv(reached) BY DEF At
<1>1. UNCHANGED <<ci, schema, files, cmd, found, current, db, wrote, result>> /\ made' = made
  BY <1>0 DEF MakeDirectory, Chain
<1>2. Chain(reached)' /\ Count' = Count BY <1>0, <1>1, ChainKept
<1>3. pc = "makeDir" /\ pc' = "createUp" BY DEF MakeDirectory
<1>4. StepInv(reached)' BY <1>0, <1>1, <1>2, <1>3 DEF StepInv, Steps
<1> QED BY <1>2, <1>4 DEF At

\* An empty up file leads nowhere; the changes it is for lie before it.
LEMMA UpCreated ==
  ASSUME TidyCatalog, NEW reached, At(reached), CreateUpFile PROVE \E now : At(now)'
<1>0. Chain(reached) /\ StepInv(reached) BY DEF At
<1>1. UNCHANGED <<ci, schema, made, cmd, found, current, db, result>> BY DEF CreateUpFile
<1>2. pc = "createUp" /\ pc' = "writeUp" /\ wrote' = 0 BY DEF CreateUpFile
<1>3. PICK n \in Nat : n = Count /\ n = Len(files) BY <1>0, ChainCounts DEF Count
<1>4. PICK rec : rec = [up |-> <<>>, down |-> <<>>, kept |-> FALSE,
                        whole |-> FALSE, goal |-> EmptySchema] OBVIOUS
<1>5. files' = Append(files, rec) BY <1>4 DEF CreateUpFile
<1>6. PICK S : files \in Seq(S) BY <1>0 DEF Chain
<1>7. /\ files' \in Seq(S \cup {rec}) /\ Len(files') = n + 1
      /\ files'[n + 1] = rec /\ \A k \in 1..n : files'[k] = files[k]
  <2>1. files \in Seq(S \cup {rec}) /\ rec \in S \cup {rec} BY <1>6
  <2> QED BY <1>3, <1>5, <2>1
<1>8. PICK now : now = [k \in 0..(n + 1) |-> IF k = n + 1 THEN reached[n] ELSE reached[k]] OBVIOUS
<1>9. /\ \A k \in 0..n : now[k] = reached[k] /\ reached[k] \in Wanted
      /\ now[n + 1] = reached[n]
  BY <1>0, <1>3, <1>8, ChainCounts
<1>10. now \in [0..(n + 1) -> Wanted]
  <2>1. \A k \in 0..(n + 1) : k = n + 1 \/ k \in 0..n OBVIOUS
  <2>2. n \in 0..n OBVIOUS
  <2>3. \A k \in 0..(n + 1) : now[k] \in Wanted BY <1>9, <2>1, <2>2
  <2> QED BY <1>8, <2>3
<1>11. DOMAIN rec = FileFields /\ rec.up = <<>> /\ ~rec.whole BY <1>4 DEF FileFields
<1>12. ASSUME NEW k \in 1..(n + 1)
       PROVE  /\ DOMAIN files'[k] = FileFields /\ files'[k].up \in Seq(Statements)
              /\ Run(now[k-1], files'[k].up) = [ok |-> TRUE, db |-> now[k]]
              /\ files'[k].whole => now[k] = files'[k].goal
  <2>1. CASE k = n + 1
    <3>1. k - 1 = n /\ n \in 0..n BY <2>1
    <3>2. Run(now[k-1], <<>>) = [ok |-> TRUE, db |-> now[k-1]] BY RunNone DEF Leads
    <3>3. now[k-1] = now[k] BY <1>9, <2>1, <3>1
    <3>4. <<>> \in Seq(Statements) OBVIOUS
    <3> QED BY <1>7, <1>11, <2>1, <3>2, <3>3, <3>4
  <2>2. CASE k \in 1..n
    <3>1. k - 1 \in 0..n /\ k \in 0..n BY <2>2
    <3>2. now[k-1] = reached[k-1] /\ now[k] = reached[k] /\ files'[k] = files[k]
      BY <1>7, <1>9, <2>2, <3>1
    <3>3. /\ DOMAIN files[k] = FileFields /\ files[k].up \in Seq(Statements)
          /\ Run(reached[k-1], files[k].up) = [ok |-> TRUE, db |-> reached[k]]
          /\ files[k].whole => reached[k] = files[k].goal
      BY <1>0, <1>3, <2>2 DEF Chain
    <3> QED BY <3>2, <3>3
  <2> QED BY <2>1, <2>2
<1>13. Count' = n + 1 BY <1>7 DEF Count
<1>14. schema \in Wanted /\ schema \in Edits(reached[n]) /\ made /\ now[0] = Base
  <2>1. 0 \in 0..n OBVIOUS
  <2> QED BY <1>0, <1>3, <1>9, <2>1 DEF Chain
<1>15. Chain(now)'
  <2>1. \E R : files' \in Seq(R) BY <1>7
  <2>2. Base' = Base /\ schema' = schema /\ made' = made BY <1>1 DEF Base
  <2> QED BY <1>9, <1>10, <1>12, <1>13, <1>14, <2>1, <2>2 DEF Chain
<1>16. Writing(now)'
  <2>1. current = reached[n] /\ found # <<>>
    BY <1>0, <1>2, <1>3 DEF StepInv
  <2>2. PICK order \in Orders : found = Compare(current, schema, order)
    BY <1>0, <1>2 DEF StepInv
  <2>3. current \in Schemas /\ schema \in Edits(current) BY <1>0, <1>14, <2>1 DEF StepInv
  <2>4. PICK list : /\ found = ChangesOf(current, schema, list)
                    /\ Covers(current, schema, list, Changed(current, schema), {})
    BY <2>2, <2>3, CompareCovers DEF Changed
  <2>5. Len(list) \in Nat /\ Len(list) # 0
    <3>1. list \in Seq(Objects) BY <2>4 DEF Covers
    <3>2. list # <<>> BY <2>1, <2>4 DEF ChangesOf
    <3> QED BY <3>1, <3>2
  <2>6. Midway(current, schema, list, 0) = current BY <2>3, <2>4, MidwayEnds
  <2>7. now[(n + 1) - 1] = current /\ now[n + 1] = current
    <3>1. (n + 1) - 1 = n /\ n \in 0..n OBVIOUS
    <3> QED BY <1>9, <2>1, <3>1
  <2>8. 0 \in 0..(Len(list) - 1) BY <2>5
  <2>9. n + 1 # 0 OBVIOUS
  <2> QED BY <1>1, <1>2, <1>13, <2>3, <2>4, <2>6, <2>7, <2>8, <2>9 DEF Writing
<1>17. StepInv(now)' BY <1>0, <1>1, <1>2, <1>16 DEF StepInv, Steps
<1> QED BY <1>15, <1>17 DEF At

\* The newest file is the one being written.
LEMMA NewestWritten ==
  ASSUME NEW S, NEW all \in Seq(S), NEW n \in Nat \ {0}, n = Len(all),
         NEW m, NEW new, new = [all EXCEPT ![n] = m]
  PROVE  /\ new \in Seq(S \cup {m}) /\ Len(new) = n
         /\ new[n] = m /\ \A k \in 1..n : k # n => new[k] = all[k]
<1>1. DOMAIN all = 1..n /\ \A k \in 1..n : all[k] \in S OBVIOUS
<1>2. new \in [1..n -> S \cup {m}] BY <1>1
<1>3. new \in Seq(S \cup {m}) /\ Len(new) = n BY <1>2, FunctionIsList
<1> QED BY <1>1, <1>3

\* The statements of one more change lead one change further.
LEMMA UpWritten ==
  ASSUME TidyCatalog, NEW reached, At(reached), WriteUp PROVE \E now : At(now)'
<1>0. Chain(reached) /\ StepInv(reached) BY DEF At
<1>1. UNCHANGED <<ci, schema, made, cmd, found, current, db, result>> BY DEF WriteUp
<1>2. pc = "writeUp" /\ wrote' = wrote + 1 BY DEF WriteUp
<1>3. Writing(reached) BY <1>0, <1>2 DEF StepInv
<1>4. PICK list : /\ Covers(current, schema, list, Changed(current, schema), {})
                  /\ found = ChangesOf(current, schema, list)
                  /\ wrote \in 0..(Len(list) - 1)
                  /\ reached[Count] = Midway(current, schema, list, wrote)
  BY <1>3 DEF Writing
<1>5. PICK n \in Nat \ {0} : n = Count /\ n = Len(files)
  BY <1>0, <1>3, ChainCounts DEF Count, Writing
<1>6. PICK s, t, i : s = current /\ t = schema /\ i = wrote OBVIOUS
<1>7. /\ s \in Schemas /\ s \in Wanted /\ t \in Wanted /\ t \in Edits(s) /\ s = reached[n - 1]
      /\ t \in Schemas
  <2>1. n - 1 \in 0..n OBVIOUS
  <2>2. s = reached[n - 1] /\ t \in Edits(s) BY <1>3, <1>5, <1>6 DEF Writing
  <2>3. s \in Wanted /\ s \in Schemas BY <1>0, <1>5, <2>1, <2>2, ChainCounts
  <2> QED BY <1>0, <1>6, <2>2, <2>3, Wants DEF Chain
<1>8. PICK size \in Nat : size = Len(list) /\ size = Len(found)
  BY <1>4, <1>6, ChangesTyped DEF Covers
<1>9. i \in 0..(size - 1) /\ i + 1 \in 1..size /\ i + 1 \in 0..size BY <1>4, <1>6, <1>8
<1>10. PICK o : o = list[i + 1] OBVIOUS
<1>11. PICK d, e : d = Midway(s, t, list, i) /\ e = Midway(s, t, list, i + 1) OBVIOUS
<1>12. Covers(s, t, list, Changed(s, t), {}) BY <1>4, <1>6
<1>13. /\ o \in Objects /\ s[o] # t[o] /\ d \in States /\ d[o] = s[o] /\ Ready(d, o)
       /\ Fitting(d) /\ e = [d EXCEPT ![o] = t[o]]
  <2>1. i \in 0..(Len(list) - 1) BY <1>8, <1>9
  <2> QED BY <1>7, <1>10, <1>11, <1>12, <2>1, MidwayReady
<1>14. found[wrote + 1] = ChangeOf(s, t, o)
  <2>1. list \in Seq(Objects) BY <1>12 DEF Covers
  <2>2. DOMAIN list = 1..Len(list) BY <2>1
  <2>3. wrote + 1 \in DOMAIN list BY <1>6, <1>8, <1>9, <2>2
  <2> QED BY <1>4, <1>6, <1>10, <2>3 DEF ChangesOf
<1>15. PICK one, two : one = files[n].up /\ two = SQL(found[wrote + 1]) OBVIOUS
<1>16. /\ DOMAIN files[n] = FileFields /\ one \in Seq(Statements)
       /\ Leads(s, one, d)
  <2>1. n \in 1..Count BY <1>5
  <2>2. /\ DOMAIN files[n] = FileFields /\ files[n].up \in Seq(Statements)
        /\ Run(reached[n-1], files[n].up) = [ok |-> TRUE, db |-> reached[n]]
    BY <1>0, <2>1 DEF Chain
  <2>3. reached[n] = d BY <1>4, <1>5, <1>6, <1>11
  <2> QED BY <1>7, <1>15, <2>2, <2>3 DEF Leads
<1>17. two \in Seq(Statements) /\ Leads(d, two, e)
  <2>1. two \in Seq(Statements) BY <1>7, <1>13, <1>14, <1>15, SQLTyped
  <2>2. Leads(d, SQL(ChangeOf(s, t, o)), [d EXCEPT ![o] = t[o]]) BY <1>7, <1>13, UpChange
  <2> QED BY <1>13, <1>14, <1>15, <2>1, <2>2
<1>18. one \o two \in Seq(Statements) /\ Leads(s, one \o two, e)
  BY <1>16, <1>17, RunBoth
<1>19. e \in Wanted /\ t \in Edits(e)
  <2>1. i + 1 \in 0..Len(list) BY <1>8, <1>9
  <2> QED BY <1>7, <1>11, <1>12, <2>1, MidwayIsSchema
<1>20. PICK last : last = (wrote + 1 = Len(found)) OBVIOUS
<1>21. last => e = t
  <2>1. last => i + 1 = Len(list) BY <1>6, <1>8, <1>20
  <2> QED BY <1>7, <1>11, <1>12, <2>1, MidwayEnds
<1>22. PICK old : old = files[n] OBVIOUS
<1>23. PICK goal : goal = IF last THEN schema ELSE old.goal OBVIOUS
<1>24. PICK m : m = [old EXCEPT !.up = one \o two, !.whole = last, !.goal = goal] OBVIOUS
<1>25. DOMAIN m = FileFields /\ m.up = one \o two /\ m.whole = last /\ m.goal = goal
  <2>1. PICK up : up = one \o two OBVIOUS
  <2>2. DOMAIN old = FileFields BY <1>16, <1>22
  <2>3. m = [old EXCEPT !.up = up, !.whole = last, !.goal = goal] BY <1>24, <2>1
  <2>4. DOMAIN m = FileFields /\ m.up = up /\ m.whole = last /\ m.goal = goal
    BY <2>2, <2>3 DEF FileFields
  <2> QED BY <2>1, <2>4
<1>26. PICK S : files \in Seq(S) BY <1>0 DEF Chain
<1>27. files' = [files EXCEPT ![n] = m]
  <2>1. files' = [files EXCEPT ![n].up = @ \o two, ![n].whole = last,
                               ![n].goal = IF last THEN schema ELSE @]
    BY <1>5, <1>15, <1>20 DEF WriteUp
  <2> QED BY <1>5, <1>15, <1>16, <1>22, <1>23, <1>24, <1>26, <2>1
<1>28. /\ files' \in Seq(S \cup {m}) /\ Len(files') = n
       /\ files'[n] = m /\ \A k \in 1..n : k # n => files'[k] = files[k]
  <2>1. PICK all, new : all = files /\ new = files' OBVIOUS
  <2>2. /\ new \in Seq(S \cup {m}) /\ Len(new) = n
        /\ new[n] = m /\ \A k \in 1..n : k # n => new[k] = all[k]
    BY <1>5, <1>26, <1>27, <2>1, NewestWritten
  <2> QED BY <2>1, <2>2
<1>29. Count' = n BY <1>28 DEF Count
<1>30. PICK now : now = [k \in 0..n |-> IF k = n THEN e ELSE reached[k]] OBVIOUS
<1>31. /\ now[n] = e /\ \A k \in 0..n : k # n => now[k] = reached[k]
       /\ now \in [0..n -> Wanted]
  <2>1. \A k \in 0..n : reached[k] \in Wanted BY <1>0, <1>5, ChainCounts
  <2> QED BY <1>19, <1>30, <2>1
<1>32. now[n - 1] = s /\ now[0] = Base
  <2>1. n - 1 \in 0..n /\ n - 1 # n /\ 0 \in 0..n /\ 0 # n BY <1>5
  <2>2. reached[0] = Base BY <1>0 DEF Chain
  <2> QED BY <1>7, <1>31, <2>1, <2>2
<1>33. ASSUME NEW k \in 1..n
       PROVE  /\ DOMAIN files'[k] = FileFields /\ files'[k].up \in Seq(Statements)
              /\ Run(now[k-1], files'[k].up) = [ok |-> TRUE, db |-> now[k]]
              /\ files'[k].whole => now[k] = files'[k].goal
  <2>1. CASE k = n
    <3>1. Run(s, one \o two) = [ok |-> TRUE, db |-> e] BY <1>18 DEF Leads
    <3>2. last => e = goal BY <1>6, <1>21, <1>23
    <3> QED BY <1>18, <1>25, <1>28, <1>31, <1>32, <2>1, <3>1, <3>2
  <2>2. CASE k # n
    <3>1. k - 1 \in 0..n /\ k - 1 # n /\ k \in 0..n BY <2>2
    <3>2. now[k-1] = reached[k-1] /\ now[k] = reached[k] /\ files'[k] = files[k]
      BY <1>28, <1>31, <2>2, <3>1
    <3>3. /\ DOMAIN files[k] = FileFields /\ files[k].up \in Seq(Statements)
          /\ Run(reached[k-1], files[k].up) = [ok |-> TRUE, db |-> reached[k]]
          /\ files[k].whole => reached[k] = files[k].goal
      BY <1>0, <1>5, <2>2 DEF Chain
    <3> QED BY <3>2, <3>3
  <2> QED BY <2>1, <2>2
<1>34. Chain(now)'
  <2>1. \E R : files' \in Seq(R) BY <1>28
  <2>2. Base' = Base /\ schema' = t /\ made' BY <1>0, <1>1, <1>6 DEF Base, Chain
  <2> QED BY <1>7, <1>19, <1>29, <1>31, <1>32, <1>33, <2>1, <2>2 DEF Chain
<1>35. CASE last
  <2>1. pc' = "createDown" BY <1>20, <1>35 DEF WriteUp
  <2>2. wrote' \in 1..Len(found) BY <1>2, <1>6, <1>8, <1>9
  <2>3. StepInv(now)' BY <1>0, <1>1, <1>2, <2>1, <2>2 DEF StepInv, Steps
  <2> QED BY <1>34, <2>3 DEF At
<1>36. CASE ~last
  <2>1. pc' = "writeUp" BY <1>20, <1>36 DEF WriteUp
  <2>2. wrote' \in 0..(Len(list) - 1)
    <3>1. wrote + 1 # size /\ wrote \in 0..(size - 1) BY <1>6, <1>8, <1>9, <1>20, <1>36
    <3>2. wrote + 1 \in 0..(size - 1) BY <3>1
    <3> QED BY <1>2, <1>8, <3>2
  <2>3. Midway(s, t, list, wrote') = now[n] BY <1>2, <1>6, <1>11, <1>31
  <2>4. Writing(now)'
    <3>1. current' = s /\ schema' = t /\ found' = ChangesOf(s, t, list) BY <1>1, <1>4, <1>6
    <3> QED BY <1>5, <1>7, <1>12, <1>29, <1>32, <2>2, <2>3, <3>1 DEF Writing
  <2>5. StepInv(now)' BY <1>0, <1>1, <1>2, <2>1, <2>4 DEF StepInv, Steps
  <2> QED BY <1>34, <2>5 DEF At
<1> QED BY <1>35, <1>36

\* The down file is another file.
LEMMA DownFile ==
  ASSUME NEW m, DOMAIN m = FileFields, NEW x,
         NEW w, w = [m EXCEPT !.kept = x] \/ w = [m EXCEPT !.down = x]
  PROVE  DOMAIN w = FileFields /\ w.up = m.up /\ w.goal = m.goal /\ w.whole = m.whole
BY DEF FileFields

LEMMA DownWritten ==
  ASSUME NEW reached, At(reached), CreateDownFile \/ WriteDown PROVE At(reached)'
<1>0. Chain(reached) /\ StepInv(reached) BY DEF At
<1>1. UNCHANGED <<ci, schema, made, cmd, found, current, db, result>>
  BY DEF CreateDownFile, WriteDown
<1>2. pc \in {"createDown", "writeDown"} /\ wrote \in 1..Len(found)
  BY <1>0 DEF CreateDownFile, WriteDown, StepInv
<1>3. PICK n \in Nat : n = Count /\ n = Len(files) BY <1>0, ChainCounts DEF Count
<1>4. PICK S : files \in Seq(S) BY <1>0 DEF Chain
<1>5. \A k \in 1..n : DOMAIN files[k] = FileFields BY <1>0, <1>3 DEF Chain
<1>6. /\ \E R : files' \in Seq(R)
      /\ Len(files') = n
      /\ \A k \in 1..n : /\ DOMAIN files'[k] = FileFields /\ files'[k].up = files[k].up
                         /\ files'[k].goal = files[k].goal /\ files'[k].whole = files[k].whole
  <2>0. PICK old : old = files[n] OBVIOUS
  <2>1. PICK x, m : /\ m = [old EXCEPT !.kept = x] \/ m = [old EXCEPT !.down = x]
                    /\ files' = [files EXCEPT ![n] = m]
    <3>1. CASE CreateDownFile
      <4>1. files' = [files EXCEPT ![n].kept = TRUE] BY <1>3, <3>1 DEF CreateDownFile
      <4> QED BY <2>0, <4>1
    <3>2. CASE WriteDown
      <4>1. PICK sql : sql = DownSQL(found[wrote]) OBVIOUS
      <4>2. files' = [files EXCEPT ![n].down = @ \o sql] BY <1>3, <3>2, <4>1 DEF WriteDown
      <4>3. PICK x : x = old.down \o sql OBVIOUS
      <4>4. files' = [files EXCEPT ![n] = [old EXCEPT !.down = x]] BY <2>0, <4>2, <4>3
      <4> QED BY <4>4
    <3> QED BY <3>1, <3>2
  <2>2. CASE n = 0
    <3>1. files = <<>> BY <1>3, <1>4, <2>2, NoLength
    <3>2. files' = files BY <2>1, <2>2, <3>1
    <3>3. \A k \in 1..n : FALSE BY <2>2
    <3> QED BY <1>3, <1>4, <3>2, <3>3
  <2>3. CASE n # 0
    <3>1. PICK all, new : all = files /\ new = files' OBVIOUS
    <3>2. /\ new \in Seq(S \cup {m}) /\ Len(new) = n
          /\ new[n] = m /\ \A k \in 1..n : k # n => new[k] = all[k]
      BY <1>3, <1>4, <2>1, <2>3, <3>1, NewestWritten
    <3>3. /\ DOMAIN m = FileFields /\ m.up = old.up /\ m.goal = old.goal /\ m.whole = old.whole
      <4>1. DOMAIN old = FileFields BY <1>5, <2>0, <2>3
      <4> QED BY <2>1, <4>1, DownFile
    <3>4. ASSUME NEW k \in 1..n
          PROVE  /\ DOMAIN new[k] = FileFields /\ new[k].up = all[k].up
                 /\ new[k].goal = all[k].goal /\ new[k].whole = all[k].whole
      BY <1>5, <2>0, <3>1, <3>2, <3>3
    <3> QED BY <3>1, <3>2, <3>4
  <2> QED BY <2>2, <2>3
<1>7. Count' = n BY <1>6 DEF Count
<1>8. Chain(reached)' BY <1>0, <1>1, <1>3, <1>6, <1>7 DEF Chain, Base
<1>9. StepInv(reached)'
  <2>1. CASE CreateDownFile
    BY <1>0, <1>1, <1>2, <2>1 DEF StepInv, Steps, CreateDownFile
  <2>2. CASE WriteDown
    <3>1. pc' = (IF wrote' = 0 THEN "sum" ELSE "writeDown") /\ wrote' = wrote - 1
      BY <2>2 DEF WriteDown
    <3>2. pc' = "writeDown" => wrote' \in 1..Len(found) BY <1>2, <3>1
    <3> QED BY <1>0, <1>1, <1>2, <3>1, <3>2 DEF StepInv, Steps
  <2> QED BY <2>1, <2>2
<1> QED BY <1>8, <1>9 DEF At

LEMMA Rest ==
  ASSUME NEW reached, At(reached),
         UpdateSum \/ StopContainer \/ WaitFails \/ StepFails \/ Kill \/ UNCHANGED vars
  PROVE  At(reached)'
<1>0. Chain(reached) /\ StepInv(reached) BY DEF At
<1>1. UNCHANGED <<ci, schema, files, made>>
  BY DEF UpdateSum, StopContainer, WaitFails, StepFails, Kill, vars
<1>2. Chain(reached)' /\ Count' = Count BY <1>0, <1>1, ChainKept
<1>3. CASE StopContainer \/ WaitFails \/ Kill
  <2>1. Ends BY <1>3 DEF StopContainer, WaitFails, Kill
  <2>2. StepInv(reached)' BY <1>0, <1>2, <2>1, EmptyIsSchema DEF StepInv, Ends, Steps
  <2> QED BY <1>2, <2>2 DEF At
<1>4. CASE UpdateSum
  <2>1. StepInv(reached)' BY <1>0, <1>2, <1>4 DEF StepInv, UpdateSum, Steps
  <2> QED BY <1>2, <2>1 DEF At
<1>5. CASE StepFails
  <2>1. StepInv(reached)' BY <1>0, <1>2, <1>5 DEF StepInv, StepFails, Steps
  <2> QED BY <1>2, <2>1 DEF At
<1>6. CASE UNCHANGED vars
  <2>1. At(reached)' BY <1>6 DEF vars, At, Chain, StepInv, Replayed, Writing, Count, Base
  <2> QED BY <2>1
<1> QED BY <1>3, <1>4, <1>5, <1>6

LEMMA HistoryNext ==
  ASSUME TidyServer, TidyCatalog
  PROVE  HistoryInv /\ [Next]_vars => HistoryInv'
<1> SUFFICES ASSUME HistoryInv, [Next]_vars PROVE HistoryInv' OBVIOUS
<1>0. PICK reached : At(reached) BY DEF HistoryInv
<1>n. ASSUME At(reached)' PROVE HistoryInv' BY <1>n DEF HistoryInv
<1>1. CASE EditSchema BY <1>0, <1>n, <1>1, Edited
<1>2. CASE MoveDowns BY <1>0, <1>n, <1>2, Moved
<1>3. ASSUME NEW c \in Commands, Invoke(c) PROVE HistoryInv' BY <1>0, <1>n, <1>3, Invoked
<1>4. CASE StartPostgres BY <1>0, <1>n, <1>4, Started
<1>5. CASE ReadDir BY <1>0, <1>n, <1>5, DirRead
<1>6. CASE ReplayScript BY <1>0, <1>n, <1>6, ScriptReplayed
<1>7. CASE ReadCurrent BY <1>0, <1>n, <1>7, CurrentRead
<1>8. CASE ResetDatabase BY <1>0, <1>n, <1>8, DatabaseReset
<1>9. CASE ApplySchema BY <1>0, <1>n, <1>9, SchemaApplied
<1>10. CASE Introspect BY <1>0, <1>n, <1>10, Introspected
<1>11. CASE CompareSchemas BY <1>0, <1>n, <1>11, SchemasCompared DEF TidyCatalog
<1>12. CASE MakeDirectory BY <1>0, <1>n, <1>12, DirectoryMade
<1>13. CASE CreateUpFile
  <2>1. \E now : At(now)' BY <1>0, <1>13, UpCreated
  <2> QED BY <2>1 DEF HistoryInv
<1>14. CASE WriteUp
  <2>1. \E now : At(now)' BY <1>0, <1>14, UpWritten
  <2> QED BY <2>1 DEF HistoryInv
<1>15. CASE CreateDownFile \/ WriteDown BY <1>0, <1>n, <1>15, DownWritten
<1>16. CASE UpdateSum \/ StopContainer \/ WaitFails \/ StepFails \/ Kill \/ UNCHANGED vars
  BY <1>0, <1>n, <1>16, Rest
<1> QED BY <1>1, <1>2, <1>3, <1>4, <1>5, <1>6, <1>7, <1>8, <1>9, <1>10, <1>11, <1>12, <1>13,
           <1>14, <1>15, <1>16 DEF Next

LEMMA HistoryMeans ==
  ASSUME KeysDistinct, HistoryInv
  PROVE  UpsRebuildSchema /\ MigrateConverges /\ NothingRefused
<1>0. PICK reached : At(reached) BY DEF HistoryInv
<1>1. Chain(reached) /\ StepInv(reached) BY <1>0 DEF At
<1>2. ASSUME files # <<>>, Newest.whole PROVE reached[Count] = Goal
  <2>1. Count \in 1..Count BY <1>1, <1>2, ChainCounts
  <2> QED BY <1>1, <1>2, <2>1 DEF Chain, Newest, Goal, Count
<1>3. UpsRebuildSchema
  <2>1. Rebuilt(files) = [ok |-> TRUE, db |-> reached[Count]] BY <1>1, HistoryRebuilds
  <2> QED BY <1>2, <2>1 DEF UpsRebuildSchema
<1>4. ASSUME files # <<>>, Newest.whole, schema = Goal, pc \in {"makeDir", "createUp"}
      PROVE  FALSE
  <2>1. current = schema /\ schema \in Schemas
    <3>1. cmd = "migrate" /\ current = reached[Count] BY <1>1, <1>4 DEF StepInv
    <3> QED BY <1>1, <1>2, <1>4, <3>1, Wants DEF Chain
  <2>2. found # <<>> /\ \E order \in Orders : found = Compare(current, schema, order)
    BY <1>1, <1>4 DEF StepInv
  <2> QED BY <2>1, <2>2, NothingToChange
<1>5. MigrateConverges BY <1>1, <1>2, <1>4 DEF MigrateConverges, StepInv
<1>6. NothingRefused BY <1>1 DEF NothingRefused, StepInv
<1> QED BY <1>3, <1>5, <1>6

LEMMA HistoryHolds ==
  ASSUME TidyServer, TidyCatalog PROVE Spec => []HistoryInv
<1>1. HistoryInv /\ [Next]_vars => HistoryInv' BY HistoryNext
<1> QED BY <1>1, InitHistory, PTL DEF Spec

(* However many migrations are generated, and at whatever step a command fails  *)
(* or is killed, in the middle of an up file too: the up scripts can be         *)
(* replayed, and they rebuild the schema file that the newest was generated     *)
(* from, if it was written to its end (cli/migrate.go, cli/diff.go              *)
(* buildCurrentState).                                                          *)
THEOREM HistoriesRebuildTheSchema ==
  ASSUME TidyServer, TidyCatalog PROVE Spec => []UpsRebuildSchema
<1>1. HistoryInv => UpsRebuildSchema BY HistoryMeans DEF TidyCatalog
<1> QED BY <1>1, HistoryHolds, PTL

(* ... no command finds a change in a schema file for which a migration was     *)
(* written to its end, although a new database has comments that its reset      *)
(* takes away (docker.go ResetDatabase, introspect.go loadComments) ...         *)
THEOREM MigrateEndsInSync ==
  ASSUME TidyServer, TidyCatalog PROVE Spec => []MigrateConverges
<1>1. HistoryInv => MigrateConverges BY HistoryMeans DEF TidyCatalog
<1> QED BY <1>1, HistoryHolds, PTL

(* ... and the database refuses no script of a command, neither a half-written  *)
(* migration nor the schema file (cli/diff.go).                                 *)
THEOREM NoScriptRefused ==
  ASSUME TidyServer, TidyCatalog PROVE Spec => []NothingRefused
<1>1. HistoryInv => NothingRefused BY HistoryMeans DEF TidyCatalog
<1> QED BY <1>1, HistoryHolds, PTL

\* The steps after which migrate still has its migration to write: there is room for it.
Before == {"connect", "readDir", "replay", "reset", "applySchema", "compare", "makeDir",
           "createUp"}

CommandTypes ==
  /\ ci \in Modes /\ kills \in 0..MaxKills /\ result \in Results /\ wrote \in Nat
  /\ Len(files) <= MaxFiles
  /\ cmd = "migrate" /\ pc \in Before => Len(files) < MaxFiles

LEMMA TypesInit == Init => CommandTypes
<1>1. {MaxFiles, MaxKills} \subseteq Nat BY CommandAssumption
<1>2. Len(<<>>) = 0 OBVIOUS
<1> QED BY <1>1, <1>2 DEF Init, CommandTypes, Results

LEMMA SameLength ==
  ASSUME NEW S, NEW all \in Seq(S), NEW new, DOMAIN new = DOMAIN all,
         new = [k \in DOMAIN new |-> new[k]]
  PROVE  Len(new) = Len(all)
<1>1. PICK n \in Nat : n = Len(all) /\ DOMAIN all = 1..n OBVIOUS
<1>2. PICK T : T = {new[k] : k \in 1..n} OBVIOUS
<1>3. new \in [1..n -> T] BY <1>1, <1>2
<1> QED BY <1>1, <1>3, FunctionIsList

\* The steps that change the migrations without adding one.
LEMMA SameNumber ==
  ASSUME HistoryInv, MoveDowns \/ WriteUp \/ CreateDownFile \/ WriteDown
  PROVE  Len(files') = Len(files)
<1>1. PICK S : files \in Seq(S) BY DEF HistoryInv, At, Chain
<1>2. DOMAIN files' = DOMAIN files /\ files' = [k \in DOMAIN files' |-> files'[k]]
  <2>1. CASE MoveDowns BY <1>1, <2>1 DEF MoveDowns
  <2>2. CASE WriteUp BY <1>1, <2>2 DEF WriteUp
  <2>3. CASE CreateDownFile BY <1>1, <2>3 DEF CreateDownFile
  <2>4. CASE WriteDown BY <1>1, <2>4 DEF WriteDown
  <2> QED BY <2>1, <2>2, <2>3, <2>4
<1>3. PICK all, new : all = files /\ new = files' OBVIOUS
<1>4. Len(new) = Len(all) BY <1>1, <1>2, <1>3, SameLength
<1> QED BY <1>3, <1>4

LEMMA TypesNext ==
  HistoryInv /\ CommandTypes /\ [Next]_vars => CommandTypes'
<1> SUFFICES ASSUME HistoryInv, CommandTypes, [Next]_vars PROVE CommandTypes' OBVIOUS
<1>0. PICK reached : StepInv(reached) BY DEF HistoryInv, At
<1>n. Len(files) \in Nat /\ MaxFiles \in Nat /\ MaxKills \in Nat /\ wrote \in Nat
  BY CommandAssumption DEF HistoryInv, At, Chain, CommandTypes
<1>m. pc \in {"makeDir", "createUp"} => cmd = "migrate" BY <1>0 DEF StepInv
<1> USE DEF CommandTypes, Before
<1>1. CASE EditSchema BY <1>1 DEF EditSchema
<1>2. CASE MoveDowns BY <1>2, SameNumber DEF MoveDowns
<1>3. ASSUME NEW c \in Commands, Invoke(c) PROVE CommandTypes' BY <1>3 DEF Invoke
<1>4. CASE StartPostgres BY <1>4 DEF StartPostgres
<1>5. CASE ReadDir BY <1>5 DEF ReadDir
<1>6. CASE ReplayScript BY <1>6 DEF ReplayScript, Execute, Results
<1>7. CASE ReadCurrent BY <1>7 DEF ReadCurrent
<1>8. CASE ResetDatabase BY <1>8 DEF ResetDatabase
<1>9. CASE ApplySchema
  <2>1. /\ pc = "applySchema" /\ UNCHANGED <<ci, files, kills, cmd, wrote>>
        /\ result' \in {result, "refused"}
    BY <1>9 DEF ApplySchema, Execute
  <2> QED BY <2>1 DEF Results
<1>10. CASE Introspect BY <1>10 DEF Introspect, Results
<1>11. CASE CompareSchemas
  <2>1. /\ pc = "compare" /\ UNCHANGED <<ci, files, kills, cmd, wrote>>
        /\ result' \in {result, "inSync", "reported"}
    BY <1>11 DEF CompareSchemas
  <2> QED BY <2>1 DEF Results
<1>12. CASE MakeDirectory BY <1>m, <1>12 DEF MakeDirectory
<1>13. CASE CreateUpFile
  <2>1. PICK rec : files' = Append(files, rec) BY <1>13 DEF CreateUpFile
  <2>2. PICK S : files \in Seq(S) BY DEF HistoryInv, At, Chain
  <2>3. Len(files') = Len(files) + 1
    <3>1. files \in Seq(S \cup {rec}) /\ rec \in S \cup {rec} BY <2>2
    <3> QED BY <2>1, <3>1
  <2>4. Len(files) < MaxFiles BY <1>m, <1>13 DEF CreateUpFile
  <2> QED BY <1>n, <1>13, <2>3, <2>4 DEF CreateUpFile
<1>14. CASE WriteUp
  <2>1. pc' \in {"createDown", "writeUp"} /\ wrote' = wrote + 1 /\ UNCHANGED <<ci, kills, result>>
    BY <1>14 DEF WriteUp
  <2> QED BY <1>n, <1>14, <2>1, SameNumber
<1>15. CASE CreateDownFile BY <1>15, SameNumber DEF CreateDownFile
<1>16. CASE WriteDown
  <2>1. pc' \in {"sum", "writeDown"} /\ wrote' = wrote - 1 /\ UNCHANGED <<ci, kills, result>>
    BY <1>16 DEF WriteDown
  <2>2. wrote \in 1..Len(found) BY <1>0, <1>16 DEF StepInv, WriteDown
  <2>3. wrote' \in Nat BY <1>n, <2>1, <2>2
  <2> QED BY <1>16, <2>1, <2>3, SameNumber
<1>17. CASE UpdateSum BY <1>17 DEF UpdateSum, Results
<1>18. CASE StopContainer BY <1>18 DEF StopContainer, Ends, Results
<1>19. CASE WaitFails BY <1>19 DEF WaitFails, Ends, Results
<1>20. CASE StepFails BY <1>20 DEF StepFails, Results
<1>21. CASE Kill BY <1>n, <1>21 DEF Kill, Ends, Results
<1>22. CASE UNCHANGED vars BY <1>22 DEF vars
<1> QED BY <1>1, <1>2, <1>3, <1>4, <1>5, <1>6, <1>7, <1>8, <1>9, <1>10, <1>11, <1>12, <1>13,
           <1>14, <1>15, <1>16, <1>17, <1>18, <1>19, <1>20, <1>21, <1>22 DEF Next

LEMMA TypesMean == HistoryInv /\ CommandTypes /\ CountInv => CommandTypeOK
<1> SUFFICES ASSUME HistoryInv, CommandTypes, CountInv PROVE CommandTypeOK OBVIOUS
<1>1. PICK reached : Chain(reached) /\ StepInv(reached) BY DEF HistoryInv, At
<1>2. containers \in Nat BY DEF CountInv
<1>3. ASSUME pc \in {"writeUp", "writeDown"} PROVE wrote <= Len(found)
  <2>1. CASE pc = "writeUp"
    <3>1. Writing(reached) BY <1>1, <2>1 DEF StepInv
    <3>2. PICK list : /\ Covers(current, schema, list, Changed(current, schema), {})
                      /\ found = ChangesOf(current, schema, list)
                      /\ wrote \in 0..(Len(list) - 1)
      BY <3>1 DEF Writing
    <3>3. Len(list) \in Nat /\ Len(found) = Len(list) BY <3>2, ChangesTyped DEF Covers
    <3> QED BY <3>2, <3>3
  <2>2. CASE pc = "writeDown" BY <1>1, <2>2 DEF StepInv
  <2> QED BY <1>3, <2>1, <2>2
<1>4. db \in Schemas \cup {Fresh, FirstDb} BY <1>1 DEF StepInv, Wanted
<1> QED BY <1>1, <1>2, <1>3, <1>4 DEF CommandTypes, CommandTypeOK, StepInv, Chain

(* The commands keep their types: what they compare are schemas of the catalog within  *)
(* reach of a schema file, a directory never holds more migrations than MaxFiles, and  *)
(* a file is written from the changes there are (cli/migrate.go).                      *)
THEOREM CommandTypesHold ==
  ASSUME TidyServer, TidyCatalog PROVE Spec => []CommandTypeOK
<1>1. Init => CountInv BY CommandAssumption DEF Init, CountInv, Steps
<1> QED BY <1>1, TypesInit, TypesNext, TypesMean, CountNext, HistoryHolds, PTL DEF Spec

-----------------------------------------------------------------------------
(* RoundTrip: one migration, and its rollback. *)

\* Where a round trip is, phase by phase.
Trip ==
  /\ start \in Schemas /\ desired \in Edits(start) /\ phase \in Phases
  /\ phase = "edited" => changes = <<>>
  /\ phase # "edited" => \E order \in Orders : changes = Compare(start, desired, order)
  /\ phase \in {"edited", "generated"} => database = start
  /\ phase = "applied" => database = desired
  /\ phase # "failed"

Reversed ==
  /\ DownsAreAccepted
  /\ phase \in {"rolledBack", "rollbackFailed"}
  /\ \A i \in DOMAIN changes : IsReversible(changes[i])
  => phase = "rolledBack" /\ database = start

TripInv == Trip /\ Reversed /\ database \in States

LEMMA SchemasAreStates == ASSUME NEW s \in Schemas PROVE s \in States
<1>1. \A o \in Objects : s[o] \in [Facets -> Nat] BY AbsentOrDefined
<1>2. PICK V : V = [Facets -> Nat] OBVIOUS
<1>3. s \in [Objects -> Definitions] /\ \A o \in Objects : s[o] \in V BY <1>1, <1>2 DEF Schemas
<1>4. s \in [Objects -> V] BY <1>3
<1> QED BY <1>2, <1>4 DEF States

\* A statement leaves a definition, or none, of every object.
LEMMA EffectTyped ==
  ASSUME NEW d \in States, NEW st \in Statements PROVE Effect(d, st) \in States
<1>1. PICK V : V = [Facets -> Nat] OBVIOUS
<1>2. d \in [Objects -> V] /\ Absent \in V BY <1>1, AbsentDefined DEF States
<1>3. st.obj \in Objects /\ st.def \in V BY <1>1 DEF Statements, Statement
<1>4. PICK o, def : o = st.obj /\ def = st.def OBVIOUS
<1>5. \A v \in V : [d EXCEPT ![o] = v] \in [Objects -> V] BY <1>2, <1>3, <1>4
<1>6. CASE st.op \in {"create", "replace"}
  <2>1. Effect(d, st) = [d EXCEPT ![o] = def] BY <1>4, <1>6 DEF Effect
  <2> QED BY <1>1, <1>3, <1>4, <1>5, <2>1 DEF States
<1>7. CASE st.op = "ensure"
  <2>1. Effect(d, st) = [d EXCEPT ![o] = IF Has(d, o) THEN d[o] ELSE def]
    BY <1>3, <1>4, <1>7 DEF Effect
  <2>2. PICK v : v = IF Has(d, o) THEN d[o] ELSE def OBVIOUS
  <2>3. v \in V BY <1>2, <1>3, <1>4, <2>2
  <2> QED BY <1>1, <1>5, <2>1, <2>2, <2>3 DEF States
<1>8. CASE st.op = "alter"
  <2>1. PICK v : v = [f \in Facets |-> IF f \in KindOf(o).rewrites THEN def[f] ELSE d[o][f]] OBVIOUS
  <2>2. d[o] \in [Facets -> Nat] /\ def \in [Facets -> Nat] BY <1>1, <1>2, <1>3, <1>4
  <2>3. v \in V BY <1>1, <2>1, <2>2
  <2>4. PICK gone : gone = Stripped(d, o, def) OBVIOUS
  <2>5. Effect(d, st) = [x \in Objects |->
           CASE x = o -> [f \in Facets |-> IF f \in KindOf(x).rewrites THEN def[f] ELSE d[x][f]]
             [] x \in gone -> Absent
             [] OTHER -> d[x]]
    BY <1>4, <1>8, <2>4 DEF Effect
  <2>6. \A x \in Objects :
          (CASE x = o -> [f \in Facets |-> IF f \in KindOf(x).rewrites THEN def[f] ELSE d[x][f]]
             [] x \in gone -> Absent
             [] OTHER -> d[x]) \in V
    BY <1>2, <2>1, <2>3
  <2>7. Effect(d, st) \in [Objects -> V] BY <2>5, <2>6
  <2> QED BY <1>1, <2>7 DEF States
<1>9. CASE st.op \in {"drop", "dropIf", "unset"}
  <2>1. Effect(d, st) = [x \in Objects |-> IF x \in Going(d, o) THEN Absent ELSE d[x]]
    BY <1>4, <1>9 DEF Effect
  <2>2. Effect(d, st) \in [Objects -> V] BY <1>2, <2>1
  <2> QED BY <1>1, <2>2 DEF States
<1>10. CASE st.op \notin {"create", "replace", "ensure", "alter", "drop", "dropIf", "unset"}
  <2>1. Effect(d, st) = d BY <1>10 DEF Effect
  <2> QED BY <2>1
<1> QED BY <1>6, <1>7, <1>8, <1>9, <1>10

LEMMA RunTyped ==
  ASSUME NEW d \in States, NEW script \in Seq(Statements) PROVE Run(d, script).db \in States
<1>1. PICK n \in Nat : Len(script) = n OBVIOUS
<1>2. PICK f : Ran(f, d, script, n) /\ Run(d, script) = f[n] BY <1>1, RunFrom
<1>3. PICK T : T = {i \in 0..n : f[i].db \in States} OBVIOUS
<1>4. 0 \in T BY <1>2, <1>3 DEF Ran
<1>5. ASSUME NEW i \in 0..n, i < n, i \in T PROVE i + 1 \in T
  <2>1. i \in 0..(n - 1) /\ i + 1 \in 1..n /\ i + 1 \in 0..n BY <1>5
  <2>2. script[i + 1] \in Statements BY <1>1, <2>1
  <2>3. PICK st, was : st = script[i + 1] /\ was = f[i] OBVIOUS
  <2>4. was.db \in States /\ st \in Statements BY <1>3, <1>5, <2>2, <2>3
  <2>5. f[i + 1] = IF was.ok /\ Accepts(was.db, st) THEN [ok |-> TRUE, db |-> Effect(was.db, st)]
                   ELSE [ok |-> FALSE, db |-> d]
    BY <1>2, <2>1, <2>3 DEF Ran
  <2>6. Effect(was.db, st) \in States BY <2>4, EffectTyped
  <2>7. f[i + 1].db \in States BY <2>5, <2>6
  <2> QED BY <1>3, <2>1, <2>7
<1>6. \A i \in 0..n : i < n /\ i \in T => i + 1 \in T BY <1>5
<1>7. 0..n \subseteq T BY <1>4, <1>6, Induction, Zenon
<1> QED BY <1>2, <1>3, <1>7

LEMMA DownTyped ==
  ASSUME TidyCatalog, NEW s \in Schemas, NEW t \in Edits(s), NEW order \in Orders,
         NEW changes0, changes0 = Compare(s, t, order)
  PROVE  DownScript(changes0) \in Seq(Statements)
<1>1. PICK list : changes0 = ChangesOf(s, t, list) /\ list \in Seq(Objects)
  BY CompareCovers DEF Covers
<1>2. PICK n \in Nat : n = Len(list) /\ DOMAIN list = 1..n BY <1>1
<1>3. PICK last : last = Reverse(changes0) OBVIOUS
<1>4. Len(changes0) = n BY <1>1, <1>2, ChangesTyped
<1>5. last = [k \in 1..n |-> changes0[(n - k) + 1]] BY <1>3, <1>4 DEF Reverse
<1>6. PICK ss : ss = [k \in DOMAIN last |-> DownSQL(last[k])] OBVIOUS
<1>7. PICK Q : Q = Seq(Statements) OBVIOUS
<1>8. ASSUME NEW k \in 1..n PROVE ss[k] \in Q
  <2>1. PICK i \in 1..n : i = (n - k) + 1 OBVIOUS
  <2>2. list[i] \in Objects BY <1>1, <1>2
  <2>3. last[k] = ChangeOf(s, t, list[i]) BY <1>1, <1>2, <1>5, <2>1 DEF ChangesOf
  <2>4. ss[k] = DownSQL(ChangeOf(s, t, list[i])) BY <1>5, <1>6, <2>3
  <2>5. t \in Schemas BY DEF Edits
  <2> QED BY <1>7, <2>2, <2>4, <2>5, SQLTyped
<1>9. ss \in [1..n -> Q] BY <1>5, <1>6, <1>8
<1>10. ss \in Seq(Q) BY <1>9, FunctionIsList
<1>11. FlattenSeq(ss) \in Seq(Statements) BY <1>7, <1>10, FlattenType
<1> QED BY <1>3, <1>6, <1>11 DEF DownScript

LEMMA TripStarts == ASSUME TripInit PROVE TripInv
<1>1. start \in Schemas /\ desired \in Edits(start) /\ changes = <<>> /\ database = start
      /\ phase = "edited" BY DEF TripInit
<1>2. database \in States BY <1>1, SchemasAreStates
<1> QED BY <1>1, <1>2 DEF TripInv, Trip, Reversed, Phases

LEMMA TripStep == ASSUME TidyCatalog, TripInv, [TripNext]_tripVars PROVE TripInv'
<1> USE DEF TripInv, Phases
<1>1. CASE Generate
  <2>1. /\ phase = "edited" /\ phase' = "generated" /\ database' = database
        /\ start' = start /\ desired' = desired
        /\ \E order \in Orders : changes' = Compare(start, desired, order)
    BY <1>1 DEF Generate
  <2>2. Trip' BY <2>1 DEF Trip
  <2> QED BY <2>1, <2>2 DEF Reversed, States
<1>2. CASE RunUp
  <2>1. /\ phase = "generated" /\ start' = start /\ desired' = desired /\ changes' = changes
        /\ database' = Run(database, UpScript(changes)).db
        /\ phase' = IF Run(database, UpScript(changes)).ok THEN "applied" ELSE "failed"
    BY <1>2 DEF RunUp
  <2>2. /\ start \in Schemas /\ desired \in Edits(start) /\ database = start
    BY <2>1 DEF Trip
  <2>3. PICK order \in Orders : changes = Compare(start, desired, order) BY <2>1 DEF Trip
  <2>4. Leads(start, UpScript(changes), desired) BY <2>2, <2>3, ScriptsAreRight
  <2>5. Run(database, UpScript(changes)).ok /\ Run(database, UpScript(changes)).db = desired
    BY <2>2, <2>4 DEF Leads
  <2>6. phase' = "applied" /\ database' = desired BY <2>1, <2>5
  <2>7. Trip' BY <2>1, <2>2, <2>3, <2>6 DEF Trip
  <2>8. database' \in States BY <2>2, <2>6, SchemasAreStates DEF Edits
  <2> QED BY <2>6, <2>7, <2>8 DEF Reversed, States
<1>3. CASE RunDown
  <2>1. /\ phase = "applied" /\ start' = start /\ desired' = desired /\ changes' = changes
        /\ database' = Run(database, DownScript(changes)).db
        /\ phase' = IF Run(database, DownScript(changes)).ok THEN "rolledBack" ELSE "rollbackFailed"
    BY <1>3 DEF RunDown
  <2>2. start \in Schemas /\ desired \in Edits(start) /\ database = desired BY <2>1 DEF Trip
  <2>3. PICK order \in Orders : changes = Compare(start, desired, order) BY <2>1 DEF Trip
  <2>4. DownsAreAccepted /\ (\A i \in DOMAIN changes : IsReversible(changes[i]))
          => Leads(desired, DownScript(changes), start)
    BY <2>2, <2>3, ScriptsAreRight
  <2>5. phase' \in {"rolledBack", "rollbackFailed"} BY <2>1
  <2>6. Trip' BY <2>1, <2>2, <2>3, <2>5 DEF Trip
  <2>7. ASSUME DownsAreAccepted, \A i \in DOMAIN changes : IsReversible(changes[i])
        PROVE  phase' = "rolledBack" /\ database' = start
    <3>1. /\ Run(desired, DownScript(changes)).ok
          /\ Run(desired, DownScript(changes)).db = start BY <2>4, <2>7 DEF Leads
    <3> QED BY <2>1, <2>2, <3>1
  <2>8. Reversed' BY <2>1, <2>7 DEF Reversed
  <2>9. DownScript(changes) \in Seq(Statements) BY <2>2, <2>3, DownTyped
  <2>10. database' \in States BY <2>1, <2>9, RunTyped
  <2> QED BY <2>6, <2>8, <2>10 DEF States
<1>4. CASE UNCHANGED tripVars BY <1>4 DEF tripVars, Trip, Reversed, States
<1> QED BY <1>1, <1>2, <1>3, <1>4 DEF TripNext

LEMMA TripAlways == ASSUME TidyCatalog PROVE TripSpec => []TripInv
<1>1. TripInit => TripInv BY TripStarts
<1>2. TripInv /\ [TripNext]_tripVars => TripInv' BY TripStep
<1> QED BY <1>1, <1>2, PTL DEF TripSpec

(* The up script of every edit that TidyCatalog leaves runs, and makes exactly the schema *)
(* of the schema file (internal/diff/diff.go, Compare).                                   *)
THEOREM UpsReach == ASSUME TidyCatalog PROVE TripSpec => []UpReachesDesired
<1>1. TripInv => UpReachesDesired BY DEF TripInv, Trip, UpReachesDesired
<1> QED BY <1>1, TripAlways, PTL

(* A migration of reversible changes only is undone by its down script, where PostgreSQL   *)
(* takes the edits undone and a dropped role had no limits (internal/diff/diff.go,         *)
(* IsReversible; role.go, DownSQL of the changes).                                         *)
THEOREM DownsReverse ==
  ASSUME TidyCatalog, DownsAreAccepted PROVE TripSpec => []ReversibleMeansReversed
<1>1. TripInv => ReversibleMeansReversed
  BY DEF TripInv, Trip, Reversed, ReversibleMeansReversed
<1> QED BY <1>1, TripAlways, PTL

(* After an up script that ran, Compare finds nothing to migrate, in whatever order the    *)
(* tables come (internal/diff/diff.go, Compare).                                          *)
THEOREM NothingIsLeft == ASSUME TidyCatalog PROVE TripSpec => []NothingLeftToMigrate
<1>1. ASSUME TripInv PROVE NothingLeftToMigrate
  <2>1. SUFFICES ASSUME phase = "applied", NEW order \in Orders
                 PROVE  Compare(database, desired, order) = <<>>
    BY DEF NothingLeftToMigrate
  <2>2. database = desired /\ desired \in Schemas BY <1>1, <2>1 DEF TripInv, Trip, Edits
  <2>3. KeysDistinct BY DEF TidyCatalog
  <2>4. Compare(desired, desired, order) = <<>> BY <2>2, <2>3, NothingToChange
  <2> QED BY <2>2, <2>4
<1>2. TripInv => NothingLeftToMigrate BY <1>1
<1> QED BY <1>2, TripAlways, PTL

(* The changes have the definitions that their statements are written from, and the       *)
(* database has a definition, or none, of every object.                                   *)
THEOREM RoundTripTypes == ASSUME TidyCatalog PROVE TripSpec => []RoundTripTypeOK
<1>1. ASSUME TripInv PROVE RoundTripTypeOK
  <2>1. start \in Schemas /\ desired \in Schemas /\ phase \in Phases /\ database \in States
    BY <1>1 DEF TripInv, Trip, Edits
  <2>2. ASSUME NEW i \in DOMAIN changes
        PROVE  /\ changes[i].op \in {"create", "drop", "alter"}
               /\ changes[i].op = "create" => changes[i].new # Absent /\ changes[i].old = Absent
               /\ changes[i].op = "drop"   => changes[i].new = Absent /\ changes[i].old # Absent
               /\ changes[i].op = "alter"  => changes[i].new # Absent /\ changes[i].old # Absent
    <3>1. CASE phase = "edited"
      <4>1. changes = <<>> BY <1>1, <3>1 DEF TripInv, Trip
      <4> QED BY <4>1
    <3>2. CASE phase # "edited"
      <4>1. PICK order \in Orders : changes = Compare(start, desired, order)
        BY <1>1, <3>2 DEF TripInv, Trip
      <4>2. desired \in Edits(start) BY <1>1 DEF TripInv, Trip
      <4>3. PICK list : /\ changes = ChangesOf(start, desired, list)
                        /\ Covers(start, desired, list, Changed(start, desired), {})
        BY <2>1, <4>1, <4>2, CompareCovers DEF Changed
      <4>4. list \in Seq(Objects) /\ DOMAIN list = 1..Len(list) BY <4>3 DEF Covers
      <4>5. i \in 1..Len(list) BY <4>3, <4>4 DEF ChangesOf
      <4>6. PICK o : o = list[i] OBVIOUS
      <4>7. start[o] # desired[o] BY <4>3, <4>5, <4>6 DEF Covers, Elements, Changed
      <4>8. changes[i] = ChangeOf(start, desired, o) BY <4>3, <4>4, <4>5, <4>6 DEF ChangesOf
      <4> QED BY <4>7, <4>8 DEF ChangeOf, Change, Has
    <3> QED BY <3>1, <3>2
  <2> QED BY <2>1, <2>2 DEF RoundTripTypeOK, States
<1>2. TripInv => RoundTripTypeOK BY <1>1
<1> QED BY <1>2, TripAlways, PTL
===============================================================================
