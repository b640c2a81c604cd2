------------------------------ MODULE RoundTrip ------------------------------
(***************************************************************************)
(* One generated migration, from every pair of schemas an edit of the      *)
(* schema file may separate: Compare writes the two scripts, the up script *)
(* runs on a database that has the current schema, the down script on the  *)
(* result.                                                                 *)
(***************************************************************************)
EXTENDS SchemaEdits

VARIABLES start, desired, changes, database, phase

tripVars == <<start, desired, changes, database, phase>>

Phases == {"edited", "generated", "applied", "failed", "rolledBack", "rollbackFailed"}

RoundTripTypeOK ==
  /\ start \in Schemas /\ desired \in Schemas
  /\ database \in [Objects -> [Facets -> Nat]]
  /\ phase \in Phases
  /\ \A i \in DOMAIN changes : LET c == changes[i] IN
       CASE c.op = "create" -> c.new # Absent /\ c.old = Absent
         [] c.op = "drop"   -> c.new = Absent /\ c.old # Absent
         [] c.op = "alter"  -> c.new # Absent /\ c.old # Absent

TripInit ==
  /\ start \in Schemas
  /\ desired \in Edits(start)
  /\ changes = <<>>
  /\ database = start
  /\ phase = "edited"

Generate ==
  /\ phase = "edited"
  /\ \E order \in Orders : changes' = Compare(start, desired, order)
  /\ phase' = "generated"
  /\ UNCHANGED <<start, desired, database>>

RunUp ==
  /\ phase = "generated"
  /\ LET run == Run(database, UpScript(changes))
     IN  /\ database' = run.db
         /\ phase' = IF run.ok THEN "applied" ELSE "failed"
  /\ UNCHANGED <<start, desired, changes>>

RunDown ==
  /\ phase = "applied"
  /\ LET run == Run(database, DownScript(changes))
     IN  /\ database' = run.db
         /\ phase' = IF run.ok THEN "rolledBack" ELSE "rollbackFailed"
  /\ UNCHANGED <<start, desired, changes>>

TripNext == Generate \/ RunUp \/ RunDown
TripSpec == TripInit /\ [][TripNext]_tripVars
-----------------------------------------------------------------------------
(* The up script runs, and leaves exactly the schema of the schema file      *)
(* (cli/migrate.go: the statements written for diff.Compare's changes).      *)
UpReachesDesired ==
  /\ phase # "failed"
  /\ phase = "applied" => database = desired

(* When IsReversible holds of every change, the down script undoes the up    *)
(* script; the user is warned of exactly the other migrations.               *)
ReversibleMeansReversed ==
  (\A i \in DOMAIN changes : IsReversible(changes[i]))
    => /\ phase # "rollbackFailed"
       /\ phase = "rolledBack" => database = start

(* A migration that ran leaves nothing to migrate.                           *)
NothingLeftToMigrate ==
  phase = "applied" => \A order \in Orders : Compare(database, desired, order) = <<>>
===============================================================================
