----------------------------- MODULE MigrationDir -----------------------------
(***************************************************************************)
(* The migrations directory: NAME.sql and NAME.down.sql files, and the     *)
(* checksum file shrugged.sum beside them.  `shrugged migrate` writes all  *)
(* three with plain, unsynchronised file calls (internal/cli/migrate.go),  *)
(* people edit and delete them, and `shrugged apply` validates them        *)
(* (internal/migrate/sum.go).                                              *)
(*                                                                         *)
(* Migration names are timestamps: only their order matters, so a name is  *)
(* a number.  A text is known by how it came about; two texts have the     *)
(* same hash iff they are equal (SHA-256 is taken to be injective).        *)
(***************************************************************************)
EXTENDS Naturals, FiniteSets

CONSTANTS
  Migs,       \* the migration names of this instance
  Initial,    \* the migrations that exist, whole and hashed, at the start
  MaxChanges  \* bound: how often `migrate` writes, or people touch, the directory

ASSUME DirAssumption ==
  /\ Migs \subseteq Nat
  /\ Migs # {}
  /\ IsFiniteSet(Migs)
  /\ Initial \subseteq Migs
  /\ MaxChanges \in Nat

Texts  == {"torn", "whole", "edited"}  \* "torn": a proper prefix of the generated statements
NoFile == "none"
Up(m)   == <<m, "up">>                 \* NAME.sql
Down(m) == <<m, "down">>               \* NAME.down.sql
Files   == Migs \X {"up", "down"}
Listing == [Files -> Texts \cup {NoFile}]
NoListing == [f \in Files |-> NoFile]

VARIABLES
  dir,     \* the text of every file
  sum,     \* shrugged.sum: "empty" (or absent), "torn" (lines missing), "full"
  gen,     \* the running `shrugged migrate`
  changes  \* how often it was written or touched

dirVars == <<dir, sum, gen, changes>>

GenSteps == {"idle", "upCreate", "upWrite", "downCreate", "downWrite",
             "hash", "sumCreate", "sumWrite"}

DirTypeOK ==
  /\ dir \in Listing
  /\ sum \in [state : {"empty", "torn", "full"}, entry : Listing]
  /\ gen \in [step : GenSteps, mig : Migs, hashed : Listing]
  /\ changes \in 0..MaxChanges

InitialDir == [f \in Files |-> IF f[1] \in Initial THEN "whole" ELSE NoFile]

DirInit ==
  /\ dir = InitialDir
  /\ sum = IF Initial = {} THEN [state |-> "empty", entry |-> NoListing]
                           ELSE [state |-> "full", entry |-> InitialDir]
  /\ gen = [step |-> "idle", mig |-> CHOOSE m \in Migs : TRUE, hashed |-> NoListing]
  /\ changes = 0

-----------------------------------------------------------------------------
(* ValidateSum: an absent or empty file passes, a file whose lines do not   *)
(* add up to its first line fails, and otherwise every file that has an     *)
(* entry must have that entry's hash.  A file without an entry and an entry *)
(* without a file are both accepted.                                        *)
NoValidateSum == TRUE

ValidateSum ==
  \/ sum.state = "empty"
  \/ /\ sum.state = "full"
     /\ \A f \in Files : sum.entry[f] # NoFile /\ dir[f] # NoFile => sum.entry[f] = dir[f]

-----------------------------------------------------------------------------
(* `shrugged migrate`, from the moment it has changes to write.             *)
Goto(step) == gen' = [gen EXCEPT !.step = step]

\* The name is the current time: no file of the directory is later, and one of
\* the same second is overwritten without a word.
GenStart(m) ==
  /\ gen.step = "idle"
  /\ changes < MaxChanges
  /\ changes' = changes + 1
  /\ \A k \in Migs : dir[Up(k)] # NoFile => k <= m
  /\ gen' = [gen EXCEPT !.step = "upCreate", !.mig = m]
  /\ UNCHANGED <<dir, sum>>

CreateFile(step, f, next) ==
  /\ gen.step = step
  /\ dir' = [dir EXCEPT ![f] = "torn"]
  /\ Goto(next)
  /\ UNCHANGED <<sum, changes>>

WriteFile(step, f, next) ==
  /\ gen.step = step
  /\ dir' = [dir EXCEPT ![f] = "whole"]
  /\ Goto(next)
  /\ UNCHANGED <<sum, changes>>

GenCreateUp   == CreateFile("upCreate", Up(gen.mig), "upWrite")
GenWriteUp    == WriteFile("upWrite", Up(gen.mig), "downCreate")

GenCreateDownUnflushed == CreateFile("downCreate", Down(gen.mig), "hash")

GenCreateDown == CreateFile("downCreate", Down(gen.mig), "downWrite")
GenWriteDown  == WriteFile("downWrite", Down(gen.mig), "hash")

\* UpdateSum: GenerateSum reads every file, whatever it holds now; with no file
\* at all WriteSum returns without touching shrugged.sum.
GenHash ==
  /\ gen.step = "hash"
  /\ gen' = IF dir = NoListing THEN [gen EXCEPT !.step = "idle"]
                               ELSE [gen EXCEPT !.step = "sumCreate", !.hashed = dir]
  /\ UNCHANGED <<dir, sum, changes>>

\* os.Create truncates the old checksums before the new ones are written.
GenCreateSum ==
  /\ gen.step = "sumCreate"
  /\ sum' = [state |-> "empty", entry |-> NoListing]
  /\ Goto("sumWrite")
  /\ UNCHANGED <<dir, changes>>

\* The total line and the entries go out line by line.
GenWriteSumLine ==
  /\ gen.step = "sumWrite"
  /\ sum.state = "empty"
  /\ sum' = [sum EXCEPT !.state = "torn"]
  /\ UNCHANGED <<dir, gen, changes>>

GenWriteSum ==
  /\ gen.step = "sumWrite"
  /\ sum.state = "torn"
  /\ sum' = [state |-> "full", entry |-> gen.hashed]
  /\ Goto("idle")
  /\ UNCHANGED <<dir, changes>>

\* The process is killed, or a file call fails: what is written stays written.
GenStop ==
  /\ gen.step # "idle"
  /\ Goto("idle")
  /\ UNCHANGED <<dir, sum, changes>>

(* What people do to the directory: edit a file, add one (a merged branch), *)
(* or delete one.                                                           *)
Touch(f, text) ==
  /\ changes < MaxChanges
  /\ dir[f] # text
  /\ dir' = [dir EXCEPT ![f] = text]
  /\ changes' = changes + 1
  /\ UNCHANGED <<sum, gen>>

GenStep ==
  \/ GenCreateUp \/ GenWriteUp \/ GenCreateDown \/ GenWriteDown
  \/ GenHash \/ GenCreateSum \/ GenWriteSumLine \/ GenWriteSum

DirNext ==
  \/ \E m \in Migs : GenStart(m)
  \/ GenStep
  \/ GenStop
  \/ \E f \in Files, text \in {"edited", NoFile} : Touch(f, text)

DirSpec == DirInit /\ [][DirNext]_dirVars

-----------------------------------------------------------------------------
\* The checksums `migrate` completes never vouch for a half-written file of the
\* migration it has just written, whatever was interrupted or edited before
\* (cli/migrate.go:87-123).
OwnFilesHashedWhole ==
  [][sum.state # "full" /\ sum'.state = "full" =>
       \A f \in {Up(gen.mig), Down(gen.mig)} : sum'.entry[f] # "torn"]_dirVars

\* A file that ValidateSum reports as modified stays reported until it is touched
\* again or hashed anew: sum_test.go:192 "ValidateSum() should return error for
\* modified file".
ModifiedStaysReported ==
  [][~ValidateSum /\ dir' = dir => ~ValidateSum' \/ sum'.state = "full"]_dirVars
=============================================================================
