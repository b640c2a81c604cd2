---------------------------- MODULE MigrationLedger ----------------------------
(***************************************************************************)
(* What the table shrugged_migrations promises its reader                  *)
(* (`shrugged status`): a migration is recorded exactly while its objects  *)
(* exist, and the recorded checksum is that of the script that made them.  *)
(* Applying and rolling back are single, indivisible steps; the objects of *)
(* a migration that cannot be undone stay when its row goes.               *)
(***************************************************************************)
CONSTANTS
  Migs,        \* migration names
  Texts,       \* texts of scripts; the checksum of a text is the text
  Absent,      \* no row, or no objects
  Recorded,    \* migrations applied at the start
  Lasting,     \* migrations that cannot be undone
  NoChecksum,  \* their rows' checksum: they predate the column
  Original     \* and their text

VARIABLES ledger, effect

Init ==
  /\ ledger = [m \in Migs |-> IF m \in Recorded THEN NoChecksum ELSE Absent]
  /\ effect = [m \in Migs |-> IF m \in Recorded THEN Original ELSE Absent]

Apply(m, text) ==
  /\ ledger[m] = Absent
  /\ effect[m] = Absent
  /\ ledger' = [ledger EXCEPT ![m] = text]
  /\ effect' = [effect EXCEPT ![m] = text]

Rollback(m) ==
  /\ ledger[m] # Absent
  /\ effect[m] # Absent
  /\ ledger' = [ledger EXCEPT ![m] = Absent]
  /\ effect' = IF m \in Lasting THEN effect ELSE [effect EXCEPT ![m] = Absent]

Next ==
  \E m \in Migs : \/ \E text \in Texts : Apply(m, text)
                  \/ Rollback(m)

Spec == Init /\ [][Next]_<<ledger, effect>>
=============================================================================
