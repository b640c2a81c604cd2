------------------------------ MODULE ExclusiveUse ------------------------------
(***************************************************************************)
(* What the database pool promises to those who use it: a database is in   *)
(* at most one hand at a time, and changes hands in one indivisible step.  *)
(***************************************************************************)
CONSTANTS
  Names,  \* databases
  Hands   \* who may have one

VARIABLE owners   \* owners[n]: in whose hands database n is

Init == owners = [n \in Names |-> {}]

Give(n, hands) == owners' = [owners EXCEPT ![n] = hands]

Create(n, h)   == owners[n] = {} /\ Give(n, {h})
Pass(n, h, h2) == owners[n] = {h} /\ Give(n, {h2})
Retire(n, h)   == owners[n] = {h} /\ Give(n, {})

\* The process that owned them is gone.
Forget == owners' = [n \in Names |-> {}]

\* All databases of one hand move to another.
PassAll(h, h2) ==
  owners' = [n \in Names |-> IF owners[n] = {h} THEN {h2} ELSE owners[n]]

Change ==
  \/ \E n \in Names, h \in Hands :
       \/ Create(n, h)
       \/ Retire(n, h)
       \/ \E h2 \in Hands : Pass(n, h, h2)
  \/ \E h, h2 \in Hands : PassAll(h, h2)
  \/ Forget

\* A step in which nothing changes hands is none.
Next == owners' # owners /\ Change

Spec == Init /\ [][Next]_owners
=============================================================================
