------------------------------- MODULE PoolProofs -------------------------------
(***************************************************************************)
(* DatabasePool implements ExclusiveUse, for any number of requests and    *)
(* any size of the pool.                                                   *)
(*                                                                         *)
(* Nobody compares owners in the code: that a database is in one hand      *)
(* follows from the queue never holding a name twice, from a request that  *)
(* is past Acquire having taken its name out of the queue or out of the    *)
(* counter, and from every name in use being below the counter, which only *)
(* a process without databases sets back.                                  *)
(***************************************************************************)
EXTENDS DatabasePool, FiniteSetTheorems, TLAPS

USE PoolAssumption

Holding(r) == at[r] \notin {"new", "acquire", "done"}

\* What each hand holds has a number below the counter.
Numbered ==
  /\ Pooled \cup drops \cup closing \subseteq 0..(counter - 1)
  /\ \A r \in Requests : Holding(r) => held[r] \in 0..(counter - 1)
  /\ \A r \in Requests : ~Holding(r) => held[r] = NoName

\* No two hands hold the same database, and the queue holds none twice.
Disjoint ==
  /\ \A i, j \in DOMAIN databases : i # j => databases[i] # databases[j]
  /\ \A r, s \in Requests : r # s /\ held[r] = held[s] => held[r] = NoName
  /\ \A r \in Requests : held[r] \notin Pooled \cup drops \cup closing
  /\ Pooled \cap (drops \cup closing) = {}
  /\ drops \cap closing = {}

Idle(r) == at[r] \in {"new", "done"}

\* A process that is down holds nothing.
DownIsEmpty ==
  proc = "down" =>
    /\ databases = <<>>
    /\ drops = {}
    /\ closing = {}
    /\ \A r \in Requests : Idle(r)

\* While the pool is warmed nobody else is there, and no number is skipped.
StartIsAlone ==
  proc = "start" =>
    /\ counter = Len(databases)
    /\ drops = {}
    /\ closing = {}
    /\ \A r \in Requests : Idle(r)

\* Shutdown takes the pool once.
ClosedOnce == proc \notin {"closing", "closingLate"} => closing = {}

OwnersTypeOK ==
  /\ counter \in 0..MaxNames
  /\ databases \in Seq(Names)
  /\ drops \in SUBSET Names
  /\ closing \in SUBSET Names
  /\ at \in [Requests -> RequestSteps]
  /\ held \in [Requests -> Names \cup {NoName}]

OwnersInv ==
  OwnersTypeOK /\ Numbered /\ Disjoint /\ DownIsEmpty /\ StartIsAlone /\ ClosedOnce

-----------------------------------------------------------------------------
LEMMA MaxNamesType == MaxNames \in Nat
  BY FS_CardinalityType DEF MaxNames, PoolAssumption

\* A queue without duplicates: what Head and Tail, and Append, do to its elements.
LEMMA QueueTail ==
  ASSUME NEW S, NEW q \in Seq(S), q # <<>>,
         \A i, j \in DOMAIN q : i # j => q[i] # q[j]
  PROVE  /\ Head(q) = q[1] /\ 1 \in DOMAIN q /\ Head(q) \in S
         /\ Tail(q) \in Seq(S)
         /\ \A i, j \in DOMAIN Tail(q) : i # j => Tail(q)[i] # Tail(q)[j]
         /\ {Tail(q)[i] : i \in DOMAIN Tail(q)} = {q[i] : i \in DOMAIN q} \ {Head(q)}
  <1>1. Len(q) \in Nat /\ Len(q) >= 1 /\ DOMAIN q = 1..Len(q)
    OBVIOUS
  <1>2. Head(q) = q[1] /\ 1 \in DOMAIN q /\ Head(q) \in S /\ Tail(q) \in Seq(S)
    BY <1>1
  <1>3. /\ DOMAIN Tail(q) = 1..(Len(q) - 1)
        /\ \A i \in 1..(Len(q) - 1) : Tail(q)[i] = q[i + 1] /\ i + 1 \in DOMAIN q
    BY <1>1
  <1>4. \A i, j \in DOMAIN Tail(q) : i # j => Tail(q)[i] # Tail(q)[j]
    BY <1>1, <1>3
  <1>5. ASSUME NEW i \in DOMAIN Tail(q)
        PROVE  Tail(q)[i] \in {q[k] : k \in DOMAIN q} \ {Head(q)}
    BY <1>1, <1>2, <1>3, <1>5
  <1>6. ASSUME NEW k \in DOMAIN q, q[k] # Head(q)
        PROVE  \E i \in DOMAIN Tail(q) : Tail(q)[i] = q[k]
    <2>1. k # 1 /\ k - 1 \in DOMAIN Tail(q) /\ (k - 1) + 1 = k
      BY <1>1, <1>2, <1>3, <1>6
    <2> QED
      BY <1>3, <2>1
  <1> QED
    BY <1>2, <1>4, <1>5, <1>6

\* A database that is put back is the queue's last, and once in it.
LEMMA QueueAppend ==
  ASSUME NEW n \in Names, databases \in Seq(Names), databases' = Append(databases, n),
         \A i, j \in DOMAIN databases : i # j => databases[i] # databases[j],
         n \notin Pooled
  PROVE  /\ databases' \in Seq(Names) /\ Len(databases') = Len(databases) + 1
         /\ \A i, j \in DOMAIN databases' : i # j => databases'[i] # databases'[j]
         /\ Pooled' = Pooled \cup {n}
  <1>1. Len(databases) \in Nat /\ DOMAIN databases = 1..Len(databases)
    OBVIOUS
  <1>2. /\ databases' \in Seq(Names) /\ Len(databases') = Len(databases) + 1
        /\ DOMAIN databases' = 1..(Len(databases) + 1)
        /\ \A i \in 1..Len(databases) : databases'[i] = databases[i]
        /\ databases'[Len(databases) + 1] = n
    BY <1>1
  <1>3. \A i \in DOMAIN databases' : i \in DOMAIN databases \/ i = Len(databases) + 1
    BY <1>1, <1>2
  <1>4. \A i \in DOMAIN databases : i \in DOMAIN databases' /\ databases'[i] = databases[i]
    BY <1>1, <1>2
  <1>5. Len(databases) + 1 \in DOMAIN databases' /\ Len(databases) + 1 \notin DOMAIN databases
    BY <1>1, <1>2
  <1> DEFINE last == Len(databases) + 1
  <1>6. \A i, j \in DOMAIN databases' : i # j => databases'[i] # databases'[j]
    <2>1. \A i \in DOMAIN databases : databases[i] # n
      BY DEF Pooled
    <2>2. databases'[last] = n
      BY <1>2
    <2> HIDE DEF last
    <2> QED
      BY <1>3, <1>4, <2>1, <2>2 DEF last
  <1>7. Pooled' = Pooled \cup {n}
    <2>1. Pooled' \subseteq Pooled \cup {n}
      BY <1>2, <1>3, <1>4 DEF Pooled
    <2>2. Pooled \subseteq Pooled'
      BY <1>4 DEF Pooled
    <2>3. n \in Pooled'
      BY <1>2, <1>5 DEF Pooled
    <2> QED
      BY <2>1, <2>2, <2>3
  <1> QED
    BY <1>2, <1>6, <1>7

LEMMA InitOwners == Init => OwnersInv
  <1> SUFFICES ASSUME Init PROVE OwnersInv
    OBVIOUS
  <1>1. OwnersTypeOK
    BY MaxNamesType DEF Init, OwnersTypeOK, RequestSteps, Names
  <1>2. Pooled = {}
    BY DEF Init, Pooled
  <1>3. Numbered
    BY <1>2 DEF Init, Numbered, Holding
  <1>4. Disjoint
    BY <1>2 DEF Init, Disjoint
  <1>5. DownIsEmpty /\ StartIsAlone /\ ClosedOnce
    BY DEF Init, DownIsEmpty, StartIsAlone, ClosedOnce, Idle
  <1> QED
    BY <1>1, <1>3, <1>4, <1>5 DEF OwnersInv

-----------------------------------------------------------------------------
(* What each step does to the owners.                                        *)

Own == [n \in Names |-> Owners(n)]

LEMMA OneOwner ==
  ASSUME OwnersInv, NEW n \in Names
  PROVE  /\ n \in Pooled  => Owners(n) = {"pool"}
         /\ n \in drops   => Owners(n) = {"drops"}
         /\ n \in closing => Owners(n) = {"closing"}
         /\ \A r \in Requests : held[r] = n => Owners(n) = {r}
  <1>1. n # NoName
    BY DEF Names, NoName
  <1> QED
    BY <1>1 DEF OwnersInv, Disjoint, Owners

LEMMA HeldName ==
  ASSUME OwnersInv, NEW r \in Requests, Holding(r)
  PROVE  held[r] \in Names /\ held[r] # NoName
  BY MaxNamesType DEF OwnersInv, OwnersTypeOK, Numbered, Names, NoName

\* A step that moves no database, and keeps every request on its side of Acquire.
LEMMA NothingMoves ==
  ASSUME OwnersInv, UNCHANGED ownerVars,
         at' \in [Requests -> RequestSteps],
         \A r \in Requests : Holding(r)' = Holding(r),
         proc' # proc \/ at' # at => proc' \notin {"down", "start"},
         proc' # proc => closing = {}
  PROVE  OwnersInv' /\ UNCHANGED Own
  <1>1. UNCHANGED Pooled
    BY DEF Pooled, ownerVars
  <1>2. OwnersInv'
    BY <1>1 DEF OwnersInv, OwnersTypeOK, Numbered, Disjoint, DownIsEmpty, StartIsAlone, ClosedOnce,
       Idle, ownerVars
  <1>3. UNCHANGED Own
    BY <1>1 DEF Own, Owners, ownerVars
  <1> QED
    BY <1>2, <1>3

\* A step that gives one database to other hands.
LEMMA OneMoves ==
  ASSUME NEW n \in Names, NEW hands, Owners(n)' = hands,
         \A k \in Names : k # n => Owners(k)' = Owners(k)
  PROVE  Own' = [Own EXCEPT ![n] = hands]
  BY DEF Own

LEMMA ServingProcess ==
  ASSUME OwnersInv, NEW r \in Requests, ~Idle(r)
  PROVE  proc \notin {"down", "start"}
  BY DEF OwnersInv, DownIsEmpty, StartIsAlone

LEMMA HeadOfPool ==
  ASSUME OwnersInv, databases # <<>>
  PROVE  LET n == Head(databases) IN
         /\ n \in Names /\ n \in Pooled
         /\ Tail(databases) \in Seq(Names)
         /\ \A i, j \in DOMAIN Tail(databases) : i # j => Tail(databases)[i] # Tail(databases)[j]
         /\ {Tail(databases)[i] : i \in DOMAIN Tail(databases)} = Pooled \ {n}
  <1>1. databases \in Seq(Names) /\ \A i, j \in DOMAIN databases : i # j => databases[i] # databases[j]
    BY DEF OwnersInv, OwnersTypeOK, Disjoint
  <1> QED
    BY <1>1, QueueTail DEF Pooled

LEMMA AcquirePooledMoves ==
  ASSUME OwnersInv, NEW r \in Requests, AcquirePooled(r)
  PROVE  OwnersInv' /\ Use!Change
  <1>0. PICK n \in Names : n = Head(databases)
    BY HeadOfPool DEF AcquirePooled
  <1>1. /\ n \in Pooled
        /\ databases' \in Seq(Names)
        /\ \A i, j \in DOMAIN databases' : i # j => databases'[i] # databases'[j]
        /\ Pooled' = Pooled \ {n}
    <2>1. databases # <<>> /\ databases' = Tail(databases)
      BY DEF AcquirePooled
    <2>2. Pooled' = {databases'[i] : i \in DOMAIN databases'}
      BY DEF Pooled
    <2> QED
      BY <1>0, <2>1, <2>2, HeadOfPool
  <1>2. ~Holding(r) /\ held[r] = NoName
    BY DEF AcquirePooled, Holding, OwnersInv, Numbered
  <1>3. /\ at' = [at EXCEPT ![r] = "reset"] /\ held' = [held EXCEPT ![r] = n]
        /\ UNCHANGED <<proc, counter, drops, closing>>
    BY <1>0 DEF AcquirePooled, Go
  <1>4. /\ at'[r] = "reset" /\ held'[r] = n
        /\ \A s \in Requests \ {r} : at'[s] = at[s] /\ held'[s] = held[s]
    BY <1>3 DEF OwnersInv, OwnersTypeOK
  <1>5. \A s \in Requests : Holding(s)' <=> Holding(s) \/ s = r
    BY <1>4 DEF Holding
  <1>6. OwnersTypeOK'
    BY <1>1, <1>3 DEF OwnersInv, OwnersTypeOK, RequestSteps
  <1>7. Numbered'
    BY <1>1, <1>3, <1>4, <1>5 DEF OwnersInv, Numbered
  <1>8. Disjoint'
    BY <1>1, <1>3, <1>4 DEF OwnersInv, Disjoint
  <1>9. DownIsEmpty' /\ StartIsAlone' /\ ClosedOnce'
    BY <1>3, ServingProcess DEF AcquirePooled, Idle, OwnersInv, DownIsEmpty, StartIsAlone, ClosedOnce
  <1>10. Use!Change
    <2>1. Owners(n) = {"pool"}
      BY <1>1, OneOwner
    <2>2. Owners(n)' = {r}
      BY <1>1, <1>3, <1>4, <1>8, OneOwner DEF Owners, OwnersInv, Disjoint
    <2>3. \A k \in Names : k # n => Owners(k)' = Owners(k)
      BY <1>1, <1>2, <1>3, <1>4 DEF Owners, Names, NoName
    <2>4. Own' = [Own EXCEPT ![n] = {r}] /\ Own[n] = {"pool"}
      BY <2>1, <2>2, <2>3, OneMoves DEF Own
    <2>5. Use!Pass(n, "pool", r)
      BY <2>4 DEF Use!Pass, Use!Give, Own
    <2> QED
      BY <2>5 DEF Use!Change, Hands
  <1> QED
    BY <1>6, <1>7, <1>8, <1>9, <1>10 DEF OwnersInv

LEMMA AcquireNewMoves ==
  ASSUME OwnersInv, NEW r \in Requests, AcquireNew(r)
  PROVE  OwnersInv' /\ Use!Change
  <1>1. PICK n \in Names : n = counter
    BY MaxNamesType DEF AcquireNew, OwnersInv, OwnersTypeOK, Names
  <1>2. ~Holding(r) /\ held[r] = NoName
    BY DEF AcquireNew, Holding, OwnersInv, Numbered
  <1>3. /\ at' = [at EXCEPT ![r] = "create"] /\ held' = [held EXCEPT ![r] = n]
        /\ UNCHANGED <<proc, databases, drops, closing>>
        /\ counter' = counter + 1 /\ counter' \in 0..MaxNames
    BY <1>1, MaxNamesType DEF AcquireNew, Go, OwnersInv, OwnersTypeOK
  <1>4. /\ at'[r] = "create" /\ held'[r] = n
        /\ \A s \in Requests \ {r} : at'[s] = at[s] /\ held'[s] = held[s]
    BY <1>3 DEF OwnersInv, OwnersTypeOK
  <1>5. \A s \in Requests : Holding(s)' <=> Holding(s) \/ s = r
    BY <1>4 DEF Holding
  <1>6. Pooled' = Pooled
    BY <1>3 DEF Pooled
  <1>7. OwnersTypeOK'
    BY <1>3 DEF OwnersInv, OwnersTypeOK, RequestSteps
  <1>8. Numbered'
    BY <1>1, <1>3, <1>4, <1>5, <1>6 DEF OwnersInv, OwnersTypeOK, Numbered
  <1>9. /\ n \notin Pooled \cup drops \cup closing
        /\ \A s \in Requests : held[s] # n
    BY <1>1 DEF OwnersInv, OwnersTypeOK, Numbered, Names, NoName
  <1>10. Disjoint'
    BY <1>3, <1>4, <1>6, <1>9 DEF OwnersInv, Disjoint
  <1>11. DownIsEmpty' /\ StartIsAlone' /\ ClosedOnce'
    BY <1>3, ServingProcess DEF AcquireNew, Idle, OwnersInv, DownIsEmpty, StartIsAlone, ClosedOnce
  <1>12. Use!Change
    <2>1. Owners(n) = {}
      BY <1>9 DEF Owners
    <2>2. Owners(n)' = {r}
      BY <1>3, <1>4, <1>6, <1>9 DEF Owners
    <2>3. \A k \in Names : k # n => Owners(k)' = Owners(k)
      BY <1>2, <1>3, <1>4, <1>6 DEF Owners, Names, NoName
    <2>4. Own' = [Own EXCEPT ![n] = {r}] /\ Own[n] = {}
      BY <2>1, <2>2, <2>3, OneMoves DEF Own
    <2>5. Use!Create(n, r)
      BY <2>4 DEF Use!Create, Use!Give, Own
    <2> QED
      BY <2>5 DEF Use!Change, Hands
  <1> QED
    BY <1>7, <1>8, <1>10, <1>11, <1>12 DEF OwnersInv

\* A request gives its database to nobody: DropTaken and CreateFails.
LEMMA RequestDrops ==
  ASSUME OwnersInv, NEW r \in Requests, Holding(r), NEW step \in {"acquire", "done"},
         held' = [held EXCEPT ![r] = NoName],
         at' = [at EXCEPT ![r] = step],
         UNCHANGED <<proc, counter, databases, drops, closing>>
  PROVE  OwnersInv' /\ Use!Change
  <1>1. PICK n \in Names : n = held[r] /\ n # NoName
    BY HeldName
  <1>2. /\ at'[r] = step /\ held'[r] = NoName
        /\ \A s \in Requests \ {r} : at'[s] = at[s] /\ held'[s] = held[s]
    BY DEF OwnersInv, OwnersTypeOK
  <1>3. \A s \in Requests : Holding(s)' <=> Holding(s) /\ s # r
    BY <1>2 DEF Holding
  <1>4. Pooled' = Pooled
    BY DEF Pooled
  <1>5. OwnersTypeOK'
    BY DEF OwnersInv, OwnersTypeOK, RequestSteps
  <1>6. Numbered'
    BY <1>2, <1>3, <1>4 DEF OwnersInv, Numbered
  <1>7. NoName \notin Pooled \cup drops \cup closing
    BY DEF OwnersInv, Numbered, NoName, OwnersTypeOK
  <1>8. Disjoint'
    BY <1>2, <1>4, <1>7 DEF OwnersInv, Disjoint
  <1>9. DownIsEmpty' /\ StartIsAlone' /\ ClosedOnce'
    BY ServingProcess DEF Holding, Idle, OwnersInv, DownIsEmpty, StartIsAlone, ClosedOnce
  <1>10. Use!Change
    <2>1. Owners(n) = {r} /\ n \notin Pooled \cup drops \cup closing
      BY <1>1, OneOwner DEF OwnersInv, Disjoint
    <2>2. Owners(n)' = {}
      BY <1>1, <1>2, <1>4, <2>1 DEF Owners, OwnersInv, Disjoint
    <2>3. \A k \in Names : k # n => Owners(k)' = Owners(k)
      BY <1>1, <1>2, <1>4 DEF Owners, Names, NoName
    <2>4. Own' = [Own EXCEPT ![n] = {}] /\ Own[n] = {r}
      BY <2>1, <2>2, <2>3, OneMoves DEF Own
    <2>5. Use!Retire(n, r)
      BY <2>4 DEF Use!Retire, Use!Give, Own
    <2> QED
      BY <2>5 DEF Use!Change, Hands
  <1> QED
    BY <1>5, <1>6, <1>8, <1>9, <1>10 DEF OwnersInv

LEMMA ReleaseMoves ==
  ASSUME OwnersInv, NEW r \in Requests, Release(r)
  PROVE  OwnersInv' /\ Use!Change
  <1>1. Holding(r)
    BY DEF Release, Holding
  <1>2. PICK n \in Names : n = held[r] /\ n # NoName
    BY <1>1, HeldName
  <1>3. /\ at' = [at EXCEPT ![r] = "done"] /\ held' = [held EXCEPT ![r] = NoName]
        /\ UNCHANGED <<proc, counter, closing>>
    BY DEF Release, Answer, Go
  <1>4. /\ at'[r] = "done" /\ held'[r] = NoName
        /\ \A s \in Requests \ {r} : at'[s] = at[s] /\ held'[s] = held[s]
    BY <1>3 DEF OwnersInv, OwnersTypeOK
  <1>5. \A s \in Requests : Holding(s)' <=> Holding(s) /\ s # r
    BY <1>4 DEF Holding
  <1>6. n \notin Pooled \cup drops \cup closing /\ n \in 0..(counter - 1)
    BY <1>1, <1>2 DEF OwnersInv, Disjoint, Numbered
  <1>7. NoName \notin Pooled \cup drops \cup closing
    BY DEF OwnersInv, Numbered, NoName, OwnersTypeOK
  <1>8. DownIsEmpty' /\ StartIsAlone' /\ ClosedOnce'
    BY <1>1, <1>3, ServingProcess DEF Holding, Idle, OwnersInv, DownIsEmpty, StartIsAlone, ClosedOnce
  <1>9. Owners(n) = {r}
    BY <1>2, OneOwner
  <1>10. CASE Len(databases) < MaxSize
    <2>1. databases' = Append(databases, n) /\ drops' = drops
      BY <1>2, <1>10 DEF Release
    <2>2. /\ databases' \in Seq(Names)
          /\ \A i, j \in DOMAIN databases' : i # j => databases'[i] # databases'[j]
          /\ Pooled' = Pooled \cup {n}
      <3>1. /\ databases \in Seq(Names) /\ n \notin Pooled
            /\ \A i, j \in DOMAIN databases : i # j => databases[i] # databases[j]
        BY <1>6 DEF OwnersInv, OwnersTypeOK, Disjoint
      <3> QED
        BY <2>1, <3>1, QueueAppend
    <2>3. OwnersTypeOK'
      BY <1>3, <2>1, <2>2 DEF OwnersInv, OwnersTypeOK, RequestSteps
    <2>4. Numbered'
      BY <1>3, <1>4, <1>5, <1>6, <2>1, <2>2 DEF OwnersInv, Numbered
    <2>5. Disjoint'
      BY <1>2, <1>3, <1>4, <1>6, <1>7, <2>1, <2>2 DEF OwnersInv, Disjoint
    <2>6. Owners(n)' = {"pool"}
      BY <1>2, <1>3, <1>4, <1>6, <2>1, <2>2 DEF Owners, OwnersInv, Disjoint
    <2>7. \A k \in Names : k # n => Owners(k)' = Owners(k)
      BY <1>2, <1>3, <1>4, <2>1, <2>2 DEF Owners, Names, NoName
    <2>8. Own' = [Own EXCEPT ![n] = {"pool"}] /\ Own[n] = {r}
      BY <1>9, <2>6, <2>7, OneMoves DEF Own
    <2>9. Use!Pass(n, r, "pool")
      BY <2>8 DEF Use!Pass, Use!Give, Own
    <2>10. Use!Change
      BY <2>9 DEF Use!Change, Hands
    <2> QED
      BY <1>8, <2>3, <2>4, <2>5, <2>10 DEF OwnersInv
  <1>11. CASE ~(Len(databases) < MaxSize)
    <2>1. databases' = databases /\ drops' = drops \cup {n}
      BY <1>2, <1>11 DEF Release
    <2>2. Pooled' = Pooled
      BY <2>1 DEF Pooled
    <2>3. OwnersTypeOK'
      BY <1>3, <2>1 DEF OwnersInv, OwnersTypeOK, RequestSteps
    <2>4. Numbered'
      BY <1>3, <1>4, <1>5, <1>6, <2>1, <2>2 DEF OwnersInv, Numbered
    <2>5. Disjoint'
      BY <1>2, <1>3, <1>4, <1>6, <1>7, <2>1, <2>2 DEF OwnersInv, Disjoint
    <2>6. Owners(n)' = {"drops"}
      BY <1>2, <1>3, <1>4, <1>6, <2>1, <2>2 DEF Owners, OwnersInv, Disjoint
    <2>7. \A k \in Names : k # n => Owners(k)' = Owners(k)
      BY <1>2, <1>3, <1>4, <2>1, <2>2 DEF Owners, Names, NoName
    <2>8. Own' = [Own EXCEPT ![n] = {"drops"}] /\ Own[n] = {r}
      BY <1>9, <2>6, <2>7, OneMoves DEF Own
    <2>9. Use!Pass(n, r, "drops")
      BY <2>8 DEF Use!Pass, Use!Give, Own
    <2>10. Use!Change
      BY <2>9 DEF Use!Change, Hands
    <2> QED
      BY <1>8, <2>3, <2>4, <2>5, <2>10 DEF OwnersInv
  <1> QED
    BY <1>10, <1>11

LEMMA DropReleasedMoves ==
  ASSUME OwnersInv, NEW n \in Names, DropReleased(n)
  PROVE  OwnersInv' /\ Use!Change
  <1>1. /\ n \in drops /\ drops' = drops \ {n}
        /\ UNCHANGED <<proc, counter, databases, closing, at, held>>
    BY DEF DropReleased
  <1>2. Pooled' = Pooled
    BY <1>1 DEF Pooled
  <1>3. OwnersInv'
    BY <1>1, <1>2 DEF OwnersInv, OwnersTypeOK, Numbered, Disjoint, DownIsEmpty, StartIsAlone,
       ClosedOnce, Holding, Idle
  <1>4. Owners(n) = {"drops"}
    BY <1>1, OneOwner
  <1>5. Owners(n)' = {}
    BY <1>1, <1>2 DEF OwnersInv, Disjoint, Owners
  <1>6. \A k \in Names : k # n => Owners(k)' = Owners(k)
    BY <1>1, <1>2 DEF Owners
  <1>7. Own' = [Own EXCEPT ![n] = {}] /\ Own[n] = {"drops"}
    BY <1>4, <1>5, <1>6, OneMoves DEF Own
  <1>8. Use!Retire(n, "drops")
    BY <1>7 DEF Use!Retire, Use!Give, Own
  <1> QED
    BY <1>3, <1>8 DEF Use!Change, Hands

LEMMA CloseOneMoves ==
  ASSUME OwnersInv, NEW n \in Names, CloseOne(n)
  PROVE  OwnersInv' /\ Use!Change
  <1>1. /\ n \in closing /\ closing' = closing \ {n}
        /\ UNCHANGED <<proc, counter, databases, drops, at, held>>
    BY DEF CloseOne
  <1>2. Pooled' = Pooled
    BY <1>1 DEF Pooled
  <1>3. OwnersInv'
    BY <1>1, <1>2 DEF OwnersInv, OwnersTypeOK, Numbered, Disjoint, DownIsEmpty, StartIsAlone,
       ClosedOnce, Holding, Idle
  <1>4. Owners(n) = {"closing"}
    BY <1>1, OneOwner
  <1>5. Owners(n)' = {}
    BY <1>1, <1>2 DEF OwnersInv, Disjoint, Owners
  <1>6. \A k \in Names : k # n => Owners(k)' = Owners(k)
    BY <1>1, <1>2 DEF Owners
  <1>7. Own' = [Own EXCEPT ![n] = {}] /\ Own[n] = {"closing"}
    BY <1>4, <1>5, <1>6, OneMoves DEF Own
  <1>8. Use!Retire(n, "closing")
    BY <1>7 DEF Use!Retire, Use!Give, Own
  <1> QED
    BY <1>3, <1>8 DEF Use!Change, Hands

LEMMA WarmMoves ==
  ASSUME OwnersInv, Warm
  PROVE  OwnersInv' /\ Use!Change
  <1>1. /\ counter \in Nat /\ counter = Len(databases) /\ counter < MinSize
        /\ MinSize \in Nat /\ MinSize <= MaxNames
    <2>1. counter \in Nat /\ counter = Len(databases) /\ counter < MinSize
      BY MaxNamesType DEF Warm, OwnersInv, OwnersTypeOK, StartIsAlone
    <2>2. MinSize \in Nat /\ Cardinality(Requests) \in Nat
      BY FS_CardinalityType DEF PoolAssumption
    <2> QED
      BY <2>1, <2>2 DEF MaxNames
  <1>2. PICK n \in Names : n = counter
    BY <1>1, MaxNamesType DEF Names
  <1>3. /\ databases' = Append(databases, n) /\ counter' = counter + 1
        /\ counter' \in 0..MaxNames
        /\ UNCHANGED <<proc, drops, closing, held, at>>
    BY <1>1, <1>2, MaxNamesType DEF Warm
  <1>4. /\ n \notin Pooled \cup drops \cup closing
        /\ \A s \in Requests : held[s] # n
    BY <1>2 DEF OwnersInv, OwnersTypeOK, Numbered, Names, NoName
  <1>5. /\ databases' \in Seq(Names)
        /\ \A i, j \in DOMAIN databases' : i # j => databases'[i] # databases'[j]
        /\ Pooled' = Pooled \cup {n}
        /\ Len(databases') = Len(databases) + 1
    <2>1. /\ databases \in Seq(Names) /\ n \notin Pooled
          /\ \A i, j \in DOMAIN databases : i # j => databases[i] # databases[j]
      BY <1>4 DEF OwnersInv, OwnersTypeOK, Disjoint
    <2> QED
      BY <1>3, <2>1, QueueAppend
  <1>6. OwnersTypeOK'
    BY <1>3, <1>5 DEF OwnersInv, OwnersTypeOK
  <1>7. Numbered'
    <2>1. Numbered
      BY DEF OwnersInv
    <2>2. 0..(counter - 1) \subseteq 0..(counter' - 1) /\ n \in 0..(counter' - 1)
      <3>1. counter \in Nat /\ counter' = counter + 1 /\ n = counter
        BY <1>1, <1>2, <1>3
      <3> QED
        BY <3>1
    <2>3. Pooled' \cup drops' \cup closing' \subseteq 0..(counter' - 1)
      BY <1>3, <1>5, <2>1, <2>2 DEF Numbered
    <2>4. \A r \in Requests : held'[r] = held[r] /\ (Holding(r)' <=> Holding(r))
      BY <1>3 DEF Holding
    <2> QED
      BY <2>1, <2>2, <2>3, <2>4 DEF Numbered
  <1>8. Disjoint'
    BY <1>3, <1>4, <1>5 DEF OwnersInv, Disjoint
  <1>9. DownIsEmpty' /\ StartIsAlone' /\ ClosedOnce'
    BY <1>1, <1>3, <1>5 DEF Warm, OwnersInv, DownIsEmpty, StartIsAlone, ClosedOnce, Idle
  <1>10. Use!Change
    <2>1. Owners(n) = {}
      BY <1>4 DEF Owners
    <2>2. Owners(n)' = {"pool"}
      BY <1>3, <1>4, <1>5 DEF Owners
    <2>3. \A k \in Names : k # n => Owners(k)' = Owners(k)
      BY <1>3, <1>5 DEF Owners
    <2>4. Own' = [Own EXCEPT ![n] = {"pool"}] /\ Own[n] = {}
      BY <2>1, <2>2, <2>3, OneMoves DEF Own
    <2>5. Use!Create(n, "pool")
      BY <2>4 DEF Use!Create, Use!Give, Own
    <2> QED
      BY <2>5 DEF Use!Change, Hands
  <1> QED
    BY <1>6, <1>7, <1>8, <1>9, <1>10 DEF OwnersInv

LEMMA GoneMoves ==
  ASSUME OwnersInv, NEW creating, Gone(creating)
  PROVE  OwnersInv' /\ Use!Change
  <1>1. Pooled' = {}
    BY DEF Gone, Pooled
  <1>2. \A r \in Requests : held'[r] = NoName /\ Idle(r)' /\ ~Holding(r)'
    BY DEF Gone, Idle, Holding
  <1>3. OwnersTypeOK'
    BY DEF Gone, OwnersInv, OwnersTypeOK, RequestSteps
  <1>4. Numbered' /\ Disjoint'
    BY <1>1, <1>2 DEF Gone, Numbered, Disjoint
  <1>5. DownIsEmpty' /\ StartIsAlone' /\ ClosedOnce'
    BY <1>2 DEF Gone, DownIsEmpty, StartIsAlone, ClosedOnce
  <1>6. \A n \in Names : Owners(n)' = {}
    BY <1>1, <1>2 DEF Gone, Owners, Names, NoName
  <1>7. Use!Forget
    BY <1>6 DEF Use!Forget
  <1> QED
    BY <1>3, <1>4, <1>5, <1>7 DEF OwnersInv, Use!Change

LEMMA ShutdownMoves ==
  ASSUME OwnersInv, Shutdown
  PROVE  OwnersInv' /\ Use!Change
  <1>1. /\ proc = "stopping" /\ proc' \in {"closing", "closingLate"}
        /\ closing = {} /\ closing' = Pooled /\ databases' = <<>>
        /\ UNCHANGED <<counter, drops, held, at>>
    BY DEF Shutdown, OwnersInv, ClosedOnce
  <1>2. Pooled' = {}
    BY <1>1 DEF Pooled
  <1>3. OwnersTypeOK'
    BY <1>1 DEF OwnersInv, OwnersTypeOK, Pooled
  <1>4. Numbered'
    BY <1>1, <1>2 DEF OwnersInv, Numbered, Holding
  <1>5. Disjoint'
    BY <1>1, <1>2 DEF OwnersInv, Disjoint
  <1>6. DownIsEmpty' /\ StartIsAlone' /\ ClosedOnce'
    BY <1>1 DEF DownIsEmpty, StartIsAlone, ClosedOnce
  <1>7. ASSUME NEW n \in Names, n \in Pooled
        PROVE  Owners(n) = {"pool"} /\ Owners(n)' = {"closing"}
    <2>1. Owners(n) = {"pool"}
      BY <1>7, OneOwner
    <2>2. \A r \in Requests : held'[r] # n
      BY <1>1, <1>7 DEF OwnersInv, Disjoint
    <2> QED
      BY <1>1, <1>2, <1>7, <2>1, <2>2 DEF Owners, OwnersInv, Disjoint
  <1>8. ASSUME NEW n \in Names, n \notin Pooled
        PROVE  Owners(n) # {"pool"} /\ Owners(n)' = Owners(n)
    <2>1. "pool" \notin Owners(n)
      BY <1>8 DEF Owners, PoolAssumption
    <2> QED
      BY <1>1, <1>2, <1>8, <2>1 DEF Owners
  <1>9. Use!PassAll("pool", "closing")
    BY <1>7, <1>8 DEF Use!PassAll
  <1> QED
    BY <1>3, <1>4, <1>5, <1>6, <1>9 DEF OwnersInv, Use!Change, Hands

LEMMA RestartMoves ==
  ASSUME OwnersInv, Restart
  PROVE  OwnersInv' /\ UNCHANGED Own
  <1>1. /\ proc = "down" /\ proc' = "start" /\ counter' = 0
        /\ databases = <<>> /\ drops = {} /\ closing = {}
        /\ \A r \in Requests : Idle(r) /\ ~Holding(r)
        /\ UNCHANGED <<databases, drops, closing, held, at>>
    BY DEF Restart, OwnersInv, DownIsEmpty, Idle, Holding
  <1>2. Pooled = {} /\ Pooled' = Pooled
    BY <1>1 DEF Pooled
  <1>3. OwnersTypeOK'
    BY <1>1, MaxNamesType DEF OwnersInv, OwnersTypeOK
  <1>4. Numbered' /\ Disjoint'
    BY <1>1, <1>2 DEF OwnersInv, Numbered, Disjoint, Holding
  <1>5. DownIsEmpty' /\ StartIsAlone' /\ ClosedOnce'
    BY <1>1 DEF DownIsEmpty, StartIsAlone, ClosedOnce, Idle
  <1>6. UNCHANGED Own
    BY <1>1, <1>2 DEF Own, Owners
  <1> QED
    BY <1>3, <1>4, <1>5, <1>6 DEF OwnersInv

\* The calls a request makes with the database it holds.
LEMMA CallMovesNothing ==
  ASSUME OwnersInv, NEW r \in Requests, NEW step \in RequestSteps,
         UNCHANGED <<proc, ownerVars>>, ~Idle(r) \/ proc = "serve",
         Holding(r) <=> step \notin {"new", "acquire", "done"},
         at' = [at EXCEPT ![r] = step]
  PROVE  OwnersInv' /\ UNCHANGED Own
  <1>1. proc \notin {"down", "start"}
    BY ServingProcess
  <1>2. at' \in [Requests -> RequestSteps] /\ \A s \in Requests : Holding(s)' = Holding(s)
    BY DEF OwnersInv, OwnersTypeOK, Holding
  <1> QED
    BY <1>1, <1>2, NothingMoves

LEMMA OwnersStep ==
  ASSUME OwnersInv, [Next]_vars
  PROVE  OwnersInv' /\ (Use!Change \/ UNCHANGED Own)
  <1>1. ASSUME NEW r \in Requests, Arrive(r) PROVE OwnersInv' /\ UNCHANGED Own
    BY <1>1, CallMovesNothing DEF Arrive, Go, RequestSteps, Holding
  <1>2. ASSUME NEW r \in Requests,
               \/ ResetTaken(r) \/ ResetTakenFails(r) \/ Create(r) \/ Execute(r)
               \/ ExecuteFails(r) \/ Introspect(r) \/ IntrospectFails(r) \/ ResetMid(r)
        PROVE OwnersInv' /\ UNCHANGED Own
    <2>1. /\ Holding(r) /\ ~Idle(r)
          /\ UNCHANGED <<proc, ownerVars>>
          /\ \E step \in RequestSteps \ {"new", "acquire", "done"} : at' = [at EXCEPT ![r] = step]
      BY <1>2 DEF ResetTaken, ResetTakenFails, Create, Execute, ExecuteFails, Introspect,
         IntrospectFails, ResetMid, Begin, Go, Reading, RequestSteps, Holding, Idle
    <2> QED
      BY <2>1, CallMovesNothing
  <1>3. ASSUME NEW r \in Requests, DropTaken(r) \/ CreateFails(r)
        PROVE OwnersInv' /\ Use!Change
    BY <1>3, RequestDrops DEF DropTaken, CreateFails, Answer, Go, Holding
  <1>4. ASSUME NEW r \in Requests, Expire(r) PROVE OwnersInv' /\ UNCHANGED Own
    BY <1>4, NothingMoves DEF Expire, Holding, OwnersInv, OwnersTypeOK
  <1>5. ASSUME NEW n \in Names, LateRuns(n) \/ LateCancelled(n)
        PROVE OwnersInv' /\ UNCHANGED Own
    BY <1>5, NothingMoves DEF LateRuns, LateCancelled, Holding, OwnersInv, OwnersTypeOK
  <1>6. CASE Serve \/ Signal
    <2>1. closing = {}
      BY <1>6 DEF Serve, Signal, OwnersInv, ClosedOnce
    <2> QED
      BY <1>6, <2>1, NothingMoves DEF Serve, Signal, Holding, OwnersInv, OwnersTypeOK
  <1>7. CASE WarmFails \/ Exit \/ Crash
    BY <1>7, GoneMoves DEF WarmFails, Exit, Crash
  <1>8. CASE UNCHANGED vars
    BY <1>8, NothingMoves DEF vars, Holding, OwnersInv, OwnersTypeOK
  <1> QED
    BY <1>1, <1>2, <1>3, <1>4, <1>5, <1>6, <1>7, <1>8, AcquirePooledMoves, AcquireNewMoves,
       ReleaseMoves, DropReleasedMoves, CloseOneMoves, WarmMoves, ShutdownMoves, RestartMoves
    DEF Next, Serving, Main

\* A database of the pool is in one hand at a time: whatever fails, expires or is
\* killed, the pool implements ExclusiveUse.
THEOREM PoolIsExclusive == Spec => ExclusiveSpec
  <1>1. Init => Use!Init
    <2> SUFFICES ASSUME Init PROVE Use!Init
      OBVIOUS
    <2>1. Pooled = {}
      BY DEF Init, Pooled
    <2> QED
      BY <2>1 DEF Init, Use!Init, Owners, Names, NoName
  <1>2. OwnersInv /\ [Next]_vars => OwnersInv' /\ [Use!Next]_([n \in Names |-> Owners(n)])
    BY OwnersStep DEF Own, Use!Next
  <1> QED
    BY <1>1, <1>2, InitOwners, PTL DEF Spec, ExclusiveSpec, Use!Spec

(***************************************************************************)
(* What the server holds against what the process accounts for: no         *)
(* database of the pool is forgotten without an error, and whatever        *)
(* somebody can still be given exists.                                     *)
(*                                                                         *)
(* Every step that takes a database out of the last hand it was in either  *)
(* drops it or loses it, and it is in no other hand because the pool is    *)
(* exclusive (OwnersInv).                                                  *)
(***************************************************************************)

Worked    == {held[r] : r \in {q \in Requests : Past(q)}}
Others(r) == {held[q] : q \in {p \in Requests \ {r} : Past(p)}}

\* A request that is about to have its database created holds the name only.
LEMMA UncreatedIsUnaccounted ==
  ASSUME OwnersInv, NEW r \in Requests, at[r] = "create"
  PROVE  held[r] \notin Accounted /\ held[r] \in Names
  <1>1. Holding(r) /\ ~Past(r)
    BY DEF Holding, Past
  <1>2. held[r] \in Names /\ held[r] # NoName
    BY <1>1, HeldName
  <1>3. \A q \in Requests : held[q] = held[r] => q = r
    BY <1>2 DEF OwnersInv, Disjoint
  <1> QED
    BY <1>1, <1>2, <1>3 DEF OwnersInv, Disjoint, Accounted, Past

\* What a request works on is in no other hand.
LEMMA WorkedIsOwn ==
  ASSUME OwnersInv, NEW r \in Requests, Past(r)
  PROVE  /\ held[r] \in Accounted /\ held[r] \in Names /\ held[r] # NoName
         /\ held[r] \notin Pooled \cup drops \cup closing
         /\ \A q \in Requests : held[q] = held[r] => q = r
  <1>1. Holding(r)
    BY DEF Holding, Past
  <1>2. held[r] \in Names /\ held[r] # NoName
    BY <1>1, HeldName
  <1> QED
    BY <1>2 DEF OwnersInv, Disjoint, Accounted

\* A step of one request: what is worked on before and after it.
LEMMA OneWorks ==
  ASSUME OwnersInv, NEW r \in Requests, NEW step \in RequestSteps, NEW n,
         at' = [at EXCEPT ![r] = step],
         held' = [held EXCEPT ![r] = n]
  PROVE  /\ at'[r] = step /\ held'[r] = n
         /\ Worked  = Others(r) \cup (IF Past(r)  THEN {held[r]} ELSE {})
         /\ Worked' = Others(r) \cup (IF Past(r)' THEN {n} ELSE {})
  <1>1. /\ \A q \in Requests \ {r} : at'[q] = at[q] /\ held'[q] = held[q]
        /\ at'[r] = step /\ held'[r] = n
    BY DEF OwnersInv, OwnersTypeOK
  <1>2. \A q \in Requests \ {r} : Past(q)' <=> Past(q)
    BY <1>1 DEF Past
  <1>3. Worked = Others(r) \cup (IF Past(r) THEN {held[r]} ELSE {})
    BY DEF Worked, Others
  <1>4. Worked' = Others(r) \cup (IF Past(r)' THEN {n} ELSE {})
    BY <1>1, <1>2 DEF Worked, Others
  <1> QED
    BY <1>1, <1>3, <1>4

-----------------------------------------------------------------------------
\* A step after which everything is still accounted for.
LEMMA NothingTaken ==
  ASSUME OwnersInv, NothingForgotten, Accounted' = Accounted, UNCHANGED <<exists, lost>>
  PROVE  NothingForgotten'
  BY DEF NothingForgotten

\* A database leaves its hand and is dropped, or lost.
LEMMA OneLeaves ==
  ASSUME OwnersInv, NothingForgotten, NEW n, Accounted' = Accounted \ {n},
         Dropped(n) \/ NotDropped(n)
  PROVE  NothingForgotten'
  BY DEF NothingForgotten, Dropped, NotDropped

\* A database is created and is in a hand.
LEMMA OneComes ==
  ASSUME OwnersInv, NothingForgotten, NEW n, Accounted' = Accounted \cup {n},
         exists' = exists \cup {n}, lost' = lost \ {n}
  PROVE  NothingForgotten'
  BY DEF NothingForgotten

\* A call of a request on the database it holds: it stays past Acquire.
LEMMA CallKeeps ==
  ASSUME OwnersInv, NothingForgotten, NEW r \in Requests, Past(r),
         UNCHANGED <<ownerVars, exists, lost>>,
         NEW step \in RequestSteps \ {"new", "acquire", "create", "done"},
         at' = [at EXCEPT ![r] = step]
  PROVE  NothingForgotten'
  <1>1. held' = [held EXCEPT ![r] = held[r]]
    BY DEF ownerVars, OwnersInv, OwnersTypeOK
  <1>2. Worked' = Worked
    <2>1. /\ at'[r] = step
          /\ Worked  = Others(r) \cup (IF Past(r) THEN {held[r]} ELSE {})
          /\ Worked' = Others(r) \cup (IF Past(r)' THEN {held[r]} ELSE {})
      BY <1>1, OneWorks
    <2>2. Past(r)'
      BY <2>1 DEF Past
    <2> QED
      BY <2>1, <2>2
  <1>3. Accounted' = Accounted
    BY <1>2 DEF Accounted, Worked, ownerVars, Pooled
  <1> QED
    BY <1>3, NothingTaken

LEMMA AccountedParts ==
  /\ Accounted  = Pooled \cup drops \cup closing \cup Worked
  /\ Accounted' = Pooled' \cup drops' \cup closing' \cup Worked'
  BY DEF Accounted, Worked

LEMMA AppendedToPool ==
  ASSUME OwnersInv, NEW n \in Names, n \notin Pooled, databases' = Append(databases, n)
  PROVE  Pooled' = Pooled \cup {n}
  <1>1. /\ databases \in Seq(Names)
        /\ \A i, j \in DOMAIN databases : i # j => databases[i] # databases[j]
    BY DEF OwnersInv, OwnersTypeOK, Disjoint
  <1> QED
    BY <1>1, QueueAppend

LEMMA AcquirePooledKeeps ==
  ASSUME OwnersInv, NothingForgotten, NEW r \in Requests, AcquirePooled(r)
  PROVE  NothingForgotten'
  <1>1. PICK n \in Names : n = Head(databases)
    BY HeadOfPool DEF AcquirePooled
  <1>2. n \in Pooled /\ Pooled' = Pooled \ {n}
    <2>1. databases # <<>> /\ databases' = Tail(databases)
      BY DEF AcquirePooled
    <2>2. Pooled' = {databases'[i] : i \in DOMAIN databases'}
      BY DEF Pooled
    <2> QED
      BY <1>1, <2>1, <2>2, HeadOfPool
  <1>3. /\ at' = [at EXCEPT ![r] = "reset"] /\ held' = [held EXCEPT ![r] = n]
        /\ at[r] = "acquire" /\ "reset" \in RequestSteps
        /\ UNCHANGED <<drops, closing, exists, lost>>
    BY <1>1 DEF AcquirePooled, Go, serverVars, RequestSteps
  <1>4. /\ at'[r] = "reset"
        /\ Worked  = Others(r) \cup (IF Past(r)  THEN {held[r]} ELSE {})
        /\ Worked' = Others(r) \cup (IF Past(r)' THEN {n} ELSE {})
    BY <1>3, OneWorks
  <1>5. ~Past(r) /\ Past(r)'
    BY <1>3, <1>4 DEF Past
  <1>6. Accounted' = Accounted
    BY <1>2, <1>3, <1>4, <1>5, AccountedParts
  <1> QED
    BY <1>3, <1>6, NothingTaken

LEMMA AcquireNewKeeps ==
  ASSUME OwnersInv, NothingForgotten, NEW r \in Requests, AcquireNew(r)
  PROVE  NothingForgotten'
  <1>1. /\ at' = [at EXCEPT ![r] = "create"] /\ held' = [held EXCEPT ![r] = counter]
        /\ at[r] = "acquire" /\ "create" \in RequestSteps
        /\ UNCHANGED <<databases, drops, closing, exists, lost>>
    BY DEF AcquireNew, Go, serverVars, RequestSteps
  <1>2. /\ at'[r] = "create"
        /\ Worked  = Others(r) \cup (IF Past(r)  THEN {held[r]} ELSE {})
        /\ Worked' = Others(r) \cup (IF Past(r)' THEN {counter} ELSE {})
    BY <1>1, OneWorks
  <1>3. ~Past(r) /\ ~Past(r)' /\ Pooled' = Pooled
    BY <1>1, <1>2 DEF Past, Pooled
  <1> QED
    BY <1>1, <1>2, <1>3, AccountedParts, NothingTaken

LEMMA DropTakenKeeps ==
  ASSUME OwnersInv, NothingForgotten, NEW r \in Requests, DropTaken(r)
  PROVE  NothingForgotten'
  <1>1. /\ at' = [at EXCEPT ![r] = "acquire"] /\ held' = [held EXCEPT ![r] = NoName]
        /\ at[r] = "drop" /\ "acquire" \in RequestSteps
        /\ UNCHANGED <<databases, drops, closing>>
        /\ Dropped(held[r]) \/ NotDropped(held[r])
    BY DEF DropTaken, Go, RequestSteps
  <1>2. /\ at'[r] = "acquire"
        /\ Worked  = Others(r) \cup (IF Past(r)  THEN {held[r]} ELSE {})
        /\ Worked' = Others(r) \cup (IF Past(r)' THEN {NoName} ELSE {})
    BY <1>1, OneWorks
  <1>3. Past(r) /\ ~Past(r)' /\ Pooled' = Pooled
    BY <1>1, <1>2 DEF Past, Pooled
  <1>4. held[r] \notin Pooled \cup drops \cup closing /\ held[r] \notin Others(r)
    BY <1>3, WorkedIsOwn DEF Others
  <1>5. Accounted' = Accounted \ {held[r]}
    BY <1>1, <1>2, <1>3, <1>4, AccountedParts
  <1> QED
    BY <1>1, <1>5, OneLeaves

LEMMA CreateKeeps ==
  ASSUME OwnersInv, NothingForgotten, NEW r \in Requests, Create(r)
  PROVE  NothingForgotten'
  <1>1. PICK step \in RequestSteps \ {"new", "acquire", "create", "done"} :
          at' = [at EXCEPT ![r] = step]
    BY DEF Create, Begin, Go, RequestSteps
  <1>2. /\ held' = [held EXCEPT ![r] = held[r]]
        /\ at[r] = "create"
        /\ UNCHANGED <<databases, drops, closing>>
        /\ exists' = exists \cup {held[r]} /\ lost' = lost \ {held[r]}
    BY DEF Create, Created, ownerVars, OwnersInv, OwnersTypeOK
  <1>3. /\ at'[r] = step
        /\ Worked  = Others(r) \cup (IF Past(r)  THEN {held[r]} ELSE {})
        /\ Worked' = Others(r) \cup (IF Past(r)' THEN {held[r]} ELSE {})
    BY <1>1, <1>2, OneWorks
  <1>4. ~Past(r) /\ Past(r)' /\ Pooled' = Pooled
    BY <1>2, <1>3 DEF Past, Pooled
  <1>5. Accounted' = Accounted \cup {held[r]}
    BY <1>2, <1>3, <1>4, AccountedParts
  <1> QED
    BY <1>2, <1>5, OneComes

LEMMA CreateFailsKeeps ==
  ASSUME OwnersInv, NothingForgotten, NEW r \in Requests, CreateFails(r)
  PROVE  NothingForgotten'
  <1>1. /\ at' = [at EXCEPT ![r] = "done"] /\ held' = [held EXCEPT ![r] = NoName]
        /\ at[r] = "create" /\ "done" \in RequestSteps
        /\ UNCHANGED <<databases, drops, closing>>
    BY DEF CreateFails, Answer, Go, RequestSteps
  <1>2. /\ at'[r] = "done"
        /\ Worked  = Others(r) \cup (IF Past(r)  THEN {held[r]} ELSE {})
        /\ Worked' = Others(r) \cup (IF Past(r)' THEN {NoName} ELSE {})
    BY <1>1, OneWorks
  <1>3. ~Past(r) /\ ~Past(r)' /\ Pooled' = Pooled
    BY <1>1, <1>2 DEF Past, Pooled
  <1>4. Accounted' = Accounted
    BY <1>1, <1>2, <1>3, AccountedParts
  <1>5. held[r] \notin Accounted
    BY <1>1, UncreatedIsUnaccounted
  <1>6. /\ exists' \in {exists, exists \cup {held[r]}, exists \ {held[r]}}
        /\ lost' = lost \cup ({held[r]} \cap exists')
    BY DEF CreateFails, Created
  <1> QED
    BY <1>4, <1>5, <1>6 DEF NothingForgotten

LEMMA ReleaseKeeps ==
  ASSUME OwnersInv, NothingForgotten, NEW r \in Requests, Release(r)
  PROVE  NothingForgotten'
  <1>1. /\ at' = [at EXCEPT ![r] = "done"] /\ held' = [held EXCEPT ![r] = NoName]
        /\ at[r] = "release" /\ "done" \in RequestSteps
        /\ UNCHANGED <<closing, exists, lost>>
    BY DEF Release, Answer, Go, RequestSteps, serverVars
  <1>2. /\ at'[r] = "done"
        /\ Worked  = Others(r) \cup (IF Past(r)  THEN {held[r]} ELSE {})
        /\ Worked' = Others(r) \cup (IF Past(r)' THEN {NoName} ELSE {})
    BY <1>1, OneWorks
  <1>3. Past(r) /\ ~Past(r)'
    BY <1>1, <1>2 DEF Past
  <1>4. held[r] \in Names /\ held[r] \notin Pooled
    BY <1>3, WorkedIsOwn
  <1>5. \/ Pooled' = Pooled \cup {held[r]} /\ drops' = drops
        \/ Pooled' = Pooled /\ drops' = drops \cup {held[r]}
    <2>1. CASE Len(databases) < MaxSize
      BY <1>4, <2>1, AppendedToPool DEF Release
    <2>2. CASE ~(Len(databases) < MaxSize)
      BY <2>2 DEF Release, Pooled
    <2> QED
      BY <2>1, <2>2
  <1>6. Accounted' = Accounted
    BY <1>1, <1>2, <1>3, <1>5, AccountedParts
  <1> QED
    BY <1>1, <1>6, NothingTaken

LEMMA DropKeeps ==
  ASSUME OwnersInv, NothingForgotten, NEW n \in Names, DropReleased(n) \/ CloseOne(n)
  PROVE  NothingForgotten'
  <1>1. UNCHANGED <<databases, at, held>> /\ (Dropped(n) \/ NotDropped(n))
    BY DEF DropReleased, CloseOne
  <1>2. Pooled' = Pooled /\ Worked' = Worked
    BY <1>1 DEF Pooled, Worked, Past
  <1>3. \A r \in Requests : held[r] \notin drops \cup closing
    BY DEF OwnersInv, Disjoint
  <1>4. n \notin Worked /\ n \notin Pooled
    BY <1>3 DEF DropReleased, CloseOne, Worked, OwnersInv, Disjoint
  <1>5. drops' \cup closing' = (drops \cup closing) \ {n}
    BY DEF DropReleased, CloseOne, OwnersInv, Disjoint
  <1>6. Accounted' = Accounted \ {n}
    BY <1>2, <1>4, <1>5, AccountedParts
  <1> QED
    BY <1>1, <1>6, OneLeaves

LEMMA WarmKeeps ==
  ASSUME OwnersInv, NothingForgotten, Warm
  PROVE  NothingForgotten'
  <1>1. /\ databases' = Append(databases, counter)
        /\ UNCHANGED <<drops, closing, held, at>>
        /\ exists' = exists \cup {counter} /\ lost' = lost \ {counter}
    BY DEF Warm, Created
  <1>2. counter \in Names /\ counter \notin Pooled
    <2>1. counter \in Nat /\ counter = Len(databases) /\ counter < MinSize
      BY MaxNamesType DEF Warm, OwnersInv, OwnersTypeOK, StartIsAlone
    <2>2. MinSize \in Nat /\ Cardinality(Requests) \in Nat
      BY FS_CardinalityType, PoolAssumption DEF PoolAssumption
    <2>3. counter \in Names
      BY <2>1, <2>2 DEF Names, MaxNames
    <2> QED
      BY <2>1, <2>3 DEF OwnersInv, Numbered
  <1>3. Pooled' = Pooled \cup {counter}
    BY <1>1, <1>2, AppendedToPool
  <1>4. Worked' = Worked
    BY <1>1 DEF Worked, Past
  <1>5. Accounted' = Accounted \cup {counter}
    BY <1>1, <1>3, <1>4, AccountedParts
  <1> QED
    BY <1>1, <1>5, OneComes

\* What a process leaves behind is lost.
LEMMA GoneKeeps ==
  ASSUME OwnersInv, NothingForgotten, WarmFails \/ Exit \/ Crash
  PROVE  NothingForgotten'
  <1>1. PICK creating :
          /\ Gone(creating)
          /\ exists' = exists \/ exists' = exists \cup creating
    BY DEF WarmFails, Exit, Crash, Created
  <1>2. lost' = lost \cup Accounted \cup (creating \cap exists')
    BY <1>1 DEF Gone
  <1>3. Accounted' = {}
    <2>1. Pooled' = {} /\ drops' = {} /\ closing' = {}
      BY <1>1 DEF Gone, Pooled
    <2>2. \A r \in Requests : ~Past(r)'
      BY <1>1 DEF Gone, Past
    <2>3. Worked' = {}
      BY <2>2 DEF Worked
    <2> QED
      BY <2>1, <2>3, AccountedParts
  <1> QED
    BY <1>1, <1>2, <1>3 DEF NothingForgotten

LEMMA ShutdownKeeps ==
  ASSUME OwnersInv, NothingForgotten, Shutdown
  PROVE  NothingForgotten'
  <1>1. /\ closing' = Pooled /\ databases' = <<>>
        /\ UNCHANGED <<drops, held, at, exists, lost>>
    BY DEF Shutdown, serverVars
  <1>2. closing = {}
    BY DEF Shutdown, OwnersInv, ClosedOnce
  <1>3. Pooled' = {} /\ Worked' = Worked
    BY <1>1 DEF Pooled, Worked, Past
  <1> QED
    BY <1>1, <1>2, <1>3, AccountedParts, NothingTaken

LEMMA UntouchedKeeps ==
  ASSUME OwnersInv, NothingForgotten, UNCHANGED <<databases, drops, closing, held, at, exists, lost>>
  PROVE  NothingForgotten'
  <1>1. Pooled' = Pooled /\ Worked' = Worked
    BY DEF Pooled, Worked, Past
  <1> QED
    BY <1>1, AccountedParts, NothingTaken

LEMMA ServingKeeps ==
  ASSUME OwnersInv, NothingForgotten, NEW r \in Requests, Serving(r)
  PROVE  NothingForgotten'
  <1>1. ASSUME \/ ResetTaken(r) \/ ResetTakenFails(r) \/ Execute(r) \/ ExecuteFails(r)
               \/ Introspect(r) \/ IntrospectFails(r) \/ ResetMid(r)
        PROVE  NothingForgotten'
    <2>1. Past(r) /\ UNCHANGED ownerVars
      BY <1>1 DEF ResetTaken, ResetTakenFails, Execute, ExecuteFails, Introspect,
         IntrospectFails, ResetMid, Past
    <2>2. UNCHANGED <<exists, lost>>
      BY <1>1 DEF ResetTaken, ResetTakenFails, Execute, ExecuteFails, Introspect,
         IntrospectFails, ResetMid, ResetDatabase, Executed, GivenUp, ResetGivenUp, serverVars
    <2>3. \E step \in RequestSteps \ {"new", "acquire", "create", "done"} :
            at' = [at EXCEPT ![r] = step]
      BY <1>1 DEF ResetTaken, ResetTakenFails, Execute, ExecuteFails, Introspect,
         IntrospectFails, ResetMid, Begin, Go, Reading, RequestSteps
    <2> QED
      BY <2>1, <2>2, <2>3, CallKeeps
  <1> QED
    BY <1>1, AcquirePooledKeeps, AcquireNewKeeps, DropTakenKeeps, CreateKeeps,
       CreateFailsKeeps, ReleaseKeeps
    DEF Serving

LEMMA AccountsStep ==
  ASSUME OwnersInv, NothingForgotten, [Next]_vars
  PROVE  NothingForgotten'
  <1>1. ASSUME NEW r \in Requests, Arrive(r) PROVE NothingForgotten'
    <2>1. /\ at' = [at EXCEPT ![r] = "acquire"] /\ at[r] = "new" /\ "acquire" \in RequestSteps
          /\ held' = [held EXCEPT ![r] = held[r]]
          /\ UNCHANGED <<ownerVars, exists, lost>>
      BY <1>1 DEF Arrive, Go, serverVars, RequestSteps, ownerVars, OwnersInv, OwnersTypeOK
    <2>2. /\ at'[r] = "acquire"
          /\ Worked  = Others(r) \cup (IF Past(r)  THEN {held[r]} ELSE {})
          /\ Worked' = Others(r) \cup (IF Past(r)' THEN {held[r]} ELSE {})
      BY <2>1, OneWorks
    <2>3. ~Past(r) /\ ~Past(r)' /\ Pooled' = Pooled
      BY <2>1, <2>2 DEF Past, Pooled, ownerVars
    <2> QED
      BY <2>1, <2>2, <2>3, AccountedParts, NothingTaken DEF ownerVars
  <1>2. ASSUME NEW r \in Requests, Expire(r) PROVE NothingForgotten'
    BY <1>2, UntouchedKeeps DEF Expire, ownerVars, serverVars
  <1>3. ASSUME NEW n \in Names, LateRuns(n) \/ LateCancelled(n) PROVE NothingForgotten'
    BY <1>3, UntouchedKeeps DEF LateRuns, LateCancelled, ownerVars
  <1>4. CASE Serve \/ Signal \/ Restart \/ UNCHANGED vars
    BY <1>4, UntouchedKeeps DEF Serve, Signal, Restart, vars, ownerVars, serverVars
  <1> QED
    BY <1>1, <1>2, <1>3, <1>4, ServingKeeps, DropKeeps, WarmKeeps, GoneKeeps,
       ShutdownKeeps
    DEF Next, Main

-----------------------------------------------------------------------------
LEMMA OwnersHold == Spec => []OwnersInv
  BY InitOwners, OwnersStep, PTL DEF Spec

\* The server holds exactly the databases the process accounts for and those whose CREATE
\* or DROP reported an error, or that it left behind when it ended -- for any number of
\* requests, sizes of the pool, failures and restarts (pool.go:58-99, docker.go:35-66).
THEOREM NothingIsForgotten == Spec => []NothingForgotten
  <1>1. Init => NothingForgotten
    BY DEF Init, NothingForgotten, Accounted, Pooled, Past
  <1>2. OwnersInv /\ NothingForgotten /\ [Next]_vars => NothingForgotten'
    BY AccountsStep
  <1> QED
    BY <1>1, <1>2, OwnersHold, PTL DEF Spec

\* What the pool offers and what a request works on exists on the server.
THEOREM DatabasesInUseExist == Spec => []InUseExists
  <1>1. NothingForgotten => InUseExists
    BY DEF NothingForgotten, InUseExists, Accounted
  <1> QED
    BY <1>1, NothingIsForgotten, PTL

-----------------------------------------------------------------------------
(* Type correctness.                                                         *)

ServerTypeOK ==
  /\ exists \in SUBSET Names
  /\ lost \in SUBSET Names
  /\ public \in [Names -> SUBSET Marks]
  /\ other \in [Names -> SUBSET Marks]
  /\ late \in [Names -> SUBSET Marks]

ProcessTypeOK ==
  /\ proc \in {"start", "serve", "stopping", "closing", "closingLate", "down"}
  /\ restarts \in 0..MaxRestarts
  /\ expired \in [Requests -> BOOLEAN]
  /\ Len(databases) <= MinSize \/ Len(databases) <= MaxSize

\* The calls of docker.go keep what the server holds in its type.
LEMMA CallTypes ==
  ASSUME ServerTypeOK, NEW n \in Names, NEW mark \in Marks
  PROVE  /\ ResetDatabase(n) => ServerTypeOK'
         /\ Dropped(n) => ServerTypeOK'
         /\ NotDropped(n) => ServerTypeOK'
         /\ Created(n) /\ lost' \in {lost \ {n}, lost \cup {n}} => ServerTypeOK'
         /\ Executed(n, mark) => ServerTypeOK'
         /\ GivenUp(n, mark) => ServerTypeOK'
         /\ ResetGivenUp(n, mark) => ServerTypeOK'
         /\ UNCHANGED serverVars => ServerTypeOK'
  <1>1. UNCHANGED serverVars => ServerTypeOK'
    BY DEF serverVars, ServerTypeOK
  <1>2. ResetDatabase(n) => ServerTypeOK'
    BY DEF ResetDatabase, ServerTypeOK
  <1>3. Emptied(n) => /\ public' \in [Names -> SUBSET Marks]
                      /\ other' \in [Names -> SUBSET Marks]
                      /\ late' \in [Names -> SUBSET Marks]
    BY DEF Emptied, ServerTypeOK
  <1>4. Dropped(n) => ServerTypeOK'
    BY <1>3 DEF Dropped, ServerTypeOK
  <1>5. NotDropped(n) => ServerTypeOK'
    BY DEF NotDropped, ServerTypeOK
  <1>6. Created(n) /\ lost' \in {lost \ {n}, lost \cup {n}} => ServerTypeOK'
    BY <1>3 DEF Created, ServerTypeOK
  <1>7. Executed(n, mark) => ServerTypeOK'
    BY DEF Executed, ServerTypeOK
  <1>8. GivenUp(n, mark) => ServerTypeOK'
    BY <1>1, <1>7 DEF GivenUp, ServerTypeOK
  <1>9. ResetGivenUp(n, mark) => ServerTypeOK'
    BY <1>1, <1>2 DEF ResetGivenUp, ServerTypeOK
  <1> QED
    BY <1>1, <1>2, <1>4, <1>5, <1>6, <1>7, <1>8, <1>9

LEMMA ServingTypes ==
  ASSUME OwnersInv, ServerTypeOK, ProcessTypeOK, NEW r \in Requests, Serving(r)
  PROVE  ServerTypeOK' /\ ProcessTypeOK'
  <1>1. ASSUME AcquirePooled(r) PROVE ServerTypeOK' /\ ProcessTypeOK'
    <2>1. databases \in Seq(Names) /\ databases # <<>> /\ databases' = Tail(databases)
      BY <1>1 DEF AcquirePooled, OwnersInv, OwnersTypeOK
    <2>2. Len(databases') <= Len(databases) /\ Len(databases) \in Nat /\ Len(databases') \in Nat
      BY <2>1
    <2>3. UNCHANGED <<proc, restarts, expired, serverVars>>
      BY <1>1 DEF AcquirePooled
    <2> QED
      BY <2>2, <2>3, PoolAssumption
      DEF ProcessTypeOK, ServerTypeOK, serverVars, PoolAssumption
  <1>2. ASSUME Release(r) PROVE ServerTypeOK' /\ ProcessTypeOK'
    <2>1. databases \in Seq(Names) /\ Len(databases) \in Nat
      BY DEF OwnersInv, OwnersTypeOK
    <2>2. \/ databases' = databases
          \/ Len(databases) < MaxSize /\ Len(databases') = Len(databases) + 1
      BY <1>2, <2>1 DEF Release
    <2>3. /\ UNCHANGED <<proc, restarts, serverVars>>
          /\ expired' \in [Requests -> BOOLEAN]
      BY <1>2 DEF Release, Answer, ProcessTypeOK
    <2> QED
      BY <2>1, <2>2, <2>3, PoolAssumption
      DEF ProcessTypeOK, ServerTypeOK, serverVars, PoolAssumption
  <1>3. ASSUME AcquireNew(r) \/ Introspect(r) \/ IntrospectFails(r)
        PROVE  ServerTypeOK' /\ ProcessTypeOK'
    BY <1>3 DEF AcquireNew, Introspect, IntrospectFails, ownerVars, ProcessTypeOK,
       ServerTypeOK, serverVars
  <1>4. ASSUME CreateFails(r) PROVE ServerTypeOK' /\ ProcessTypeOK'
    <2>1. held[r] \in Names
      BY <1>4, UncreatedIsUnaccounted DEF CreateFails
    <2>2. ServerTypeOK'
      <3>1. Emptied(held[r]) => /\ public' \in [Names -> SUBSET Marks]
                                /\ other' \in [Names -> SUBSET Marks]
                                /\ late' \in [Names -> SUBSET Marks]
        BY <2>1 DEF Emptied, ServerTypeOK
      <3>2. /\ public' \in [Names -> SUBSET Marks]
            /\ other' \in [Names -> SUBSET Marks]
            /\ late' \in [Names -> SUBSET Marks]
        BY <1>4, <3>1 DEF CreateFails, Created, ServerTypeOK
      <3>3. exists' \in SUBSET Names /\ lost' \in SUBSET Names
        BY <1>4, <2>1 DEF CreateFails, Created, ServerTypeOK
      <3> QED
        BY <3>2, <3>3 DEF ServerTypeOK
    <2>3. /\ UNCHANGED <<proc, restarts, databases>>
          /\ expired' \in [Requests -> BOOLEAN]
      BY <1>4 DEF CreateFails, Answer, ProcessTypeOK
    <2> QED
      BY <2>2, <2>3 DEF ProcessTypeOK
  <1>5. ASSUME Create(r) PROVE ServerTypeOK' /\ ProcessTypeOK'
    <2>1. held[r] \in Names
      BY <1>5, UncreatedIsUnaccounted DEF Create
    <2>2. <<r, "late">> \in Marks
      BY DEF Marks
    <2>3. ServerTypeOK'
      BY <1>5, <2>1, <2>2, CallTypes DEF Create
    <2> QED
      BY <1>5, <2>3 DEF Create, ownerVars, ProcessTypeOK
  <1>6. ASSUME \/ ResetTaken(r) \/ ResetTakenFails(r) \/ DropTaken(r) \/ ResetMid(r)
               \/ Execute(r) \/ ExecuteFails(r)
        PROVE  ServerTypeOK' /\ ProcessTypeOK'
    <2>1. Past(r)
      BY <1>6 DEF ResetTaken, ResetTakenFails, DropTaken, ResetMid, Execute, ExecuteFails, Past
    <2>2. held[r] \in Names
      BY <2>1, WorkedIsOwn
    <2>3. <<r, "reset">> \in Marks
      BY DEF Marks
    <2>4. at[r] \in {"previous", "current"} => <<r, at[r]>> \in Marks
      BY DEF Marks
    <2>5. CASE Execute(r) \/ ExecuteFails(r)
      BY <2>2, <2>4, <2>5, CallTypes DEF Execute, ExecuteFails, ownerVars, ProcessTypeOK
    <2>6. CASE ResetTaken(r) \/ ResetTakenFails(r) \/ DropTaken(r) \/ ResetMid(r)
      BY <2>2, <2>3, <2>6, CallTypes
      DEF ResetTaken, ResetTakenFails, DropTaken, ResetMid, ownerVars, ProcessTypeOK
    <2> QED
      BY <1>6, <2>5, <2>6
  <1> QED
    BY <1>1, <1>2, <1>3, <1>4, <1>5, <1>6 DEF Serving

\* Starting, ending and everything in between of the process.
LEMMA MainTypes ==
  ASSUME OwnersInv, ServerTypeOK, ProcessTypeOK, Main
  PROVE  ServerTypeOK' /\ ProcessTypeOK'
  <1>1. ASSUME Len(databases) < MinSize, proc = "start" PROVE counter \in Names
    <2>1. counter \in Nat /\ counter = Len(databases)
      BY <1>1, MaxNamesType DEF OwnersInv, OwnersTypeOK, StartIsAlone
    <2>2. MinSize \in Nat /\ Cardinality(Requests) \in Nat
      BY FS_CardinalityType, PoolAssumption DEF PoolAssumption
    <2> QED
      BY <1>1, <2>1, <2>2 DEF Names, MaxNames
  <1>2. ASSUME NEW n \in Names, Emptied(n)
        PROVE  /\ public' \in [Names -> SUBSET Marks]
               /\ other' \in [Names -> SUBSET Marks]
               /\ late' \in [Names -> SUBSET Marks]
    BY <1>2 DEF Emptied, ServerTypeOK
  <1>3. CASE Warm
    <2>1. counter \in Names
      BY <1>1, <1>3 DEF Warm
    <2>2. ServerTypeOK'
      BY <1>2, <1>3, <2>1 DEF Warm, Created, ServerTypeOK
    <2>3. databases \in Seq(Names) /\ Len(databases) \in Nat /\ Len(databases') = Len(databases) + 1
      BY <1>3, <2>1 DEF Warm, OwnersInv, OwnersTypeOK
    <2> QED
      BY <1>3, <2>2, <2>3, PoolAssumption DEF Warm, ProcessTypeOK, PoolAssumption
  <1>4. CASE WarmFails \/ Exit \/ Crash
    <2>1. PICK creating \in SUBSET Names :
            /\ Gone(creating)
            /\ \/ UNCHANGED <<exists, public, other, late>>
               \/ \E n \in creating : Created(n)
      <3>1. CASE WarmFails
        <4>1. counter \in Names
          BY <1>1, <3>1 DEF WarmFails
        <4> QED
          BY <3>1, <4>1 DEF WarmFails
      <3>2. CASE Exit \/ Crash
        BY <3>2 DEF Exit, Crash
      <3> QED
        BY <1>4, <3>1, <3>2
    <2>2. /\ exists' \in SUBSET Names
          /\ public' \in [Names -> SUBSET Marks]
          /\ other' \in [Names -> SUBSET Marks]
          /\ late' \in [Names -> SUBSET Marks]
      BY <1>2, <2>1 DEF Created, ServerTypeOK
    <2>3. Accounted \subseteq Names
      <3>1. Worked \subseteq Names
        BY WorkedIsOwn DEF Worked
      <3>2. Pooled \subseteq Names
        BY DEF Pooled, OwnersInv, OwnersTypeOK
      <3> QED
        BY <3>1, <3>2, AccountedParts DEF OwnersInv, OwnersTypeOK
    <2>4. lost' \in SUBSET Names
      BY <2>1, <2>2, <2>3 DEF Gone, ServerTypeOK
    <2>5. ServerTypeOK'
      BY <2>2, <2>4 DEF ServerTypeOK
    <2>6. Len(databases') = 0 /\ 0 <= MinSize
      BY <2>1, PoolAssumption DEF Gone, PoolAssumption
    <2> QED
      BY <2>1, <2>5, <2>6 DEF Gone, ProcessTypeOK
  <1>5. CASE Serve \/ Signal
    BY <1>5 DEF Serve, Signal, ownerVars, serverVars, ServerTypeOK, ProcessTypeOK
  <1>6. CASE Shutdown
    <2>1. Len(databases') = 0 /\ 0 <= MinSize
      BY <1>6, PoolAssumption DEF Shutdown, PoolAssumption
    <2> QED
      BY <1>6, <2>1 DEF Shutdown, serverVars, ServerTypeOK, ProcessTypeOK
  <1>7. CASE Restart
    <2>1. restarts' \in 0..MaxRestarts
      BY <1>7, PoolAssumption DEF Restart, ProcessTypeOK, PoolAssumption
    <2> QED
      BY <1>7, <2>1 DEF Restart, serverVars, ServerTypeOK, ProcessTypeOK
  <1> QED
    BY <1>3, <1>4, <1>5, <1>6, <1>7 DEF Main

LEMMA TypesStep ==
  ASSUME OwnersInv, ServerTypeOK, ProcessTypeOK, [Next]_vars
  PROVE  ServerTypeOK' /\ ProcessTypeOK'
  <1>1. ASSUME NEW r \in Requests, Arrive(r) \/ Expire(r) PROVE ServerTypeOK' /\ ProcessTypeOK'
    BY <1>1 DEF Arrive, Expire, ownerVars, serverVars, ServerTypeOK, ProcessTypeOK
  <1>2. ASSUME NEW n \in Names, DropReleased(n) \/ CloseOne(n)
        PROVE  ServerTypeOK' /\ ProcessTypeOK'
    <2>1. UNCHANGED <<proc, restarts, databases, expired>>
      BY <1>2 DEF DropReleased, CloseOne
    <2>2. ServerTypeOK'
      <3>1. CASE Dropped(n)
        BY <3>1 DEF Dropped, Emptied, ServerTypeOK
      <3>2. CASE NotDropped(n)
        BY <3>2 DEF NotDropped, ServerTypeOK
      <3> QED
        BY <1>2, <3>1, <3>2 DEF DropReleased, CloseOne
    <2> QED
      BY <2>1, <2>2 DEF ProcessTypeOK
  <1>3. ASSUME NEW n \in Names, LateRuns(n) PROVE ServerTypeOK' /\ ProcessTypeOK'
    <2>1. PICK mark \in late[n] :
            /\ late' = [late EXCEPT ![n] = @ \ {mark}]
            /\ \/ public' = [public EXCEPT ![n] = {mark}]
               \/ public' = [public EXCEPT ![n] = @ \cup {<<mark[1], "late">>}]
            /\ \/ other' = other
               \/ other' = [other EXCEPT ![n] = @ \cup {<<mark[1], "late">>}]
      BY <1>3 DEF LateRuns
    <2>2. mark \in Marks
      BY DEF ServerTypeOK
    <2>3. <<mark[1], "late">> \in Marks
      BY <2>2 DEF Marks
    <2> QED
      BY <1>3, <2>1, <2>3 DEF LateRuns, ownerVars, ServerTypeOK, ProcessTypeOK
  <1>4. ASSUME NEW n \in Names, LateCancelled(n) PROVE ServerTypeOK' /\ ProcessTypeOK'
    BY <1>4 DEF LateCancelled, ownerVars, ServerTypeOK, ProcessTypeOK
  <1>5. CASE UNCHANGED vars
    BY <1>5 DEF vars, ownerVars, serverVars, ServerTypeOK, ProcessTypeOK
  <1> QED
    BY <1>1, <1>2, <1>3, <1>4, <1>5, ServingTypes, MainTypes DEF Next

\* Every variable keeps its type and the queue its size: POOL_MIN_SIZE databases of the
\* start, or POOL_MAX_SIZE of the releases, whichever is more (pool.go:31-45,79-87).
THEOREM PoolTypes == Spec => []PoolTypeOK
  <1>1. Init => ServerTypeOK /\ ProcessTypeOK
    <2> SUFFICES ASSUME Init PROVE ServerTypeOK /\ ProcessTypeOK
      OBVIOUS
    <2>1. ServerTypeOK
      BY DEF Init, ServerTypeOK, Clean
    <2>2. ProcessTypeOK
      BY PoolAssumption DEF Init, ProcessTypeOK, PoolAssumption
    <2> QED
      BY <2>1, <2>2
  <1>2. OwnersInv /\ ServerTypeOK /\ ProcessTypeOK /\ [Next]_vars => ServerTypeOK' /\ ProcessTypeOK'
    BY TypesStep
  <1>3. OwnersInv /\ ServerTypeOK /\ ProcessTypeOK => PoolTypeOK
    BY DEF OwnersInv, OwnersTypeOK, ServerTypeOK, ProcessTypeOK, PoolTypeOK
  <1> QED
    BY <1>1, <1>2, <1>3, OwnersHold, PTL DEF Spec

-----------------------------------------------------------------------------
(* What a request reads.                                                     *)

Readings == {"previous", "current", "readPrevious", "readCurrent"}

FoundIn(n) == {mark \in public[n] : mark[2] \notin {"late", "reset"}}

ReadsIn(n, mark) == FoundIn(n) = {mark} \/ (FoundIn(n) = {} /\ EmptiedLate(n))

\* A database is empty when a schema is about to be executed in it, and holds that
\* schema when it is read, unless a reset that came late took it away.
ReadsOwn(r) ==
  /\ at[r] \in {"previous", "current"} => FoundIn(held[r]) = {}
  /\ at[r] = "readPrevious" => ReadsIn(held[r], <<r, "previous">>)
  /\ at[r] = "readCurrent"  => ReadsIn(held[r], <<r, "current">>)

TenantInv == other = Clean /\ \A r \in Requests : ReadsOwn(r)

\* A step that changes what one database holds, and moves those who do not read it.
LEMMA ChangeAt ==
  ASSUME OwnersInv, TenantInv, NEW n, other' = other,
         \A m \in Names \ {n} : public'[m] = public[m],
         \A q \in Requests :
           \/ at'[q] \notin Readings
           \/ at'[q] = at[q] /\ held'[q] = held[q] /\ held[q] # n
           \/ ReadsOwn(q)'
  PROVE  TenantInv'
  <1> SUFFICES ASSUME NEW q \in Requests PROVE ReadsOwn(q)'
    BY DEF TenantInv
  <1>1. CASE at'[q] \notin Readings
    BY <1>1 DEF ReadsOwn, Readings
  <1>2. CASE at'[q] \in Readings /\ at'[q] = at[q] /\ held'[q] = held[q] /\ held[q] # n
    <2>1. held[q] \in Names
      BY <1>2, WorkedIsOwn DEF Past, Readings
    <2>2. public'[held[q]] = public[held[q]]
      BY <1>2, <2>1
    <2> QED
      BY <1>2, <2>2 DEF TenantInv, ReadsOwn, ReadsIn, FoundIn, EmptiedLate
  <1> QED
    BY <1>1, <1>2

\* The calls of docker.go change what one database holds.
LEMMA CallsChangeOne ==
  ASSUME ServerTypeOK, OutsidePublic = FALSE, other = Clean, NEW n \in Names, NEW mark \in Marks
  PROVE  /\ ResetDatabase(n) \/ Dropped(n) \/ NotDropped(n) \/ Created(n) \/ Emptied(n)
              \/ Executed(n, mark) \/ GivenUp(n, mark) \/ ResetGivenUp(n, mark) =>
              other' = other /\ \A m \in Names \ {n} : public'[m] = public[m]
         /\ ResetDatabase(n) \/ Created(n) => FoundIn(n)' = {}
         /\ Executed(n, mark) /\ mark[2] \notin {"late", "reset"} => FoundIn(n)' = FoundIn(n) \cup {mark}
  <1>1. Emptied(n) => /\ other' = other /\ \A m \in Names \ {n} : public'[m] = public[m]
                      /\ FoundIn(n)' = {}
    BY DEF Emptied, FoundIn, ServerTypeOK, Clean
  <1>2. ResetDatabase(n) => /\ other' = other /\ \A m \in Names \ {n} : public'[m] = public[m]
                            /\ FoundIn(n)' = {}
    BY DEF ResetDatabase, FoundIn, ServerTypeOK
  <1>3. NotDropped(n) => other' = other /\ \A m \in Names : public'[m] = public[m]
    BY DEF NotDropped, FoundIn
  <1>4. Executed(n, mark) => /\ other' = other /\ \A m \in Names \ {n} : public'[m] = public[m]
                             /\ mark[2] \notin {"late", "reset"} => FoundIn(n)' = FoundIn(n) \cup {mark}
    BY DEF Executed, FoundIn, ServerTypeOK
  <1>5. GivenUp(n, mark) => other' = other /\ \A m \in Names \ {n} : public'[m] = public[m]
    BY <1>4 DEF GivenUp, serverVars
  <1>6. ResetGivenUp(n, mark) => other' = other /\ \A m \in Names \ {n} : public'[m] = public[m]
    BY <1>2 DEF ResetGivenUp, serverVars
  <1> QED
    BY <1>1, <1>2, <1>3, <1>4, <1>5, <1>6 DEF Dropped, Created

\* The others keep their databases while one request calls the server.
LEMMA OthersRead ==
  ASSUME OwnersInv, NEW r \in Requests, Past(r),
         \A q \in Requests \ {r} : at'[q] = at[q] /\ held'[q] = held[q]
  PROVE  \A q \in Requests \ {r} :
           at'[q] \notin Readings \/ (at'[q] = at[q] /\ held'[q] = held[q] /\ held[q] # held[r])
  BY WorkedIsOwn

LEMMA TenantCalls ==
  ASSUME OwnersInv, ServerTypeOK, TenantInv, OutsidePublic = FALSE, NEW r \in Requests,
         \/ ResetTaken(r) \/ ResetTakenFails(r) \/ DropTaken(r) \/ Execute(r) \/ ExecuteFails(r)
         \/ ResetMid(r)
  PROVE  TenantInv'
  <1>1. Past(r)
    BY DEF ResetTaken, ResetTakenFails, DropTaken, ResetMid, Execute, ExecuteFails, Past
  <1>2. PICK n \in Names : n = held[r]
    BY <1>1, WorkedIsOwn
  <1>0. <<r, "reset">> \in Marks
    BY DEF Marks
  <1>3. at[r] \in {"previous", "current"} => <<r, at[r]>> \in Marks /\ <<r, at[r]>>[2] \notin {"late", "reset"}
    BY DEF Marks
  <1>4. /\ \A q \in Requests \ {r} : at'[q] = at[q] /\ held'[q] = held[q]
        /\ held'[r] = held[r] \/ at'[r] \notin Readings
    BY DEF ResetTaken, ResetTakenFails, DropTaken, ResetMid, Execute, ExecuteFails, Begin, Go,
       Reading, ownerVars, OwnersInv, OwnersTypeOK, RequestSteps, Readings
  <1>5. other' = other /\ \A m \in Names \ {n} : public'[m] = public[m]
    <2>1. CASE Execute(r) \/ ExecuteFails(r)
      BY <1>2, <1>3, <1>0, <2>1, CallsChangeOne
      DEF Execute, ExecuteFails, TenantInv, serverVars, FoundIn
    <2>2. CASE ~(Execute(r) \/ ExecuteFails(r))
      BY <1>2, <1>0, <2>2, CallsChangeOne
      DEF ResetTaken, ResetTakenFails, DropTaken, ResetMid, TenantInv, serverVars, FoundIn
    <2> QED
      BY <2>1, <2>2
  <1>6. at'[r] \notin Readings \/ ReadsOwn(r)'
    <2>1. CASE ResetTaken(r) \/ ResetMid(r)
      <3>1. \/ at'[r] \notin Readings
            \/ at'[r] \in {"previous", "current"} /\ held'[r] = n /\ ResetDatabase(n)
        BY <1>2, <2>1 DEF ResetTaken, ResetMid, Begin, Go, ownerVars, OwnersInv, OwnersTypeOK, Readings
      <3>2. ResetDatabase(n) => FoundIn(n)' = {}
        BY <1>0, CallsChangeOne DEF TenantInv
      <3> QED
        BY <3>1, <3>2 DEF ReadsOwn
    <2>2. CASE ResetTakenFails(r) \/ DropTaken(r) \/ ExecuteFails(r)
      BY <2>2 DEF ResetTakenFails, DropTaken, ExecuteFails, Go, OwnersInv, OwnersTypeOK, Readings
    <2>3. CASE Execute(r)
      <3>1. /\ at[r] \in {"previous", "current"} /\ at'[r] = Reading(at[r]) /\ held'[r] = n
            /\ Executed(n, <<r, at[r]>>)
        BY <1>2, <2>3 DEF Execute, Go, ownerVars, OwnersInv, OwnersTypeOK
      <3>2. PICK mark \in Marks : mark = <<r, at[r]>> /\ mark[2] \notin {"late", "reset"}
        BY <1>3, <3>1
      <3>3. FoundIn(n)' = FoundIn(n) \cup {mark}
        BY <3>1, <3>2, CallsChangeOne DEF TenantInv
      <3>4. FoundIn(n) = {}
        BY <1>2, <3>1 DEF TenantInv, ReadsOwn
      <3> QED
        BY <3>1, <3>2, <3>3, <3>4 DEF ReadsOwn, ReadsIn, Reading
    <2> QED
      BY <2>1, <2>2, <2>3
  <1> QED
    BY <1>1, <1>2, <1>4, <1>5, <1>6, OthersRead, ChangeAt

\* A request takes a database, or gives it up: it reads none at that moment, but for the
\* one it has just created.
LEMMA TenantMoves ==
  ASSUME OwnersInv, ServerTypeOK, TenantInv, OutsidePublic = FALSE, NEW r \in Requests,
         \/ Arrive(r) \/ AcquirePooled(r) \/ AcquireNew(r) \/ Create(r) \/ CreateFails(r) \/ Release(r)
         \/ Introspect(r) \/ IntrospectFails(r)
  PROVE  TenantInv'
  <1>1. \A q \in Requests \ {r} : at'[q] = at[q] /\ held'[q] = held[q]
    BY DEF Arrive, AcquirePooled, AcquireNew, Create, CreateFails, Release, Introspect,
       IntrospectFails, Answer, Begin, Go, ownerVars, OwnersInv, OwnersTypeOK
  <1>2. CASE Create(r) \/ CreateFails(r)
    <2>1. PICK n \in Names : n = held[r]
      BY <1>2, UncreatedIsUnaccounted DEF Create, CreateFails
    <2>2. <<r, "late">> \in Marks
      BY DEF Marks
    <2>3. other' = other /\ \A m \in Names \ {n} : public'[m] = public[m]
      <3>1. /\ Created(n) => other' = other /\ \A m \in Names \ {n} : public'[m] = public[m]
            /\ Emptied(n) => other' = other /\ \A m \in Names \ {n} : public'[m] = public[m]
        BY <2>2, CallsChangeOne DEF TenantInv
      <3>2. \/ Created(n) \/ Emptied(n) \/ UNCHANGED <<public, other>>
        BY <1>2, <2>1 DEF Create, CreateFails
      <3> QED
        BY <3>1, <3>2 DEF FoundIn
    <2>4. \A q \in Requests \ {r} : held[q] # n
      <3>1. Holding(r) /\ n # NoName
        BY <1>2, <2>1 DEF Create, CreateFails, Holding, Names, NoName
      <3> QED
        BY <2>1, <3>1 DEF OwnersInv, Disjoint
    <2>5. at'[r] \notin Readings \/ ReadsOwn(r)'
      <3>1. CASE Create(r)
        <4>1. /\ at'[r] \in {"previous", "current"} /\ held'[r] = n
              /\ Created(n)
          BY <2>1, <3>1 DEF Create, Begin, Go, ownerVars, OwnersInv, OwnersTypeOK
        <4>2. FoundIn(n)' = {}
          BY <2>2, <4>1, CallsChangeOne DEF TenantInv
        <4> QED
          BY <4>1, <4>2 DEF ReadsOwn
      <3>2. CASE CreateFails(r)
        BY <3>2 DEF CreateFails, Answer, Go, OwnersInv, OwnersTypeOK, Readings
      <3> QED
        BY <1>2, <3>1, <3>2
    <2> QED
      BY <1>1, <2>3, <2>4, <2>5, ChangeAt
  <1>3. CASE \/ Arrive(r) \/ AcquirePooled(r) \/ AcquireNew(r) \/ Release(r)
             \/ Introspect(r) \/ IntrospectFails(r)
    <2>1. at'[r] \notin Readings
      BY <1>3 DEF Arrive, AcquirePooled, AcquireNew, Release, Introspect, IntrospectFails,
         Answer, Go, OwnersInv, OwnersTypeOK, Readings
    <2>2. UNCHANGED <<public, other>>
      BY <1>3 DEF Arrive, AcquirePooled, AcquireNew, Release, Introspect, IntrospectFails, serverVars
    <2> SUFFICES ASSUME NEW q \in Requests PROVE ReadsOwn(q)'
      BY <2>2 DEF TenantInv
    <2>3. CASE q = r
      BY <2>1, <2>3 DEF ReadsOwn, Readings
    <2>4. CASE q # r
      BY <1>1, <2>2, <2>4 DEF TenantInv, ReadsOwn, ReadsIn, FoundIn, EmptiedLate
    <2> QED
      BY <2>3, <2>4
  <1> QED
    BY <1>2, <1>3

\* The process works on databases nobody holds.
LEMMA TenantDrops ==
  ASSUME OwnersInv, ServerTypeOK, TenantInv, OutsidePublic = FALSE, NEW n \in Names,
         \A q \in Requests : held[q] # n \/ at'[q] \notin Readings,
         \A q \in Requests : (at'[q] = at[q] /\ held'[q] = held[q]) \/ at'[q] \notin Readings,
         \/ Emptied(n)
         \/ UNCHANGED <<public, other>>
  PROVE  TenantInv'
  <1>1. CASE Requests = {}
    <2>1. other' = other
      BY DEF Emptied, TenantInv, Clean
    <2> QED
      BY <1>1, <2>1 DEF TenantInv
  <1>2. CASE Requests # {}
    <2>1. PICK r \in Requests : <<r, "late">> \in Marks
      BY <1>2 DEF Marks
    <2>2. other' = other /\ \A m \in Names \ {n} : public'[m] = public[m]
      <3>1. Emptied(n) => other' = other /\ \A m \in Names \ {n} : public'[m] = public[m]
        BY <2>1, CallsChangeOne DEF TenantInv
      <3> QED
        BY <3>1 DEF FoundIn
    <2> QED
      BY <2>2, ChangeAt
  <1> QED
    BY <1>1, <1>2

LEMMA TenantStep ==
  ASSUME OwnersInv, ServerTypeOK, TenantInv, OutsidePublic = FALSE, [Next]_vars
  PROVE  TenantInv'
  <1>1. ASSUME NEW n \in Names, DropReleased(n) \/ CloseOne(n) PROVE TenantInv'
    <2>1. \A q \in Requests : held[q] # n
      BY <1>1 DEF DropReleased, CloseOne, OwnersInv, Disjoint
    <2>2. UNCHANGED <<at, held>> /\ (Emptied(n) \/ UNCHANGED <<public, other>>)
      BY <1>1 DEF DropReleased, CloseOne, Dropped, NotDropped, serverVars
    <2> QED
      BY <2>1, <2>2, TenantDrops
  <1>2. ASSUME Warm \/ WarmFails PROVE TenantInv'
    <2>1. Len(databases) < MinSize /\ counter \in Nat /\ counter = Len(databases)
      BY <1>2, MaxNamesType DEF Warm, WarmFails, OwnersInv, OwnersTypeOK, StartIsAlone
    <2>2. MinSize \in Nat /\ Cardinality(Requests) \in Nat
      BY FS_CardinalityType, PoolAssumption DEF PoolAssumption
    <2>3. PICK n \in Names : n = counter
      BY <2>1, <2>2 DEF Names, MaxNames
    <2>4. \A q \in Requests : at'[q] \notin Readings
      BY <1>2 DEF Warm, WarmFails, Gone, OwnersInv, StartIsAlone, Idle, Readings
    <2>5. Emptied(n) \/ UNCHANGED <<public, other>>
      BY <1>2, <2>3 DEF Warm, WarmFails, Created
    <2> QED
      BY <2>4, <2>5, TenantDrops
  <1>3. ASSUME Exit \/ Crash PROVE TenantInv'
    <2>1. \A q \in Requests : at'[q] \notin Readings
      BY <1>3 DEF Exit, Crash, Gone, Readings
    <2>2. other' = other
      BY <1>3 DEF Exit, Crash
    <2> QED
      BY <2>1, <2>2 DEF TenantInv, ReadsOwn, Readings
  <1>4. ASSUME NEW n \in Names, LateRuns(n) \/ LateCancelled(n) PROVE TenantInv'
    <2>1. UNCHANGED <<at, held, other>>
      BY <1>4 DEF LateRuns, LateCancelled, ownerVars
    <2>2. ASSUME NEW m \in Names
          PROVE  \/ FoundIn(m)' = FoundIn(m) /\ (EmptiedLate(m) => EmptiedLate(m)')
                 \/ FoundIn(m)' = {} /\ EmptiedLate(m)'
      <3>1. \/ public'[m] = public[m]
            \/ \E mark \in Marks : mark[2] = "reset" /\ public'[m] = {mark}
            \/ \E mark \in Marks : mark[2] = "late" /\ public'[m] = public[m] \cup {mark}
        <4>1. CASE LateCancelled(n)
          BY <4>1 DEF LateCancelled
        <4>2. CASE LateRuns(n)
          <5>1. PICK mark \in late[n] :
                  \/ mark[2] = "reset" /\ public' = [public EXCEPT ![n] = {mark}]
                  \/ public' = [public EXCEPT ![n] = @ \cup {<<mark[1], "late">>}]
            BY <4>2 DEF LateRuns
          <5>2. mark \in Marks /\ <<mark[1], "late">> \in Marks
            BY DEF ServerTypeOK, Marks
          <5>3. public'[m] = public[m] \/ m = n
            BY <5>1 DEF ServerTypeOK
          <5>4. m = n => \/ mark[2] = "reset" /\ public'[m] = {mark}
                         \/ public'[m] = public[m] \cup {<<mark[1], "late">>}
            BY <5>1 DEF ServerTypeOK
          <5> QED
            BY <5>2, <5>3, <5>4
        <4> QED
          BY <1>4, <4>1, <4>2
      <3>2. ASSUME public'[m] = public[m]
            PROVE  FoundIn(m)' = FoundIn(m) /\ (EmptiedLate(m) => EmptiedLate(m)')
        BY <3>2 DEF FoundIn, EmptiedLate
      <3>3. ASSUME NEW mark \in Marks, mark[2] = "reset", public'[m] = {mark}
            PROVE  FoundIn(m)' = {} /\ EmptiedLate(m)'
        BY <3>3 DEF FoundIn, EmptiedLate
      <3>4. ASSUME NEW mark \in Marks, mark[2] = "late", public'[m] = public[m] \cup {mark}
            PROVE  FoundIn(m)' = FoundIn(m) /\ (EmptiedLate(m) => EmptiedLate(m)')
        BY <3>4 DEF FoundIn, EmptiedLate
      <3> QED
        BY <3>1, <3>2, <3>3, <3>4
    <2> SUFFICES ASSUME NEW q \in Requests, at[q] \in Readings PROVE ReadsOwn(q)'
      BY <2>1 DEF TenantInv, ReadsOwn, Readings
    <2>3. PICK m \in Names : m = held[q]
      BY WorkedIsOwn DEF Past, Readings
    <2>4. ReadsOwn(q)
      BY DEF TenantInv
    <2> QED
      BY <2>1, <2>2, <2>3, <2>4 DEF ReadsOwn, ReadsIn
  <1>5. ASSUME UNCHANGED <<at, held, public, other>> PROVE TenantInv'
    BY <1>5 DEF TenantInv, ReadsOwn, ReadsIn, FoundIn, EmptiedLate
  <1>6. CASE (\E r \in Requests : Expire(r)) \/ Serve \/ Signal \/ Shutdown \/ Restart \/ UNCHANGED vars
    BY <1>5, <1>6 DEF Expire, Serve, Signal, Shutdown, Restart, vars, ownerVars, serverVars
  <1> QED
    BY <1>1, <1>2, <1>3, <1>4, <1>6, TenantCalls, TenantMoves DEF Next, Serving, Main

\* As long as no request creates objects outside schema public, a database whose schema is
\* introspected holds that schema only, whoever used it before and however that ended;
\* what a client had given up on excepted: SQL of its own that is added, or a reset that
\* takes the schema away (handler.go:122-163, docker.go:75).
THEOREM ReadsOwnObjects ==
  ASSUME OutsidePublic = FALSE
  PROVE  Spec => []OnlyOwnObjects
  <1>1. Init => TenantInv
    BY DEF Init, TenantInv, ReadsOwn
  <1>2. OwnersInv /\ ServerTypeOK /\ TenantInv /\ [Next]_vars => TenantInv'
    BY TenantStep
  <1>3. OwnersInv /\ TenantInv => OnlyOwnObjects
    <2> SUFFICES ASSUME OwnersInv, TenantInv, NEW r \in Requests,
                        at[r] \in {"readPrevious", "readCurrent"}
                 PROVE  Found(held[r]) = FoundIn(held[r]) /\ ReadsOwn(r)
      BY DEF OnlyOwnObjects, ReadsOwn, ReadsIn, Reads
    <2>1. held[r] \in Names
      BY WorkedIsOwn DEF Past
    <2> QED
      BY <2>1 DEF TenantInv, Found, FoundIn, Clean
  <1>4. PoolTypeOK => ServerTypeOK
    BY DEF PoolTypeOK, ServerTypeOK
  <1> QED
    BY <1>1, <1>2, <1>3, <1>4, OwnersHold, PoolTypes, PTL DEF Spec
=============================================================================
