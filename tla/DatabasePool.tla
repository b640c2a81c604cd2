------------------------------ MODULE DatabasePool ------------------------------
(***************************************************************************)
(* The API server's pool of scratch databases and the requests that use it *)
(* (internal/api/pool.go, performDiff of internal/api/handler.go, start    *)
(* and shutdown of cmd/api/main.go, and the calls of                       *)
(* internal/docker/docker.go they make).                                   *)
(*                                                                         *)
(* PostgreSQL is external.  A database is known by whose SQL left objects  *)
(* in it, inside its schema public or outside.  A call whose context has   *)
(* expired fails, whether or not the server had done, or is yet to do,     *)
(* what it asked.                                                          *)
(***************************************************************************)
EXTENDS Integers, Sequences, FiniteSets

CONSTANTS
  Requests,       \* POST /diff requests; each arrives once
  MinSize,        \* POOL_MIN_SIZE
  MaxSize,        \* POOL_MAX_SIZE
  Failures,       \* may a call to the server fail by itself?
  Timeouts,       \* may the context of a request, or of the shutdown, expire?
  LateSQL,        \* may a statement the client gave up on still be executed?
  OutsidePublic,  \* may a request's SQL create objects outside schema public?
  MaxRestarts     \* bound: how often the process is started again

ASSUME PoolAssumption ==
  /\ IsFiniteSet(Requests)
  /\ Requests \cap {"pool", "drops", "closing"} = {}
  /\ {MinSize, MaxSize, MaxRestarts} \subseteq Nat
  /\ {Failures, Timeouts, LateSQL, OutsidePublic} \subseteq BOOLEAN

\* diff_0, diff_1, ...  A process warms the pool with MinSize of them, and a
\* request creates at most one.
MaxNames == MinSize + Cardinality(Requests)
Names    == 0..(MaxNames - 1)
NoName   == -1
\* One request's SQL in a database; "late": run after the client had given up on it.
\* "reset": a reset that ran after that, and dropped whatever was there.
Marks    == Requests \X {"previous", "current", "late", "reset"}
Clean    == [n \in Names |-> {}]

VARIABLES
  proc,      \* the process
  restarts,  \* how often it was started again
  counter,   \* number of the next database
  databases, \* the pool, a queue
  drops,     \* databases handed to a goroutine that drops them
  closing,   \* databases Shutdown has taken and is dropping
  at,        \* what each request does next
  held,      \* the database it works on
  expired,   \* its context is done, while it runs
  exists,    \* databases of the server
  public,    \* the SQL that left objects in schema public of each
  other,     \* the SQL that left objects elsewhere in it
  late,      \* statements still on their way to it
  lost       \* databases the process gave up, or left behind: see NothingForgotten

ownerVars  == <<counter, databases, drops, closing, held>>
serverVars == <<exists, public, other, late, lost>>
vars == <<proc, restarts, ownerVars, at, expired, serverVars>>

RequestSteps == {"new", "acquire", "reset", "drop", "create", "previous", "readPrevious",
                 "resetMid", "current", "readCurrent", "release", "done"}

PoolTypeOK ==
  /\ proc \in {"start", "serve", "stopping", "closing", "closingLate", "down"}
  /\ restarts \in 0..MaxRestarts
  /\ counter \in 0..MaxNames
  /\ databases \in Seq(Names)
  /\ Len(databases) <= MinSize \/ Len(databases) <= MaxSize
  /\ drops \in SUBSET Names
  /\ closing \in SUBSET Names
  /\ at \in [Requests -> RequestSteps]
  /\ held \in [Requests -> Names \cup {NoName}]
  /\ expired \in [Requests -> BOOLEAN]
  /\ {exists, lost} \subseteq SUBSET Names
  /\ {public, other, late} \subseteq [Names -> SUBSET Marks]

Init ==
  /\ proc = "start"
  /\ restarts = 0
  /\ counter = 0
  /\ databases = <<>>
  /\ drops = {}
  /\ closing = {}
  /\ at = [r \in Requests |-> "new"]
  /\ held = [r \in Requests |-> NoName]
  /\ expired = [r \in Requests |-> FALSE]
  /\ exists = {}
  /\ public = Clean
  /\ other = Clean
  /\ late = Clean
  /\ lost = {}

Pooled  == {databases[i] : i \in DOMAIN databases}
Past(r) == at[r] \notin {"new", "acquire", "create", "done"}

\* The databases somebody of the process will use, or drop.
Accounted == Pooled \cup drops \cup closing \cup {held[r] : r \in {q \in Requests : Past(q)}}
Go(r, step)    == at' = [at EXCEPT ![r] = step]
Answer(r)      ==
  /\ Go(r, "done")
  /\ held' = [held EXCEPT ![r] = NoName]
  /\ expired' = [expired EXCEPT ![r] = FALSE]
CanFail(r)     == expired[r] \/ Failures
Begin(r)       == \E step \in {"previous", "current"} : Go(r, step)  \* is previous empty?
-----------------------------------------------------------------------------
(* The server                                                                *)

\* DROP SCHEMA public CASCADE; CREATE SCHEMA public.
ResetDatabase(n) == public' = [public EXCEPT ![n] = {}] /\ UNCHANGED <<exists, other, late, lost>>

Emptied(n) ==
  /\ public' = [public EXCEPT ![n] = {}]
  /\ other'  = [other EXCEPT ![n] = {}]
  /\ late'   = [late EXCEPT ![n] = {}]

\* DROP DATABASE ... WITH (FORCE) ends the sessions, and what they were about to run.
Dropped(n) == exists' = exists \ {n} /\ Emptied(n) /\ lost' = lost

\* The call to drop it reports an error, which is ignored.
NotDropped(n) == lost' = lost \cup {n} /\ UNCHANGED <<exists, public, other, late>>

\* DROP DATABASE IF EXISTS, whose error is ignored although it leaves the database
\* (and its sessions); then CREATE DATABASE.
Created(n) == late[n] = {} /\ exists' = exists \cup {n} /\ Emptied(n)

\* A statement with several commands is one transaction.
Executed(n, mark) ==
  /\ public' = [public EXCEPT ![n] = @ \cup {mark}]
  /\ \/ other' = other
     \/ OutsidePublic /\ other' = [other EXCEPT ![n] = @ \cup {mark}]
  /\ UNCHANGED <<exists, late, lost>>

\* A statement whose client has given up: it never ran, it ran, or it is yet to run.
GivenUp(n, mark) ==
  \/ UNCHANGED serverVars
  \/ Executed(n, mark)
  \/ LateSQL /\ late' = [late EXCEPT ![n] = @ \cup {mark}] /\ UNCHANGED <<exists, public, other, lost>>

\* A reset whose client has given up, likewise: DROP SCHEMA public CASCADE may be on
\* its way when the database already serves another request.
ResetGivenUp(n, mark) ==
  \/ UNCHANGED serverVars
  \/ ResetDatabase(n)
  \/ LateSQL /\ late' = [late EXCEPT ![n] = @ \cup {mark}] /\ UNCHANGED <<exists, public, other, lost>>

LateRuns(n) ==
  /\ \E mark \in late[n] :
       /\ late' = [late EXCEPT ![n] = @ \ {mark}]
       /\ \/ mark[2] = "reset" /\ public' = [public EXCEPT ![n] = {mark}] /\ other' = other
          \/ /\ mark[2] # "reset"
             /\ public' = [public EXCEPT ![n] = @ \cup {<<mark[1], "late">>}]
             /\ \/ other' = other
                \/ OutsidePublic /\ other' = [other EXCEPT ![n] = @ \cup {<<mark[1], "late">>}]
  /\ UNCHANGED <<proc, restarts, ownerVars, at, expired, exists, lost>>

LateCancelled(n) ==
  /\ \E mark \in late[n] : late' = [late EXCEPT ![n] = @ \ {mark}]
  /\ UNCHANGED <<proc, restarts, ownerVars, at, expired, exists, public, other, lost>>

-----------------------------------------------------------------------------
(* A request                                                                 *)

Arrive(r) ==
  /\ proc = "serve"
  /\ at[r] = "new"
  /\ Go(r, "acquire")
  /\ UNCHANGED <<proc, restarts, ownerVars, expired, serverVars>>

\* The request's timeout, or its client hangs up.
Expire(r) ==
  /\ Timeouts
  /\ at[r] \notin {"new", "done"}
  /\ ~expired[r]
  /\ expired' = [expired EXCEPT ![r] = TRUE]
  /\ UNCHANGED <<proc, restarts, ownerVars, at, serverVars>>

\* A bug: the database stays in the queue while it is being reset.
AcquirePeek(r) ==
  /\ at[r] = "acquire"
  /\ databases # <<>>
  /\ held' = [held EXCEPT ![r] = Head(databases)]
  /\ Go(r, "reset")
  /\ UNCHANGED <<proc, restarts, counter, databases, drops, closing, expired, serverVars>>

\* Acquire, its locked part, when a database is free ...
AcquirePooled(r) ==
  /\ at[r] = "acquire"
  /\ databases # <<>>
  /\ held' = [held EXCEPT ![r] = Head(databases)]
  /\ databases' = Tail(databases)
  /\ Go(r, "reset")
  /\ UNCHANGED <<proc, restarts, counter, drops, closing, expired, serverVars>>

\* ... and, with createDatabase, when none is: there is no limit to how many exist.
AcquireNew(r) ==
  /\ at[r] = "acquire"
  /\ databases = <<>>
  /\ counter < MaxNames
  /\ counter' = counter + 1
  /\ held' = [held EXCEPT ![r] = counter]
  /\ Go(r, "create")
  /\ UNCHANGED <<proc, restarts, databases, drops, closing, expired, serverVars>>

ResetTaken(r) ==
  /\ at[r] = "reset"
  /\ ~expired[r]
  /\ ResetDatabase(held[r])
  /\ Begin(r)
  /\ UNCHANGED <<proc, restarts, ownerVars, expired>>

ResetTakenFails(r) ==
  /\ at[r] = "reset"
  /\ CanFail(r)
  /\ ResetGivenUp(held[r], <<r, "reset">>)
  /\ Go(r, "drop")
  /\ UNCHANGED <<proc, restarts, ownerVars, expired>>

\* A bug: a database that could not be reset goes back to the queue.
DropTakenRequeues(r) ==
  /\ at[r] = "drop"
  /\ databases' = Append(databases, held[r])
  /\ held' = [held EXCEPT ![r] = NoName]
  /\ Go(r, "acquire")
  /\ UNCHANGED <<proc, restarts, counter, drops, closing, expired, serverVars>>

\* DropPoolDatabase with a fresh context, its error ignored, then Acquire again.
DropTaken(r) ==
  /\ at[r] = "drop"
  /\ Dropped(held[r]) \/ (Failures /\ NotDropped(held[r]))
  /\ held' = [held EXCEPT ![r] = NoName]
  /\ Go(r, "acquire")
  /\ UNCHANGED <<proc, restarts, counter, databases, drops, closing, expired>>

Create(r) ==
  /\ at[r] = "create"
  /\ ~expired[r]
  /\ Created(held[r])
  /\ lost' = lost \ {held[r]}
  /\ Begin(r)
  /\ UNCHANGED <<proc, restarts, ownerVars, expired>>

\* The error is the request's answer; nothing is released, even if the database
\* was created all the same.
CreateFails(r) ==
  /\ at[r] = "create"
  /\ CanFail(r) \/ late[held[r]] # {}
  /\ \/ UNCHANGED <<exists, public, other, late>>
     \/ Created(held[r])
     \/ late[held[r]] = {} /\ exists' = exists \ {held[r]} /\ Emptied(held[r])
  /\ lost' = lost \cup ({held[r]} \cap exists')
  /\ Answer(r)
  /\ UNCHANGED <<proc, restarts, counter, databases, drops, closing>>

Reading(step) == IF step = "previous" THEN "readPrevious" ELSE "readCurrent"

\* ExecutePoolSQL of the previous or the current schema.
Execute(r) ==
  /\ at[r] \in {"previous", "current"}
  /\ ~expired[r]
  /\ Executed(held[r], <<r, at[r]>>)
  /\ Go(r, Reading(at[r]))
  /\ UNCHANGED <<proc, restarts, ownerVars, expired>>

\* The server rejects the SQL, or the call fails.
ExecuteFails(r) ==
  /\ at[r] \in {"previous", "current"}
  /\ UNCHANGED serverVars \/ (CanFail(r) /\ GivenUp(held[r], <<r, at[r]>>))
  /\ Go(r, "release")
  /\ UNCHANGED <<proc, restarts, ownerVars, expired>>

\* introspect.Database
Introspect(r) ==
  /\ at[r] \in {"readPrevious", "readCurrent"}
  /\ ~expired[r]
  /\ Go(r, IF at[r] = "readPrevious" THEN "resetMid" ELSE "release")
  /\ UNCHANGED <<proc, restarts, ownerVars, expired, serverVars>>

IntrospectFails(r) ==
  /\ at[r] \in {"readPrevious", "readCurrent"}
  /\ CanFail(r)
  /\ Go(r, "release")
  /\ UNCHANGED <<proc, restarts, ownerVars, expired, serverVars>>

\* A bug: the current schema is executed on top of the previous one.
ResetMidSkipped(r) ==
  /\ at[r] = "resetMid"
  /\ Go(r, "current")
  /\ UNCHANGED <<proc, restarts, ownerVars, expired, serverVars>>

ResetMid(r) ==
  /\ at[r] = "resetMid"
  /\ \/ ~expired[r] /\ ResetDatabase(held[r]) /\ Go(r, "current")
     \/ /\ CanFail(r)
        /\ ResetGivenUp(held[r], <<r, "reset">>)
        /\ Go(r, "release")
  /\ UNCHANGED <<proc, restarts, ownerVars, expired>>

\* A bug: a database the full pool has no room for is forgotten.
ReleaseForgets(r) ==
  /\ at[r] = "release"
  /\ databases' = IF Len(databases) < MaxSize THEN Append(databases, held[r]) ELSE databases
  /\ Answer(r)
  /\ UNCHANGED <<proc, restarts, counter, drops, closing, serverVars>>

\* A bug: the pool takes back whatever it is given.
ReleaseUnbounded(r) ==
  /\ at[r] = "release"
  /\ databases' = Append(databases, held[r])
  /\ Answer(r)
  /\ UNCHANGED <<proc, restarts, counter, drops, closing, serverVars>>

\* Release, deferred by performDiff on every path after Acquire.
Release(r) ==
  /\ at[r] = "release"
  /\ IF Len(databases) < MaxSize
     THEN databases' = Append(databases, held[r]) /\ drops' = drops
     ELSE drops' = drops \cup {held[r]} /\ databases' = databases
  /\ Answer(r)
  /\ UNCHANGED <<proc, restarts, counter, closing, serverVars>>

\* The goroutine of Release.
DropReleased(n) ==
  /\ n \in drops
  /\ drops' = drops \ {n}
  /\ Dropped(n) \/ (Failures /\ NotDropped(n))
  /\ UNCHANGED <<proc, restarts, counter, databases, closing, at, held, expired>>

-----------------------------------------------------------------------------
(* The process                                                               *)

\* Start, one round of its loop; nobody else uses the pool yet.
Warm ==
  /\ proc = "start"
  /\ Len(databases) < MinSize
  /\ Created(counter)
  /\ lost' = lost \ {counter}
  /\ counter' = counter + 1
  /\ databases' = Append(databases, counter)
  /\ UNCHANGED <<proc, restarts, drops, closing, held, at, expired>>

\* Everything the process had in memory is gone, its requests with it.
Gone(creating) ==
  /\ proc' = "down"
  /\ databases' = <<>>
  /\ drops' = {}
  /\ closing' = {}
  /\ lost' = lost \cup Accounted \cup (creating \cap exists')
  /\ expired' = [r \in Requests |-> FALSE]
  /\ held' = [r \in Requests |-> NoName]
  /\ at' = [r \in Requests |-> IF at[r] = "new" THEN "new" ELSE "done"]
  /\ UNCHANGED <<restarts, counter>>

\* log.Fatalf, whether or not the database was created.
WarmFails ==
  /\ proc = "start"
  /\ Len(databases) < MinSize
  /\ Failures \/ late[counter] # {}
  /\ UNCHANGED <<exists, public, other, late>> \/ Created(counter)
  /\ Gone({counter})

Serve ==
  /\ proc = "start"
  /\ Len(databases) >= MinSize
  /\ proc' = "serve"
  /\ UNCHANGED <<restarts, ownerVars, at, expired, serverVars>>

\* SIGINT or SIGTERM: server.Shutdown accepts no more requests.
Signal ==
  /\ proc = "serve"
  /\ proc' = "stopping"
  /\ UNCHANGED <<restarts, ownerVars, at, expired, serverVars>>

\* Shutdown, once the requests have been answered or 30 seconds have passed.  In
\* the latter case its context is the one that has just expired.
Shutdown ==
  /\ proc = "stopping"
  /\ \/ /\ \A r \in Requests : at[r] \in {"new", "done"}
        /\ proc' = "closing"
     \/ Timeouts /\ proc' = "closingLate"
  /\ closing' = Pooled
  /\ databases' = <<>>
  /\ UNCHANGED <<restarts, counter, drops, held, at, expired, serverVars>>

CloseOne(n) ==
  /\ n \in closing
  /\ closing' = closing \ {n}
  /\ \/ proc = "closing" /\ Dropped(n)
     \/ (proc = "closingLate" \/ Failures) /\ NotDropped(n)
  /\ UNCHANGED <<proc, restarts, counter, databases, drops, held, at, expired>>

Exit ==
  /\ proc \in {"closing", "closingLate"}
  /\ closing = {}
  /\ UNCHANGED <<exists, public, other, late>>
  /\ Gone({})

Crash ==
  /\ proc # "down"
  /\ Failures
  /\ UNCHANGED <<exists, public, other, late>>
  /\ Gone({})

Restart ==
  /\ proc = "down"
  /\ restarts < MaxRestarts
  /\ restarts' = restarts + 1
  /\ proc' = "start"
  /\ counter' = 0
  /\ UNCHANGED <<databases, drops, closing, held, at, expired, serverVars>>

-----------------------------------------------------------------------------
Serving(r) ==
  \/ AcquirePooled(r) \/ AcquireNew(r)
  \/ ResetTaken(r) \/ ResetTakenFails(r) \/ DropTaken(r)
  \/ Create(r) \/ CreateFails(r)
  \/ Execute(r) \/ ExecuteFails(r)
  \/ Introspect(r) \/ IntrospectFails(r)
  \/ ResetMid(r)
  \/ Release(r)

Main == Warm \/ WarmFails \/ Serve \/ Signal \/ Shutdown \/ Exit \/ Crash \/ Restart

Next ==
  \/ \E r \in Requests : Arrive(r) \/ Expire(r) \/ Serving(r)
  \/ \E n \in Names : DropReleased(n) \/ CloseOne(n) \/ LateRuns(n) \/ LateCancelled(n)
  \/ Main

Spec == Init /\ [][Next]_vars

\* net/http runs every request in its own goroutine; its database calls end when the
\* request's context does, and the one DROP that has no deadline (pool.go:67) is
\* taken to be answered by the server.
FairSpec == Spec /\ \A r \in Requests : WF_vars(Serving(r))
-----------------------------------------------------------------------------
(* Properties                                                                *)

Hands == Requests \cup {"pool", "drops", "closing"}

\* In whose hands each database is.
Owners(n) ==
  {r \in Requests : held[r] = n}
    \cup (IF n \in Pooled  THEN {"pool"}    ELSE {})
    \cup (IF n \in drops   THEN {"drops"}   ELSE {})
    \cup (IF n \in closing THEN {"closing"} ELSE {})

Use == INSTANCE ExclusiveUse WITH owners <- [n \in Names |-> Owners(n)]

\* A database is in one hand at a time -- a request's, the pool's or that of
\* whoever drops it -- across acquires, failed resets, releases, shutdown, crash
\* and the reuse of names after a restart (pool.go:58-99).
ExclusiveSpec == Use!Spec

\* What the pool offers and what a request works on exists on the server: nothing
\* drops a database that somebody can still be given (pool.go:67,86).
InUseExists == Pooled \cup {held[r] : r \in {q \in Requests : Past(q)}} \subseteq exists

\* The objects in database n that were executed there while their client waited.
Found(n) == {mark \in public[n] \cup other[n] : mark[2] \notin {"late", "reset"}}

\* Has a reset somebody had given up on emptied it since the last one that was waited for?
EmptiedLate(n) == \E mark \in public[n] : mark[2] = "reset"

Reads(n, mark) == Found(n) = {mark} \/ (Found(n) = {} /\ EmptiedLate(n))

\* While its schema is introspected a database holds the objects of that schema and
\* nothing else -- not those of an earlier request, nor of the same request's previous
\* schema -- although databases are released dirty (handler.go:132-160).  Only what the
\* server ran after its client had given up on it interferes: SQL that slips in
\* (docker.go:94), or a reset that takes the schema away again (docker.go:75).
OnlyOwnObjects ==
  \A r \in Requests :
    /\ at[r] = "readPrevious" => Reads(held[r], <<r, "previous">>)
    /\ at[r] = "readCurrent"  => Reads(held[r], <<r, "current">>)

\* The server holds exactly the databases the process accounts for and those it has
\* lost: whose CREATE or DROP reported an error, or that were there, or on their way,
\* when it died or exited (docker.go:35, pool.go:88, main.go:75).  None is forgotten on
\* a path that reports nothing: by the full pool, a failed reset, an error of the SQL, a
\* shutdown under running requests.
NothingForgotten == exists \ lost = Accounted

\* Every request that arrives is answered, however many databases of the pool it
\* finds unusable on the way (pool.go:66-69).
RequestsAnswered == \A r \in Requests : at[r] = "acquire" ~> at[r] = "done"
=============================================================================
