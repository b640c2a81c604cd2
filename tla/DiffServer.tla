------------------------------- MODULE DiffServer -------------------------------
(***************************************************************************)
(* A POST /diff request on its way through the API server: the rate        *)
(* limiter's middleware, the cache, the diff, and the answer               *)
(* (internal/api/handler.go, internal/api/ratelimit.go:88-102).  Requests  *)
(* run concurrently and share the limiter, the cache, and the result       *)
(* objects the cache hands out by pointer.                                 *)
(*                                                                         *)
(* What performDiff does with the pool is DatabasePool's subject; here it  *)
(* takes some time and succeeds or fails.                                  *)
(***************************************************************************)
EXTENDS Naturals, FiniteSets, Sequences

CONSTANTS Requests, Clients, Keys, Limit, Window, TTL, MaxSize, MaxTime

VARIABLES
  now,      \* the clock
  clients, granted, answer,  \* the limiter
  entries,  \* the cache
  at,       \* what each request does next
  ask,      \* its client and its cache key
  ptr,      \* the result object it got from the cache or made
  objects,  \* the result objects: the key they were computed for, their field Cached,
            \* and (history) when they were stored
  reply     \* what was sent

\* The object a request computes is known by the request's name.
Limiter == INSTANCE RateLimiter
Cache   == INSTANCE DiffCache WITH Results <- Requests

ASSUME ServerAssumption ==
  /\ IsFiniteSet(Requests)
  /\ Limiter!LimiterAssumption
  /\ Cache!CacheAssumption

limiterVars == <<clients, granted, answer>>
vars == <<now, limiterVars, entries, at, ask, ptr, objects, reply>>

NoPtr    == "none"
NoReply  == [status |-> 0, xcache |-> "", cached |-> FALSE, remaining |-> 0, key |-> NoPtr]
NoObject == [key |-> NoPtr, cached |-> FALSE, stored |-> 0]
RequestSteps == {"new", "remaining", "get", "mark", "diff", "store", "encode", "done"}

ServerTypeOK ==
  /\ Limiter!LimiterTypeOK
  /\ Cache!CacheTypeOK
  /\ at \in [Requests -> RequestSteps]
  /\ ask \in [Requests -> [client : Clients, key : Keys]]
  /\ ptr \in [Requests -> Requests \cup {NoPtr}]
  /\ objects \in [Requests -> [key : Keys \cup {NoPtr}, cached : BOOLEAN, stored : 0..MaxTime]]
  /\ reply \in [Requests -> [status : {0, 200, 400, 429, 500}, xcache : {"", "HIT", "MISS"},
                             cached : BOOLEAN, remaining : 0..Limit, key : Keys \cup {NoPtr}]]

Init ==
  /\ Limiter!LimiterInit
  /\ Cache!CacheInit
  /\ at = [r \in Requests |-> "new"]
  /\ ask \in [Requests -> [client : Clients, key : Keys]]
  /\ ptr = [r \in Requests |-> NoPtr]
  /\ objects = [r \in Requests |-> NoObject]
  /\ reply = [r \in Requests |-> NoReply]

Go(r, step) == at' = [at EXCEPT ![r] = step]
-----------------------------------------------------------------------------
(* Middleware: Allow, then Remaining, with the mutex released in between.    *)
AskLimiter(r) ==
  /\ at[r] = "new"
  /\ Limiter!Allow(ask[r].client)
  /\ IF answer'.ok
     THEN Go(r, "remaining") /\ UNCHANGED reply
     ELSE Go(r, "done") /\ reply' = [reply EXCEPT ![r].status = 429]
  /\ UNCHANGED <<now, entries, ask, ptr, objects>>

SetHeader(r) ==
  /\ at[r] = "remaining"
  /\ reply' = [reply EXCEPT ![r].remaining = Limiter!Remaining(ask[r].client)]
  /\ Go(r, "get")
  /\ UNCHANGED <<now, limiterVars, entries, ask, ptr, objects>>

\* A method or a body that handleDiff does not take, after the limiter has counted it.
BadRequest(r) ==
  /\ at[r] = "get"
  /\ reply' = [reply EXCEPT ![r].status = 400]
  /\ Go(r, "done")
  /\ UNCHANGED <<now, limiterVars, entries, ask, ptr, objects>>

GetCached(r) ==
  /\ at[r] = "get"
  /\ IF Cache!Live(ask[r].key)
     THEN ptr' = [ptr EXCEPT ![r] = entries[ask[r].key].result] /\ Go(r, "mark")
     ELSE Go(r, "diff") /\ UNCHANGED ptr
  /\ UNCHANGED <<now, limiterVars, entries, ask, objects, reply>>

\* A bug: a hit is sent as it is in the cache.
Unmarked(r) ==
  /\ at[r] = "mark"
  /\ reply' = [reply EXCEPT ![r].xcache = "HIT"]
  /\ Go(r, "encode")
  /\ UNCHANGED <<now, limiterVars, entries, ask, ptr, objects>>

\* cached.Cached = true, through the shared pointer and without a lock.
MarkCached(r) ==
  /\ at[r] = "mark"
  /\ objects' = [objects EXCEPT ![ptr[r]].cached = TRUE]
  /\ reply' = [reply EXCEPT ![r].xcache = "HIT"]
  /\ Go(r, "encode")
  /\ UNCHANGED <<now, limiterVars, entries, ask, ptr>>

\* performDiff
Diff(r) ==
  /\ at[r] = "diff"
  /\ \/ /\ objects' = [objects EXCEPT ![r] = [key |-> ask[r].key, cached |-> FALSE, stored |-> 0]]
        /\ ptr' = [ptr EXCEPT ![r] = r]
        /\ Go(r, "store")
        /\ UNCHANGED reply
     \/ /\ reply' = [reply EXCEPT ![r].status = 500]
        /\ Go(r, "done")
        /\ UNCHANGED <<ptr, objects>>
  /\ UNCHANGED <<now, limiterVars, entries, ask>>

\* The result is in the cache, and can be hit, before its maker encodes it.
StoreResult(r) ==
  /\ at[r] = "store"
  /\ Cache!Set(ask[r].key, r)
  /\ objects' = [objects EXCEPT ![r].stored = now]
  /\ reply' = [reply EXCEPT ![r].xcache = "MISS"]
  /\ Go(r, "encode")
  /\ UNCHANGED <<now, limiterVars, ask, ptr>>

\* Encode reads the object while others may mark it.
Encode(r) ==
  /\ at[r] = "encode"
  /\ reply' = [reply EXCEPT ![r].status = 200, ![r].cached = objects[ptr[r]].cached,
                            ![r].key = objects[ptr[r]].key]
  /\ Go(r, "done")
  /\ UNCHANGED <<now, limiterVars, entries, ask, ptr, objects>>

Serving(r) ==
  \/ AskLimiter(r) \/ SetHeader(r) \/ BadRequest(r) \/ GetCached(r) \/ MarkCached(r)
  \/ Diff(r) \/ StoreResult(r) \/ Encode(r)

Background ==
  \/ Limiter!Cleanup /\ UNCHANGED <<now, entries, at, ask, ptr, objects, reply>>
  \/ Cache!CleanupCache /\ UNCHANGED <<now, limiterVars, at, ask, ptr, objects, reply>>
  \/ Limiter!Tick /\ UNCHANGED <<limiterVars, entries, at, ask, ptr, objects, reply>>

Next == Background \/ \E r \in Requests : Serving(r)

Spec == Init /\ [][Next]_vars

-----------------------------------------------------------------------------
\* A hit is answered with the diff of the schemas it asked for and marked as
\* cached, although the object is shared, may since have expired, and may have been
\* replaced by that of a concurrent miss (handler.go:99-104).
HitsAreMarked ==
  \A r \in Requests :
    reply[r].status = 200 /\ reply[r].xcache = "HIT" =>
      reply[r].cached /\ reply[r].key = ask[r].key

\* A result is handed out for at most TTL ticks after it was stored, whichever
\* request stored it and however often the entry was replaced (cache.go:51,68).
HitsAreFresh ==
  [][\A r \in Requests :
       at[r] = "get" /\ at'[r] = "mark" => now <= objects[ptr'[r]].stored + TTL]_vars

\* The limiter and the cache keep their promises to the requests that share them:
\* who is refused used up the limit within the last window's length ...
RefusedOnlyWhenUsed == Limiter!RefusedOnlyWhenUsed

\* ... and the entries that give way to a result are those nearest to expiry.
OldestGoes == Cache!OldestGoes

\* No more diffs are computed for a client than the limiter let through, and in no
\* window does that exceed the limit (ratelimit.go:33-54,88-102).
WorkIsLimited ==
  /\ \A c \in Clients :
       Cardinality({r \in Requests : at[r] # "new" /\ ask[r].client = c /\ reply[r].status # 429})
         = Len(granted[c])
  /\ Limiter!LimitPerWindow
=============================================================================
