------------------------------- MODULE DiffCache -------------------------------
(***************************************************************************)
(* The result cache of the API server (internal/api/cache.go).  Get, Set   *)
(* and the periodic cleanup hold the mutex from end to end, so each is one *)
(* step.  The key of a request stands for the hash of its two schemas; two *)
(* requests with equal keys are taken to have equal schemas.               *)
(***************************************************************************)
EXTENDS Naturals, FiniteSets

CONSTANTS
  Keys,     \* cache keys
  Results,  \* *DiffResult pointers
  TTL,      \* CACHE_TTL, in ticks
  MaxSize,  \* CACHE_MAX_SIZE
  MaxTime   \* bound: the clock stops there

CacheAssumption ==
  /\ IsFiniteSet(Keys)
  /\ "none" \notin Results  \* a pointer to a result is not nil
  /\ {TTL, MaxSize, MaxTime} \subseteq Nat

VARIABLES
  now,      \* the clock
  entries   \* the map: NoEntry, or a result and when it expires

NoEntry == [result |-> "none", expiresAt |-> 0]
Stored  == {k \in Keys : entries[k] # NoEntry}

\* An empty map cannot give anything up, so a limit of 0 still leaves one entry.
CacheTypeOK ==
  /\ entries \in [Keys -> [result : Results, expiresAt : 0..(MaxTime + TTL)] \cup {NoEntry}]
  /\ Cardinality(Stored) <= IF MaxSize = 0 THEN 1 ELSE MaxSize

CacheInit == entries = [k \in Keys |-> NoEntry]

\* A bug: an entry lives until the cleanup comes by.
LiveUntilCleanup(k) == entries[k] # NoEntry

\* Get: now.After(expiresAt), so an entry lives through the tick it expires at.
Live(k) == entries[k] # NoEntry /\ now <= entries[k].expiresAt

Without(k) == [entries EXCEPT ![k] = NoEntry]

\* A bug: the entry that has just come in is the one that goes.
EvictNewest == {k \in Stored : \A j \in Stored : entries[j].expiresAt <= entries[k].expiresAt}

\* Ties are decided by the iteration order of a Go map.
Oldest == {k \in Stored : \A j \in Stored : entries[k].expiresAt <= entries[j].expiresAt}

\* A bug: room is made when the cache is over its limit, not at it.
MakeRoomLate ==
  IF Cardinality(Stored) > MaxSize THEN {Without(k) : k \in Oldest} ELSE {entries}

\* evictOldest, even when the key is already there and takes no more room.
MakeRoom ==
  IF Cardinality(Stored) >= MaxSize /\ Stored # {} THEN {Without(k) : k \in Oldest}
                                                   ELSE {entries}

Set(k, result) ==
  \E room \in MakeRoom :
    entries' = [room EXCEPT ![k] = [result |-> result, expiresAt |-> now + TTL]]

CleanupCache ==
  entries' = [k \in Keys |-> IF Live(k) THEN entries[k] ELSE NoEntry]

Advance == now < MaxTime /\ now' = now + 1

CacheNext ==
  \/ /\ \E k \in Keys, r \in Results : Set(k, r)
     /\ UNCHANGED now
  \/ CleanupCache /\ UNCHANGED now
  \/ Advance /\ UNCHANGED entries

CacheSpec == now = 0 /\ CacheInit /\ [][CacheNext]_<<now, entries>>
-----------------------------------------------------------------------------
\* A live entry leaves the cache only when a full cache takes in a result, and no
\* entry that stays behind, save the one taken in, expires earlier (cache.go:62-86).
OldestGoes ==
  [][\A k \in Keys :
       Live(k) /\ entries'[k] = NoEntry =>
         /\ Cardinality(Stored) >= MaxSize
         /\ \A j \in Keys : entries'[j] = entries[j] /\ entries[j] # NoEntry =>
              entries[k].expiresAt <= entries[j].expiresAt]_entries
=============================================================================
