------------------------------ MODULE ServerProofs ------------------------------
(***************************************************************************)
(* Proofs about DiffServer for any number of requests, clients and keys,   *)
(* and any limits.                                                         *)
(***************************************************************************)
EXTENDS DiffServer, FiniteSetTheorems, TLAPS

-----------------------------------------------------------------------------
(* Type correctness.  The limiter's windows and the cache's size keep their   *)
(* bounds, whoever uses them.                                                *)

\* The cache and the limiter are instances with their own copies of FiniteSets: the
\* same definitions, under which the library's theorems are stated for ours.
LEMMA SameSizes ==
  /\ \A S : Cache!Cardinality(S) = Cardinality(S)
  /\ \A S : Cache!IsFiniteSet(S) <=> IsFiniteSet(S)
  /\ \A S : Limiter!Cardinality(S) = Cardinality(S)
  <1>1. \A S : Cache!Cardinality(S) = Cardinality(S)
    BY DEF Cache!Cardinality, Cardinality
  <1>2. \A S : Cache!IsFiniteSet(S) <=> IsFiniteSet(S)
    BY DEF Cache!IsFiniteSet, IsFiniteSet
  <1>3. \A S : Limiter!Cardinality(S) = Cardinality(S)
    BY DEF Limiter!Cardinality, Cardinality
  <1> QED
    BY <1>1, <1>2, <1>3

\* The constants are what the parts assume of them.
LEMMA Constants ==
  /\ Limit \in Nat /\ Window \in Nat /\ TTL \in Nat /\ MaxSize \in Nat /\ MaxTime \in Nat
  /\ IsFiniteSet(Keys) /\ IsFiniteSet(Requests) /\ NoPtr \notin Requests /\ Clients # {}
  BY ServerAssumption, SameSizes DEF Limiter!LimiterAssumption, Cache!CacheAssumption, NoPtr

\* The numbers alone, for steps that are arithmetic.
LEMMA Numbers == Limit \in Nat /\ Window \in Nat /\ MaxTime \in Nat
  BY Constants

\* Allow keeps the limiter's types: a window counts to its limit and no further.
LEMMA LimiterAllows ==
  ASSUME Limiter!LimiterTypeOK, NEW c \in Clients, Limiter!Allow(c), now' = now
  PROVE  Limiter!LimiterTypeOK'
  <1> USE Numbers DEF Limiter!LimiterTypeOK
  <1>1. /\ clients[c] \in [count : 0..Limiter!AtLeastOne(Limit), windowEnd : 0..(MaxTime + Window)]
        /\ granted[c] \in Seq(0..MaxTime) /\ now \in 0..MaxTime
    OBVIOUS
  <1>2. ASSUME Limiter!Grant(c)
        PROVE  /\ granted' \in [Clients -> Seq(0..MaxTime)]
               /\ answer' \in [client : Clients, ok : BOOLEAN, at : 0..MaxTime]
    <2>1. Append(granted[c], now) \in Seq(0..MaxTime)
      BY <1>1
    <2>2. granted' = [granted EXCEPT ![c] = Append(granted[c], now)]
      BY <1>2 DEF Limiter!Grant
    <2> QED
      BY <1>1, <1>2, <2>1, <2>2 DEF Limiter!Grant
  <1>3. CASE Limiter!OpenWindow(c)
    <2>1. [count |-> 1, windowEnd |-> now + Window]
            \in [count : 0..Limiter!AtLeastOne(Limit), windowEnd : 0..(MaxTime + Window)]
      <3>1. 1 \in 0..Limiter!AtLeastOne(Limit)
        BY DEF Limiter!AtLeastOne
      <3>2. now + Window \in 0..(MaxTime + Window)
        BY <1>1
      <3> QED
        BY <3>1, <3>2
    <2> QED
      BY <1>2, <1>3, <2>1 DEF Limiter!OpenWindow
  <1>4. CASE Limiter!CountInWindow(c)
    <2>1. clients[c].count + 1 \in 0..Limiter!AtLeastOne(Limit)
      BY <1>1, <1>4 DEF Limiter!CountInWindow, Limiter!AtLeastOne
    <2>2. [clients[c] EXCEPT !.count = @ + 1]
            \in [count : 0..Limiter!AtLeastOne(Limit), windowEnd : 0..(MaxTime + Window)]
      BY <1>1, <2>1
    <2>3. clients' = [clients EXCEPT ![c] = [clients[c] EXCEPT !.count = @ + 1]]
      BY <1>4 DEF Limiter!CountInWindow
    <2> QED
      BY <1>2, <1>4, <2>2, <2>3 DEF Limiter!CountInWindow
  <1>5. CASE Limiter!Refuse(c)
    BY <1>1, <1>5 DEF Limiter!Refuse
  <1> QED
    BY <1>3, <1>4, <1>5 DEF Limiter!Allow

\* The number in the header lies between 0 and the limit.
LEMMA RemainingBound ==
  ASSUME Limiter!LimiterTypeOK, NEW c \in Clients
  PROVE  Limiter!Remaining(c) \in 0..Limit
  <1>1. clients[c].count \in Nat
    <2>1. /\ clients[c] \in [count : 0..Limiter!AtLeastOne(Limit), windowEnd : 0..(MaxTime + Window)]
          /\ Limiter!AtLeastOne(Limit) \in Nat
      BY Constants DEF Limiter!LimiterTypeOK, Limiter!AtLeastOne
    <2> QED
      BY <2>1
  <1> QED
    BY <1>1, Constants DEF Limiter!Remaining

\* The cleanup keeps the limiter's types.
LEMMA LimiterCleans ==
  ASSUME Limiter!LimiterTypeOK, Limiter!Cleanup, now' = now
  PROVE  Limiter!LimiterTypeOK'
  <1>1. Limiter!NoWindow \in [count : 0..Limiter!AtLeastOne(Limit), windowEnd : 0..(MaxTime + Window)]
    <2>1. 0 \in 0..Limiter!AtLeastOne(Limit) /\ 0 \in 0..(MaxTime + Window)
      BY Constants DEF Limiter!AtLeastOne
    <2> QED
      BY <2>1 DEF Limiter!NoWindow
  <1> QED
    BY <1>1 DEF Limiter!Cleanup, Limiter!LimiterTypeOK

\* The entries of a map, and the type of the cache in the words of FiniteSets.
Entry   == [result : Requests, expiresAt : 0..(MaxTime + TTL)]
In(map) == {j \in Keys : map[j] # Cache!NoEntry}
Bound   == IF MaxSize = 0 THEN 1 ELSE MaxSize

\* The cache's type, in the library's Cardinality.
LEMMA CacheTypes ==
  Cache!CacheTypeOK <=> /\ entries \in [Keys -> Entry \cup {Cache!NoEntry}]
                        /\ Cardinality(In(entries)) <= Bound
  BY SameSizes DEF Cache!CacheTypeOK, Cache!Stored, Entry, In, Bound

\* The same of the next state.
LEMMA CacheTypesNext ==
  Cache!CacheTypeOK' <=> /\ entries' \in [Keys -> Entry \cup {Cache!NoEntry}]
                         /\ Cardinality(In(entries')) <= Bound
  BY SameSizes DEF Cache!CacheTypeOK, Cache!Stored, Entry, In, Bound

\* Whatever map it is, its entries can be counted.
LEMMA FewEntries ==
  ASSUME NEW map
  PROVE  IsFiniteSet(In(map)) /\ Cardinality(In(map)) \in Nat
  BY Constants, FS_Subset, FS_CardinalityType DEF In

\* A new entry, which may push out one of the oldest, leaves the cache within its size.
LEMMA CacheTakesIn ==
  ASSUME Cache!CacheTypeOK, now \in 0..MaxTime,
         NEW k \in Keys, NEW r \in Requests, Cache!Set(k, r)
  PROVE  Cache!CacheTypeOK'
  <1> DEFINE new == [result |-> r, expiresAt |-> now + TTL]
  <1>1. /\ entries \in [Keys -> Entry \cup {Cache!NoEntry}]
        /\ Cardinality(In(entries)) <= Bound
    BY CacheTypes
  <1>2. new \in Entry /\ new # Cache!NoEntry
    <2>1. now + TTL \in 0..(MaxTime + TTL)
      BY Constants
    <2>2. r # "none"
      BY Constants DEF NoPtr
    <2> QED
      BY <2>1, <2>2 DEF Entry, Cache!NoEntry
  <1>3. PICK room \in Cache!MakeRoom : entries' = [room EXCEPT ![k] = new]
    BY DEF Cache!Set
  <1> HIDE DEF new
  <1>4. /\ room \in [Keys -> Entry \cup {Cache!NoEntry}]
        /\ Cardinality(In(room)) < Bound
    <2>1. CASE Cache!Cardinality(Cache!Stored) >= MaxSize /\ Cache!Stored # {}
      <3>1. PICK j \in Cache!Oldest : room = Cache!Without(j)
        BY <1>3, <2>1 DEF Cache!MakeRoom
      <3>2. j \in In(entries)
        BY <3>1 DEF Cache!Oldest, Cache!Stored, In
      <3>3. In(room) = In(entries) \ {j} /\ room \in [Keys -> Entry \cup {Cache!NoEntry}]
        BY <1>1, <3>1, <3>2 DEF Cache!Without, In
      <3>4. Cardinality(In(room)) = Cardinality(In(entries)) - 1
        BY <3>2, <3>3, FewEntries, FS_RemoveElement
      <3> QED
        BY <1>1, <3>3, <3>4, FewEntries, Constants DEF Bound
    <2>2. CASE ~(Cache!Cardinality(Cache!Stored) >= MaxSize /\ Cache!Stored # {})
      <3>1. room = entries
        BY <1>3, <2>2 DEF Cache!MakeRoom
      <3>2. In(entries) = Cache!Stored
        BY DEF In, Cache!Stored
      <3>3. Cardinality(In(entries)) < MaxSize \/ Cardinality(In(entries)) = 0
        <4>1. In(entries) = {} => Cardinality(In(entries)) = 0
          BY FS_EmptySet
        <4>2. Cache!Cardinality(Cache!Stored) = Cardinality(In(entries))
          BY <3>2, SameSizes
        <4> QED
          BY <2>2, <3>2, <4>1, <4>2, FewEntries, Constants
      <3> QED
        BY <1>1, <3>1, <3>3, FewEntries, Constants DEF Bound
    <2> QED
      BY <2>1, <2>2
  <1>5. In(entries') = In(room) \cup {k}
    BY <1>2, <1>3, <1>4 DEF In
  <1>6. Cardinality(In(entries')) <= Cardinality(In(room)) + 1
    <2>1. Cardinality(In(room) \cup {k}) = IF k \in In(room) THEN Cardinality(In(room))
                                                            ELSE Cardinality(In(room)) + 1
      BY FewEntries, FS_AddElement
    <2> QED
      BY <1>5, <2>1, FewEntries
  <1>7. Cardinality(In(entries')) <= Bound
    BY <1>4, <1>6, FewEntries, Constants DEF Bound
  <1>8. entries' \in [Keys -> Entry \cup {Cache!NoEntry}]
    BY <1>2, <1>3, <1>4
  <1> QED
    BY <1>7, <1>8, CacheTypesNext

\* The cleanup only removes entries.
LEMMA CacheCleans ==
  ASSUME Cache!CacheTypeOK, Cache!CleanupCache
  PROVE  Cache!CacheTypeOK'
  <1>1. entries \in [Keys -> Entry \cup {Cache!NoEntry}] /\ Cardinality(In(entries)) <= Bound
    BY CacheTypes
  <1>2. entries' \in [Keys -> Entry \cup {Cache!NoEntry}]
    BY <1>1 DEF Cache!CleanupCache
  <1>3. In(entries') \subseteq In(entries)
    BY DEF In, Cache!CleanupCache, Cache!Live
  <1>4. Cardinality(In(entries')) <= Cardinality(In(entries))
    BY <1>3, FewEntries, FS_Subset
  <1> QED
    BY <1>1, <1>2, <1>4, FewEntries, Constants, CacheTypesNext DEF Bound

\* The fields of a reply, by name: a record is then a record of five sets to the provers.
Statuses  == {0, 200, 400, 429, 500}
Marks     == {"", "HIT", "MISS"}
Flags     == BOOLEAN
Counts    == 0..Limit
KeyOrNone == Keys \cup {NoPtr}
ReplyType == [status : Statuses, xcache : Marks, cached : Flags, remaining : Counts,
              key : KeyOrNone]
Times      == 0..MaxTime
ObjectType == [key : KeyOrNone, cached : Flags, stored : Times]

\* The values the steps put into fields.
LEMMA FieldValues ==
  /\ 0 \in Statuses /\ 200 \in Statuses /\ 400 \in Statuses /\ 429 \in Statuses /\ 500 \in Statuses
  /\ "" \in Marks /\ "HIT" \in Marks /\ "MISS" \in Marks
  /\ TRUE \in Flags /\ FALSE \in Flags
  /\ 0 \in Counts /\ 0 \in Times
  /\ NoPtr \in KeyOrNone /\ Keys \subseteq KeyOrNone
  BY Constants DEF Statuses, Marks, Flags, Counts, Times, KeyOrNone

RequestTypes ==
  /\ at \in [Requests -> RequestSteps]
  /\ ask \in [Requests -> [client : Clients, key : Keys]]
  /\ ptr \in [Requests -> Requests \cup {NoPtr}]
  /\ objects \in [Requests -> ObjectType]
  /\ reply \in [Requests -> ReplyType]

\* A pointer that is used is a pointer to an object: the cache has nothing else, and
\* a request has computed what it stores.
PointersInv ==
  \A r \in Requests : at[r] \in {"mark", "store", "encode"} => ptr[r] \in Requests

TypesInv == ServerTypeOK /\ PointersInv

\* The three parts of the type.
LEMMA ServerTypes ==
  ServerTypeOK <=> Limiter!LimiterTypeOK /\ Cache!CacheTypeOK /\ RequestTypes
  BY DEF ServerTypeOK, RequestTypes, ReplyType, ObjectType,
         Statuses, Marks, Flags, Counts, KeyOrNone, Times

\* A step that leaves the limiter, or the cache, alone leaves its type alone.
LEMMA LimiterStays ==
  ASSUME Limiter!LimiterTypeOK, UNCHANGED <<now, limiterVars>>
  PROVE  Limiter!LimiterTypeOK'
  BY DEF Limiter!LimiterTypeOK, limiterVars

\* The same for the cache.
LEMMA CacheStays ==
  ASSUME Cache!CacheTypeOK, UNCHANGED entries
  PROVE  Cache!CacheTypeOK'
  BY CacheTypes, CacheTypesNext

\* Nothing has happened yet: the types hold of empty maps and new requests.
LEMMA TypesInit == ASSUME Init PROVE TypesInv
  <1> USE DEF Init
  <1>1. Limiter!LimiterTypeOK
    <2>1. 0 \in 0..MaxTime /\ 0 \in 0..(MaxTime + Window) /\ 0 \in 0..Limiter!AtLeastOne(Limit)
      BY Constants DEF Limiter!AtLeastOne
    <2>2. (CHOOSE c \in Clients : TRUE) \in Clients
      BY Constants
    <2> QED
      BY <2>1, <2>2 DEF Limiter!LimiterInit, Limiter!LimiterTypeOK, Limiter!NoWindow
  <1>2. Cache!CacheTypeOK
    <2>1. In(entries) = {} /\ entries \in [Keys -> Entry \cup {Cache!NoEntry}]
      BY DEF In, Cache!CacheInit
    <2>2. Cardinality(In(entries)) = 0
      BY <2>1, FS_EmptySet
    <2> QED
      BY <2>1, <2>2, CacheTypes, Constants DEF Bound
  <1>3. RequestTypes
    <2>1. NoObject \in ObjectType /\ NoReply \in ReplyType
      BY FieldValues DEF NoObject, NoReply, ObjectType, ReplyType
    <2> QED
      BY <2>1 DEF RequestTypes, RequestSteps
  <1>4. PointersInv
    BY DEF PointersInv
  <1> QED
    BY <1>1, <1>2, <1>3, <1>4, ServerTypes DEF TypesInv

\* What a request's own steps do to the types of what it owns.
LEMMA RequestStep ==
  ASSUME TypesInv, NEW r \in Requests, Serving(r)
  PROVE  RequestTypes' /\ PointersInv'
  <1>1. /\ at \in [Requests -> RequestSteps]
        /\ ask \in [Requests -> [client : Clients, key : Keys]]
        /\ ptr \in [Requests -> Requests \cup {NoPtr}]
        /\ objects \in [Requests -> ObjectType]
        /\ reply \in [Requests -> ReplyType]
        /\ entries \in [Keys -> Entry \cup {Cache!NoEntry}]
        /\ now \in 0..MaxTime
    BY ServerTypes, CacheTypes DEF TypesInv, RequestTypes, Limiter!LimiterTypeOK
  <1>2. /\ ask[r].client \in Clients /\ ask[r].key \in Keys
        /\ reply[r] \in ReplyType
    BY <1>1
  <1>3. PointersInv
    BY DEF TypesInv
  \* The steps that change where a request is and what it answers, and nothing it shares.
  <1>4. ASSUME NEW step \in RequestSteps \ {"mark", "store", "encode"}, Go(r, step),
               reply' \in [Requests -> ReplyType], UNCHANGED <<ask, ptr, objects>>
        PROVE  RequestTypes' /\ PointersInv'
    <2>1. RequestTypes'
      BY <1>1, <1>4 DEF RequestTypes, Go
    <2>2. PointersInv'
      BY <1>1, <1>3, <1>4 DEF PointersInv, Go
    <2> QED
      BY <2>1, <2>2
  <1>5. ASSUME NEW status \in Statuses,
               reply' = [reply EXCEPT ![r].status = status]
        PROVE  reply' \in [Requests -> ReplyType]
    <2>1. [reply[r] EXCEPT !.status = status] \in ReplyType
      BY <1>2 DEF ReplyType
    <2> QED
      BY <1>1, <1>5, <2>1
  <1>6. ASSUME NEW mark \in Marks, reply' = [reply EXCEPT ![r].xcache = mark]
        PROVE  reply' \in [Requests -> ReplyType]
    <2>1. [reply[r] EXCEPT !.xcache = mark] \in ReplyType
      BY <1>2 DEF ReplyType
    <2> QED
      BY <1>1, <1>6, <2>1
  <1>7. CASE AskLimiter(r)
    <2>1. reply' = reply \/ reply' = [reply EXCEPT ![r].status = 429]
      BY <1>7 DEF AskLimiter
    <2>2. reply' \in [Requests -> ReplyType]
      BY <1>1, <1>5, <2>1, FieldValues, ZenonT(30)
    <2>3. (Go(r, "remaining") \/ Go(r, "done")) /\ UNCHANGED <<ask, ptr, objects>>
      BY <1>7 DEF AskLimiter
    <2> QED
      BY <1>4, <2>2, <2>3 DEF RequestSteps
  <1>8. CASE SetHeader(r)
    <2>1. [reply[r] EXCEPT !.remaining = Limiter!Remaining(ask[r].client)] \in ReplyType
      <3>1. Limiter!Remaining(ask[r].client) \in Counts
        BY <1>2, ServerTypes, RemainingBound DEF TypesInv, Counts
      <3> QED
        BY <1>2, <3>1 DEF ReplyType
    <2>2. reply' \in [Requests -> ReplyType]
      BY <1>1, <1>8, <2>1 DEF SetHeader
    <2> QED
      BY <1>4, <1>8, <2>2 DEF SetHeader, RequestSteps
  <1>9. CASE BadRequest(r)
    BY <1>4, <1>5, <1>9, FieldValues DEF BadRequest, RequestSteps
  <1>10. CASE GetCached(r)
    <2>1. CASE Cache!Live(ask[r].key)
      <3>1. entries[ask[r].key].result \in Requests
        BY <1>1, <1>2, <2>1 DEF Cache!Live, Entry
      <3>2. RequestTypes'
        BY <1>1, <1>10, <2>1, <3>1 DEF RequestTypes, GetCached, Go, RequestSteps
      <3>3. PointersInv'
        BY <1>1, <1>3, <1>10, <2>1, <3>1 DEF PointersInv, GetCached, Go
      <3> QED
        BY <3>2, <3>3
    <2>2. CASE ~Cache!Live(ask[r].key)
      BY <1>1, <1>4, <1>10, <2>2 DEF GetCached, RequestSteps
    <2> QED
      BY <2>1, <2>2
  <1>11. CASE MarkCached(r)
    <2>1. ptr[r] \in Requests
      BY <1>3, <1>11 DEF PointersInv, MarkCached
    <2>2. objects' \in [Requests -> ObjectType]
      <3>1. [objects[ptr[r]] EXCEPT !.cached = TRUE] \in ObjectType
        BY <1>1, <2>1, FieldValues DEF ObjectType
      <3> QED
        BY <1>1, <1>11, <2>1, <3>1 DEF MarkCached
    <2>3. reply' \in [Requests -> ReplyType]
      BY <1>6, <1>11, FieldValues DEF MarkCached
    <2>4. RequestTypes'
      BY <1>1, <1>11, <2>2, <2>3 DEF RequestTypes, MarkCached, Go, RequestSteps
    <2>5. PointersInv'
      BY <1>1, <1>3, <1>11, <2>1 DEF PointersInv, MarkCached, Go
    <2> QED
      BY <2>4, <2>5
  <1>12. CASE Diff(r)
    <2>1. CASE /\ reply' = [reply EXCEPT ![r].status = 500]
               /\ Go(r, "done")
               /\ UNCHANGED <<ptr, objects>>
      <3>1. reply' \in [Requests -> ReplyType]
        BY <1>5, <2>1, FieldValues
      <3>2. UNCHANGED ask
        BY <1>12 DEF Diff
      <3> QED
        BY <1>4, <2>1, <3>1, <3>2 DEF RequestSteps
    <2>2. CASE /\ objects' = [objects EXCEPT ![r] =
                                [key |-> ask[r].key, cached |-> FALSE, stored |-> 0]]
               /\ ptr' = [ptr EXCEPT ![r] = r]
               /\ Go(r, "store")
               /\ UNCHANGED reply
      <3>1. UNCHANGED ask
        BY <1>12 DEF Diff
      <3>2. [key |-> ask[r].key, cached |-> FALSE, stored |-> 0] \in ObjectType
        BY <1>2, FieldValues DEF ObjectType
      <3>3. RequestTypes'
        BY <1>1, <2>2, <3>1, <3>2 DEF RequestTypes, Go, RequestSteps
      <3>4. PointersInv'
        BY <1>1, <1>3, <2>2, <3>1 DEF PointersInv, Go
      <3> QED
        BY <3>3, <3>4
    <2> QED
      BY <1>12, <2>1, <2>2 DEF Diff
  <1>13. CASE StoreResult(r)
    <2>1. objects' \in [Requests -> ObjectType]
      <3>1. [objects[r] EXCEPT !.stored = now] \in ObjectType
        BY <1>1 DEF ObjectType, Times
      <3> QED
        BY <1>1, <1>13, <3>1 DEF StoreResult
    <2>2. reply' \in [Requests -> ReplyType]
      BY <1>6, <1>13, FieldValues DEF StoreResult
    <2>3. ptr[r] \in Requests
      BY <1>3, <1>13 DEF PointersInv, StoreResult
    <2>4. RequestTypes'
      BY <1>1, <1>13, <2>1, <2>2 DEF RequestTypes, StoreResult, Go, RequestSteps
    <2>5. PointersInv'
      BY <1>1, <1>3, <1>13, <2>3 DEF PointersInv, StoreResult, Go
    <2> QED
      BY <2>4, <2>5
  <1>14. CASE Encode(r)
    <2>1. ptr[r] \in Requests
      BY <1>3, <1>14 DEF PointersInv, Encode
    <2>2. objects[ptr[r]].cached \in Flags /\ objects[ptr[r]].key \in KeyOrNone
      BY <1>1, <2>1 DEF ObjectType
    <2>3. [reply[r] EXCEPT !.status = 200, !.cached = objects[ptr[r]].cached,
                           !.key = objects[ptr[r]].key] \in ReplyType
      BY <1>2, <2>2, FieldValues, ZenonT(30) DEF ReplyType
    <2>4. reply' \in [Requests -> ReplyType]
      BY <1>1, <1>14, <2>3 DEF Encode
    <2> QED
      BY <1>4, <1>14, <2>4 DEF Encode, RequestSteps
  <1> QED
    BY <1>7, <1>8, <1>9, <1>10, <1>11, <1>12, <1>13, <1>14 DEF Serving

\* Every step of the server keeps the types, those of what its requests share included.
LEMMA TypesNext == TypesInv /\ [Next]_vars => TypesInv'
  <1> SUFFICES ASSUME TypesInv, [Next]_vars PROVE TypesInv'
    OBVIOUS
  <1>1. /\ Limiter!LimiterTypeOK /\ Cache!CacheTypeOK /\ RequestTypes /\ PointersInv
        /\ now \in 0..MaxTime
    BY ServerTypes DEF TypesInv, Limiter!LimiterTypeOK
  <1>2. ASSUME NEW r \in Requests, Serving(r) PROVE TypesInv'
    <2>1. ask[r].client \in Clients /\ ask[r].key \in Keys
      BY <1>1 DEF RequestTypes
    <2>2. RequestTypes' /\ PointersInv'
      BY <1>2, RequestStep
    <2>3. Limiter!LimiterTypeOK'
      <3>1. CASE AskLimiter(r)
        BY <1>1, <2>1, <3>1, LimiterAllows DEF AskLimiter
      <3>2. CASE ~AskLimiter(r)
        <4>1. UNCHANGED <<now, limiterVars>>
          BY <1>2, <3>2
          DEF Serving, SetHeader, BadRequest, GetCached, MarkCached, Diff, StoreResult, Encode
        <4> QED
          BY <1>1, <4>1, LimiterStays
      <3> QED
        BY <3>1, <3>2
    <2>4. Cache!CacheTypeOK'
      <3>1. CASE StoreResult(r)
        BY <1>1, <2>1, <3>1, CacheTakesIn DEF StoreResult
      <3>2. CASE ~StoreResult(r)
        <4>1. UNCHANGED entries
          BY <1>2, <3>2
          DEF Serving, AskLimiter, SetHeader, BadRequest, GetCached, MarkCached, Diff, Encode
        <4> QED
          BY <1>1, <4>1, CacheStays
      <3> QED
        BY <3>1, <3>2
    <2> QED
      BY <2>2, <2>3, <2>4 DEF TypesInv, ServerTypeOK, RequestTypes, ReplyType, ObjectType,
         Statuses, Marks, Flags, Counts, KeyOrNone, Times
  <1>3. ASSUME UNCHANGED <<at, ask, ptr, objects, reply>>, Limiter!LimiterTypeOK', Cache!CacheTypeOK'
        PROVE  TypesInv'
    <2>1. RequestTypes' /\ PointersInv'
      BY <1>1, <1>3 DEF RequestTypes, PointersInv
    <2> QED
      BY <1>3, <2>1 DEF TypesInv, ServerTypeOK, RequestTypes, ReplyType, ObjectType,
         Statuses, Marks, Flags, Counts, KeyOrNone, Times
  <1>4. CASE Background
    <2>1. CASE Limiter!Cleanup /\ UNCHANGED <<now, entries, at, ask, ptr, objects, reply>>
      BY <1>1, <1>3, <2>1, LimiterCleans, CacheStays
    <2>2. CASE Cache!CleanupCache /\ UNCHANGED <<now, limiterVars, at, ask, ptr, objects, reply>>
      BY <1>1, <1>3, <2>2, LimiterStays, CacheCleans
    <2>3. CASE Limiter!Tick /\ UNCHANGED <<limiterVars, entries, at, ask, ptr, objects, reply>>
      <3>1. now' \in 0..MaxTime
        BY <1>1, <2>3, Constants DEF Limiter!Tick
      <3>2. Limiter!LimiterTypeOK'
        BY <1>1, <2>3, <3>1 DEF Limiter!LimiterTypeOK, limiterVars
      <3> QED
        BY <1>1, <1>3, <2>3, <3>2, CacheStays
    <2> QED
      BY <1>4, <2>1, <2>2, <2>3 DEF Background
  <1>5. CASE UNCHANGED vars
    BY <1>1, <1>3, <1>5, LimiterStays, CacheStays DEF vars
  <1> QED
    BY <1>2, <1>4, <1>5 DEF Next

\* Every reachable state is well typed; above all, the cache never holds more than
\* CACHE_MAX_SIZE results, or one when that is 0, although a result is put in after
\* other requests have put in theirs (cache.go:48-60).
THEOREM ServerTypesHold == Spec => []ServerTypeOK
  <1>1. Init => TypesInv
    BY TypesInit
  <1>2. TypesInv => ServerTypeOK
    BY DEF TypesInv
  <1> QED
    BY <1>1, <1>2, TypesNext, PTL DEF Spec

-----------------------------------------------------------------------------
(* The limiter.  A window's counter and the history say the same: how many     *)
(* requests of the client were let through since the window was opened.        *)

\* The entries of a history h whose time lies between first and last.
GrantsIn(h, first, last) == {i \in 1..Len(h) : h[i] \in first..last}

\* GrantedIn counts these entries.
LEMMA GrantedCounts ==
  ASSUME NEW c, NEW first, NEW last
  PROVE  Limiter!GrantedIn(c, first, last) = Cardinality(GrantsIn(granted[c], first, last))
  BY SameSizes DEF Limiter!GrantedIn, GrantsIn

\* There are finitely many, and no fewer in a larger interval.
LEMMA GrantsCount ==
  ASSUME NEW h \in Seq(0..MaxTime), NEW first, NEW last
  PROVE  IsFiniteSet(GrantsIn(h, first, last)) /\ Cardinality(GrantsIn(h, first, last)) \in Nat
  <1>1. Len(h) \in Nat /\ GrantsIn(h, first, last) \subseteq 1..Len(h)
    BY DEF GrantsIn
  <1>2. IsFiniteSet(1..Len(h))
    BY <1>1, FS_Interval
  <1> QED
    BY <1>1, <1>2, FS_Subset, FS_CardinalityType

\* One more request is let through, at the end of the interval.
LEMMA OneMoreGrant ==
  ASSUME NEW h \in Seq(0..MaxTime), NEW t \in 0..MaxTime, NEW first \in Nat, first <= t,
         NEW h2, h2 = Append(h, t)
  PROVE  Cardinality(GrantsIn(h2, first, t)) = Cardinality(GrantsIn(h, first, t)) + 1
  <1> USE Numbers
  <1>1. /\ Len(h2) = Len(h) + 1 /\ h2[Len(h) + 1] = t /\ Len(h) \in Nat
        /\ \A i \in 1..Len(h) : h2[i] = h[i]
    OBVIOUS
  <1>2. GrantsIn(h2, first, t) = GrantsIn(h, first, t) \cup {Len(h) + 1}
    BY <1>1 DEF GrantsIn
  <1>3. Len(h) + 1 \notin GrantsIn(h, first, t)
    BY <1>1 DEF GrantsIn
  <1> QED
    BY <1>2, <1>3, GrantsCount, FS_AddElement

\* No request is let through in the future; and once the window is over, or
\* forgotten, none was let through at the present tick either.
PastInv ==
  \A c \in Clients : \A i \in 1..Len(granted[c]) :
    granted[c][i] <= now /\ (Limiter!OutOfWindow(c) => granted[c][i] < now)

\* A window was opened in the past, and lasts Window ticks.
OpenedInv ==
  \A c \in Clients :
    clients[c] # Limiter!NoWindow => clients[c].windowEnd \in Window..(now + Window)

\* A window's counter is the number of requests let through since it was opened.
CountInv ==
  \A c \in Clients : ~Limiter!OutOfWindow(c) =>
    clients[c].count = Cardinality(GrantsIn(granted[c], clients[c].windowEnd - Window, now))

LimiterInv == PastInv /\ OpenedInv /\ CountInv /\ RefusedOnlyWhenUsed

\* What the types say of one client, without the names of the sets.
LEMMA ClientTypes ==
  ASSUME Limiter!LimiterTypeOK, NEW c \in Clients
  PROVE  /\ clients[c].count \in Nat /\ clients[c].windowEnd \in Nat
         /\ clients[c].count <= Limiter!AtLeastOne(Limit)
         /\ granted[c] \in Seq(0..MaxTime) /\ now \in 0..MaxTime /\ now \in Nat
  <1>1. clients[c] \in [count : 0..Limiter!AtLeastOne(Limit), windowEnd : 0..(MaxTime + Window)]
    BY DEF Limiter!LimiterTypeOK
  <1>2. Limiter!AtLeastOne(Limit) \in Nat
    BY Numbers DEF Limiter!AtLeastOne
  <1> QED
    BY <1>1, <1>2, Numbers DEF Limiter!LimiterTypeOK
\* Allow keeps the counts: who is let through adds one to the counter and one to the
\* history, and who is refused finds the limit in both.
LEMMA LimiterAsks ==
  ASSUME Limiter!LimiterTypeOK, LimiterInv, NEW c \in Clients, Limiter!Allow(c), now' = now
  PROVE  LimiterInv'
  <1> USE Numbers DEF Limiter!OutOfWindow
  <1>1. /\ clients[c].count \in Nat /\ clients[c].windowEnd \in Nat
        /\ granted[c] \in Seq(0..MaxTime) /\ now \in 0..MaxTime /\ now \in Nat
    BY ClientTypes
  <1>2. PastInv /\ OpenedInv /\ CountInv
    BY DEF LimiterInv
  \* A request is let through, in a window that was opened at the tick since.
  <1>3. ASSUME NEW since \in Nat, since <= now,
               Limiter!Grant(c), \A d \in Clients \ {c} : clients'[d] = clients[d],
               clients'[c] # Limiter!NoWindow, clients'[c].windowEnd = since + Window,
               now <= since + Window,
               clients'[c].count = Cardinality(GrantsIn(granted[c], since, now)) + 1
        PROVE  LimiterInv'
    <2>1. /\ granted' = [granted EXCEPT ![c] = Append(granted[c], now)]
          /\ answer' = [client |-> c, ok |-> TRUE, at |-> now]
      BY <1>3 DEF Limiter!Grant
    <2>2. /\ granted'[c] = Append(granted[c], now)
          /\ \A d \in Clients \ {c} : granted'[d] = granted[d] /\ clients'[d] = clients[d]
      BY <1>3, <2>1 DEF Limiter!LimiterTypeOK
    <2>3. PastInv'
      <3>1. ~(clients'[c] = Limiter!NoWindow \/ now > clients'[c].windowEnd)
        BY <1>1, <1>3
      <3>2. \A i \in 1..Len(granted'[c]) : granted'[c][i] <= now
        BY <1>1, <1>2, <2>2 DEF PastInv
      <3> QED
        BY <1>2, <2>2, <3>1, <3>2 DEF PastInv
    <2>4. OpenedInv'
      <3>1. clients'[c].windowEnd \in Window..(now + Window)
        BY <1>1, <1>3
      <3> QED
        BY <1>2, <1>3, <3>1 DEF OpenedInv
    <2>5. CountInv'
      <3>1. clients'[c].windowEnd - Window = since
        BY <1>3
      <3>2. clients'[c].count = Cardinality(GrantsIn(granted'[c], since, now))
        <4>1. granted[c] \in Seq(0..MaxTime) /\ now \in 0..MaxTime
          BY <1>1
        <4>2. PICK h, h2 : h = granted[c] /\ h2 = granted'[c]
          OBVIOUS
        <4>3. Cardinality(GrantsIn(h2, since, now)) = Cardinality(GrantsIn(h, since, now)) + 1
          BY <1>3, <2>2, <4>1, <4>2, OneMoreGrant
        <4> QED
          BY <1>3, <4>2, <4>3
      <3> QED
        BY <1>2, <2>2, <3>1, <3>2 DEF CountInv
    <2>6. RefusedOnlyWhenUsed'
      BY <2>1 DEF RefusedOnlyWhenUsed, Limiter!RefusedOnlyWhenUsed
    <2> QED
      BY <2>3, <2>4, <2>5, <2>6 DEF LimiterInv
  <1>4. CASE Limiter!OpenWindow(c)
    <2>1. clients' = [clients EXCEPT ![c] = [count |-> 1, windowEnd |-> now + Window]]
      BY <1>4 DEF Limiter!OpenWindow
    <2>2. clients'[c] = [count |-> 1, windowEnd |-> now + Window]
      BY <2>1 DEF Limiter!LimiterTypeOK
    <2>3. clients'[c] # Limiter!NoWindow
      BY <2>2 DEF Limiter!NoWindow
    <2>4. GrantsIn(granted[c], now, now) = {}
      BY <1>1, <1>2, <1>4 DEF GrantsIn, PastInv, Limiter!OpenWindow
    <2>5. Cardinality(GrantsIn(granted[c], now, now)) = 0
      BY <2>4, FS_EmptySet
    <2>6. /\ clients'[c].windowEnd = now + Window /\ now <= now + Window
          /\ clients'[c].count = Cardinality(GrantsIn(granted[c], now, now)) + 1
      BY <1>1, <2>2, <2>5
    <2>7. Limiter!Grant(c) /\ \A d \in Clients \ {c} : clients'[d] = clients[d]
      BY <1>4, <2>1 DEF Limiter!OpenWindow, Limiter!LimiterTypeOK
    <2> QED
      BY <1>1, <1>3, <2>3, <2>6, <2>7
  <1>5. CASE Limiter!CountInWindow(c)
    <2> DEFINE since == clients[c].windowEnd - Window
    <2>1. clients' = [clients EXCEPT ![c] = [clients[c] EXCEPT !.count = @ + 1]]
      BY <1>5 DEF Limiter!CountInWindow
    <2>2. /\ clients[c] \in [count : Nat, windowEnd : Nat]
          /\ clients'[c] = [clients[c] EXCEPT !.count = @ + 1]
      <3>1. /\ clients[c] \in [count : 0..Limiter!AtLeastOne(Limit),
                               windowEnd : 0..(MaxTime + Window)]
            /\ Limiter!AtLeastOne(Limit) \in Nat
        BY DEF Limiter!LimiterTypeOK, Limiter!AtLeastOne
      <3> QED
        BY <2>1, <3>1 DEF Limiter!LimiterTypeOK
    <2>3. clients'[c].count = clients[c].count + 1 /\ clients'[c].windowEnd = clients[c].windowEnd
      BY <2>2
    <2>4. clients'[c] # Limiter!NoWindow
      BY <1>1, <2>3 DEF Limiter!NoWindow
    <2>5. ~Limiter!OutOfWindow(c) /\ clients[c] # Limiter!NoWindow /\ now <= clients[c].windowEnd
      BY <1>1, <1>5 DEF Limiter!CountInWindow
    <2>6. since \in Nat /\ since <= now /\ clients[c].windowEnd = since + Window
      BY <1>1, <1>2, <2>5 DEF OpenedInv
    <2>7. clients[c].count = Cardinality(GrantsIn(granted[c], since, now))
      BY <1>2, <2>5 DEF CountInv
    <2>8. Limiter!Grant(c) /\ \A d \in Clients \ {c} : clients'[d] = clients[d]
      BY <1>5, <2>1 DEF Limiter!CountInWindow, Limiter!LimiterTypeOK
    <2> HIDE DEF since
    <2> QED
      BY <1>3, <2>3, <2>4, <2>5, <2>6, <2>7, <2>8
  <1>6. CASE Limiter!Refuse(c)
    <2> DEFINE since == IF now < Window THEN 0 ELSE now - Window
    <2>1. /\ UNCHANGED <<clients, granted>>
          /\ answer' = [client |-> c, ok |-> FALSE, at |-> now]
          /\ clients[c].count >= Limit
      BY <1>6 DEF Limiter!Refuse
    <2>2. ~Limiter!OutOfWindow(c) /\ clients[c] # Limiter!NoWindow /\ now <= clients[c].windowEnd
      BY <1>1, <1>6 DEF Limiter!Refuse
    <2>3. GrantsIn(granted[c], clients[c].windowEnd - Window, now)
            \subseteq GrantsIn(granted[c], since, now)
      <3>1. clients[c].windowEnd - Window \in Nat /\ since <= clients[c].windowEnd - Window
        BY <1>1, <1>2, <2>2 DEF OpenedInv
      <3>2. since \in Nat
        BY <1>1
      <3> HIDE DEF since
      <3>3. \A i \in 1..Len(granted[c]) : granted[c][i] \in Nat
        BY <1>1
      <3> QED
        <4> DEFINE first == clients[c].windowEnd - Window
        <4>1. first \in Nat /\ since <= first
          BY <3>1
        <4> HIDE DEF first
        <4>2. ASSUME NEW i \in GrantsIn(granted[c], first, now)
              PROVE  i \in GrantsIn(granted[c], since, now)
          BY <1>1, <3>2, <3>3, <4>1 DEF GrantsIn
        <4> QED
          BY <4>2 DEF first
    <2>4. Cardinality(GrantsIn(granted[c], since, now)) >= Limit
      <3>1. Cardinality(GrantsIn(granted[c], clients[c].windowEnd - Window, now)) = clients[c].count
        BY <1>2, <2>2 DEF CountInv
      <3>2. clients[c].count <= Cardinality(GrantsIn(granted[c], since, now))
        BY <1>1, <2>3, <3>1, GrantsCount, FS_Subset
      <3> QED
        BY <1>1, <2>1, <3>2, GrantsCount
    <2>5. RefusedOnlyWhenUsed'
      <3>1. Limiter!GrantedIn(c, since, now)' = Cardinality(GrantsIn(granted[c], since, now))
        BY <2>1, GrantedCounts DEF Limiter!GrantedIn
      <3> QED
        BY <2>1, <2>4, <3>1 DEF RefusedOnlyWhenUsed, Limiter!RefusedOnlyWhenUsed
    <2>6. (PastInv /\ OpenedInv /\ CountInv)'
      BY <1>2, <2>1 DEF PastInv, OpenedInv, CountInv
    <2> QED
      BY <2>5, <2>6 DEF LimiterInv
  <1> QED
    BY <1>4, <1>5, <1>6 DEF Limiter!Allow

\* The cleanup forgets only windows that are over, in which nothing is counted any more.
LEMMA LimiterForgets ==
  ASSUME LimiterInv, Limiter!Cleanup, now' = now
  PROVE  LimiterInv'
  <1>1. /\ UNCHANGED <<now, granted, answer>>
        /\ \A c \in Clients : clients'[c] = IF Limiter!OutOfWindow(c) THEN Limiter!NoWindow
                                                                     ELSE clients[c]
    BY DEF Limiter!Cleanup
  <1>2. PastInv' /\ OpenedInv' /\ CountInv'
    BY <1>1 DEF LimiterInv, PastInv, OpenedInv, CountInv, Limiter!OutOfWindow
  <1>3. RefusedOnlyWhenUsed'
    BY <1>1 DEF LimiterInv, RefusedOnlyWhenUsed, Limiter!RefusedOnlyWhenUsed, Limiter!GrantedIn
  <1> QED
    BY <1>2, <1>3 DEF LimiterInv

\* The clock moves on: nothing was let through at the new tick yet.
LEMMA LimiterWaits ==
  ASSUME Limiter!LimiterTypeOK, LimiterInv, Limiter!Tick, UNCHANGED limiterVars
  PROVE  LimiterInv'
  <1> USE Numbers
  <1>1. now' = now + 1 /\ UNCHANGED <<clients, granted, answer>> /\ now \in Nat
    BY DEF Limiter!Tick, limiterVars, Limiter!LimiterTypeOK
  <1>2. PastInv'
    <2>1. ASSUME NEW c \in Clients, NEW i \in 1..Len(granted[c]) PROVE granted[c][i] < now + 1
      <3>1. granted[c][i] \in 0..MaxTime
        BY <2>1, ClientTypes
      <3> QED
        BY <1>1, <2>1, <3>1 DEF LimiterInv, PastInv
    <2> QED
      BY <1>1, <2>1, ClientTypes DEF PastInv
  <1>3. OpenedInv'
    BY <1>1 DEF LimiterInv, OpenedInv
  <1>4. CountInv'
    <2> SUFFICES ASSUME NEW c \in Clients, ~Limiter!OutOfWindow(c)'
                 PROVE  clients[c].count = Cardinality(GrantsIn(granted[c],
                                             clients[c].windowEnd - Window, now + 1))
      BY <1>1 DEF CountInv
    <2>1. ~Limiter!OutOfWindow(c)
      BY <1>1, ClientTypes DEF Limiter!OutOfWindow
    <2>2. GrantsIn(granted[c], clients[c].windowEnd - Window, now + 1)
            = GrantsIn(granted[c], clients[c].windowEnd - Window, now)
      BY <1>1, ClientTypes DEF LimiterInv, PastInv, GrantsIn
    <2> QED
      BY <2>1, <2>2 DEF LimiterInv, CountInv
  <1>5. RefusedOnlyWhenUsed'
    BY <1>1 DEF LimiterInv, RefusedOnlyWhenUsed, Limiter!RefusedOnlyWhenUsed, Limiter!GrantedIn
  <1> QED
    BY <1>2, <1>3, <1>4, <1>5 DEF LimiterInv

\* Whoever does not ask the limiter leaves it as it is.
LEMMA LimiterAlone ==
  ASSUME LimiterInv, UNCHANGED <<now, limiterVars>>
  PROVE  LimiterInv'
  <1>1. UNCHANGED <<now, clients, granted, answer>>
    BY DEF limiterVars
  <1>2. PastInv' /\ OpenedInv' /\ CountInv'
    BY <1>1 DEF LimiterInv, PastInv, OpenedInv, CountInv, Limiter!OutOfWindow
  <1>3. RefusedOnlyWhenUsed'
    BY <1>1 DEF LimiterInv, RefusedOnlyWhenUsed, Limiter!RefusedOnlyWhenUsed, Limiter!GrantedIn
  <1> QED
    BY <1>2, <1>3 DEF LimiterInv

-----------------------------------------------------------------------------
(* What the cache hands out.  A result is shared from the moment it is stored: *)
(* from then on only its mark changes, and only to TRUE.                     *)

Finished(o) == at[o] \in {"encode", "done"}

\* An entry is the finished result for its key, and expires TTL after it was stored.
CachedInv ==
  \A k \in Keys : entries[k] # Cache!NoEntry =>
    /\ Finished(entries[k].result)
    /\ objects[entries[k].result].key = k
    /\ entries[k].expiresAt = objects[entries[k].result].stored + TTL

\* What a request has in its hands is for the key it asked for, whoever made it.
PointedInv ==
  \A r \in Requests : at[r] \in {"mark", "encode"} =>
    Finished(ptr[r]) /\ objects[ptr[r]].key = ask[r].key

StoringInv ==
  \A r \in Requests : at[r] = "store" => ptr[r] = r /\ objects[r].key = ask[r].key

MarkedInv ==
  \A r \in Requests : at[r] = "encode" /\ reply[r].xcache = "HIT" => objects[ptr[r]].cached

UnsentInv == \A r \in Requests : at[r] # "done" => reply[r].status # 200

ResultsInv ==
  TypesInv /\ CachedInv /\ PointedInv /\ StoringInv /\ MarkedInv /\ UnsentInv /\ HitsAreMarked

\* The types of the functions, as the steps below use them.
LEMMA ResultsTypes ==
  ASSUME TypesInv
  PROVE  /\ at \in [Requests -> RequestSteps]
         /\ ask \in [Requests -> [client : Clients, key : Keys]]
         /\ ptr \in [Requests -> Requests \cup {NoPtr}]
         /\ objects \in [Requests -> ObjectType]
         /\ reply \in [Requests -> ReplyType]
         /\ entries \in [Keys -> Entry \cup {Cache!NoEntry}]
         /\ PointersInv
  BY ServerTypes, CacheTypes DEF TypesInv, RequestTypes

\* A request's step moves nobody else.
LEMMA OthersStay ==
  ASSUME TypesInv, NEW r \in Requests, Serving(r), NEW s \in Requests, s # r
  PROVE  at'[s] = at[s] /\ ptr'[s] = ptr[s] /\ reply'[s] = reply[s]
  BY ResultsTypes
  DEF Serving, AskLimiter, SetHeader, BadRequest, GetCached, MarkCached, Diff, StoreResult,
      Encode, Go

\* What a request asks for never changes.
LEMMA QuestionsStay == ASSUME [Next]_vars PROVE ask' = ask
  BY DEF Next, Background, Serving, AskLimiter, SetHeader, BadRequest, GetCached, MarkCached, Diff,
      StoreResult, Encode, vars

\* A finished result keeps its key and its time, and its mark once it has it.
LEMMA FinishedStay ==
  ASSUME TypesInv, NEW r \in Requests, Serving(r), NEW o \in Requests, Finished(o)
  PROVE  /\ Finished(o)'
         /\ objects'[o].key = objects[o].key /\ objects'[o].stored = objects[o].stored
         /\ objects[o].cached => objects'[o].cached
  <1>1. Finished(o)'
    <2>1. CASE o = r
      BY <2>1, ResultsTypes
      DEF Finished, Serving, AskLimiter, SetHeader, BadRequest, GetCached, MarkCached, Diff,
          StoreResult, Encode, Go
    <2>2. CASE o # r
      BY <2>2, OthersStay DEF Finished
    <2> QED
      BY <2>1, <2>2
  <1>2. CASE MarkCached(r)
    <2>1. ptr[r] \in Requests
      BY <1>2, ResultsTypes DEF PointersInv, MarkCached
    <2>2. objects' = [objects EXCEPT ![ptr[r]] = [objects[ptr[r]] EXCEPT !.cached = TRUE]]
      BY <1>2 DEF MarkCached
    <2>3. objects[o] \in ObjectType
      BY ResultsTypes
    <2> QED
      BY <1>1, <2>1, <2>2, <2>3, ResultsTypes DEF ObjectType
  <1>3. CASE ~MarkCached(r)
    <2>1. objects'[o] = objects[o]
      BY <1>3, ResultsTypes
      DEF Finished, Serving, AskLimiter, SetHeader, BadRequest, GetCached, Diff, StoreResult, Encode
    <2> QED
      BY <1>1, <2>1
  <1> QED
    BY <1>2, <1>3

\* The entry for a key is the new one, and the others stay or go.
LEMMA SetStores ==
  ASSUME TypesInv, NEW k \in Keys, NEW r \in Requests, Cache!Set(k, r)
  PROVE  /\ entries'[k].result = r /\ entries'[k].expiresAt = now + TTL
         /\ \A j \in Keys \ {k} : entries'[j] = entries[j] \/ entries'[j] = Cache!NoEntry
  <1>1. PICK room \in Cache!MakeRoom :
          entries' = [room EXCEPT ![k] = [result |-> r, expiresAt |-> now + TTL]]
    BY DEF Cache!Set
  <1>2. /\ DOMAIN room = Keys
        /\ \A j \in Keys : room[j] = entries[j] \/ room[j] = Cache!NoEntry
    BY ResultsTypes DEF Cache!MakeRoom, Cache!Oldest, Cache!Without, Cache!Stored
  <1> QED
    BY <1>1, <1>2

\* A request's step leaves every entry pointing to a finished result for its key.
LEMMA CachedNext ==
  ASSUME ResultsInv, NEW r \in Requests, Serving(r)
  PROVE  CachedInv'
  <1>1. ASSUME NEW k \in Keys, entries[k] # Cache!NoEntry
        PROVE  /\ at'[entries[k].result] \in {"encode", "done"}
               /\ objects'[entries[k].result].key = k
               /\ entries[k].expiresAt = objects'[entries[k].result].stored + TTL
    <2>1. PICK o \in Requests : o = entries[k].result
      BY <1>1, ResultsTypes DEF ResultsInv, Entry
    <2>2. /\ Finished(o) /\ objects[o].key = k
          /\ entries[k].expiresAt = objects[o].stored + TTL
      BY <1>1, <2>1 DEF ResultsInv, CachedInv
    <2>3. Finished(o)' /\ objects'[o].key = objects[o].key /\ objects'[o].stored = objects[o].stored
      BY <2>2, FinishedStay DEF ResultsInv
    <2> QED
      BY <2>1, <2>2, <2>3 DEF Finished
  <1>2. CASE ~StoreResult(r)
    <2>1. UNCHANGED entries
      BY <1>2 DEF Serving, AskLimiter, SetHeader, BadRequest, GetCached, MarkCached, Diff, Encode
    <2> QED
      BY <1>1, <2>1 DEF CachedInv, Finished
  <1>3. CASE StoreResult(r)
    <2>1. ask[r].key \in Keys /\ Cache!Set(ask[r].key, r)
      BY <1>3, ResultsTypes DEF ResultsInv, StoreResult
    <2>2. at'[r] = "encode"
      BY <1>3, ResultsTypes DEF ResultsInv, StoreResult, Go
    <2>3. objects'[r].key = ask[r].key /\ objects'[r].stored = now
      <3>1. objects' = [objects EXCEPT ![r] = [objects[r] EXCEPT !.stored = now]]
        BY <1>3 DEF StoreResult
      <3>2. objects[r] \in ObjectType /\ objects[r].key = ask[r].key
        BY <1>3, ResultsTypes DEF ResultsInv, StoringInv, StoreResult
      <3> QED
        BY <3>1, <3>2, ResultsTypes DEF ResultsInv, ObjectType
    <2>4. ASSUME NEW k \in Keys, entries'[k] # Cache!NoEntry
          PROVE  /\ at'[entries'[k].result] \in {"encode", "done"}
                 /\ objects'[entries'[k].result].key = k
                 /\ entries'[k].expiresAt = objects'[entries'[k].result].stored + TTL
      <3>1. CASE k = ask[r].key
        BY <2>1, <2>2, <2>3, <3>1, SetStores DEF ResultsInv
      <3>2. CASE k # ask[r].key
        <4>1. entries'[k] = entries[k]
          BY <2>1, <2>4, <3>2, SetStores DEF ResultsInv
        <4> QED
          BY <1>1, <2>4, <4>1
      <3> QED
        BY <3>1, <3>2
    <2> QED
      BY <2>4 DEF CachedInv, Finished
  <1> QED
    BY <1>2, <1>3

\* A request's step leaves everybody with a finished result for the key they asked for.
LEMMA PointedNext ==
  ASSUME ResultsInv, NEW r \in Requests, Serving(r)
  PROVE  PointedInv'
  <1> SUFFICES ASSUME NEW s \in Requests, at'[s] \in {"mark", "encode"}
               PROVE  at'[ptr'[s]] \in {"encode", "done"} /\ objects'[ptr'[s]].key = ask'[s].key
    BY DEF PointedInv, Finished
  <1>1. ask' = ask
    BY QuestionsStay DEF Next
  \* It was in its hands before, or has just come out of the cache, or is its own.
  <1>2. CASE at[s] \in {"mark", "encode"} /\ ptr'[s] = ptr[s]
    <2>1. PICK o \in Requests : o = ptr[s]
      BY <1>2, ResultsTypes DEF ResultsInv, PointersInv
    <2>2. Finished(o) /\ objects[o].key = ask[s].key
      BY <1>2, <2>1 DEF ResultsInv, PointedInv
    <2>3. at'[o] \in {"encode", "done"} /\ objects'[o].key = objects[o].key
      BY <2>2, FinishedStay DEF ResultsInv, Finished
    <2> QED
      BY <1>1, <1>2, <2>1, <2>2, <2>3 DEF Finished
  <1>3. CASE s = r /\ GetCached(r) /\ Cache!Live(ask[r].key)
    <2>1. ask[r].key \in Keys
      BY ResultsTypes DEF ResultsInv
    <2>2. PICK o \in Requests : o = entries[ask[r].key].result
      BY <1>3, <2>1, ResultsTypes DEF ResultsInv, Cache!Live, Entry
    <2>3. ptr'[s] = o
      BY <1>3, <2>2, ResultsTypes DEF ResultsInv, GetCached
    <2>4. Finished(o) /\ objects[o].key = ask[s].key
      BY <1>3, <2>1, <2>2 DEF ResultsInv, CachedInv, Cache!Live
    <2>5. at'[o] \in {"encode", "done"} /\ objects'[o].key = objects[o].key
      BY <2>4, FinishedStay DEF ResultsInv, Finished
    <2> QED
      BY <1>1, <2>3, <2>4, <2>5 DEF Finished
  <1>4. CASE s = r /\ StoreResult(r)
    <2>1. at'[r] = "encode" /\ ptr'[r] = r
      BY <1>4, ResultsTypes DEF ResultsInv, StoringInv, StoreResult, Go
    <2>2. objects'[r].key = ask[r].key
      <3>1. objects' = [objects EXCEPT ![r] = [objects[r] EXCEPT !.stored = now]]
        BY <1>4 DEF StoreResult
      <3>2. objects[r] \in ObjectType /\ objects[r].key = ask[r].key
        BY <1>4, ResultsTypes DEF ResultsInv, StoringInv, StoreResult
      <3> QED
        BY <3>1, <3>2, ResultsTypes DEF ResultsInv, ObjectType
    <2> QED
      BY <1>1, <1>4, <2>1, <2>2 DEF Finished
  <1>5. \/ at[s] \in {"mark", "encode"} /\ ptr'[s] = ptr[s]
        \/ s = r /\ GetCached(r) /\ Cache!Live(ask[r].key)
        \/ s = r /\ StoreResult(r)
    <2>1. CASE s # r
      BY <2>1, OthersStay DEF ResultsInv
    <2>2. CASE s = r
      BY <2>2, ResultsTypes
      DEF ResultsInv, Serving, AskLimiter, SetHeader, BadRequest, GetCached, MarkCached, Diff, Encode, Go
    <2> QED
      BY <2>1, <2>2
  <1> QED
    BY <1>2, <1>3, <1>4, <1>5

\* A result that is not stored yet is its maker's alone.
LEMMA StoringNext ==
  ASSUME ResultsInv, NEW r \in Requests, Serving(r)
  PROVE  StoringInv'
  <1> SUFFICES ASSUME NEW s \in Requests, at'[s] = "store"
               PROVE  ptr'[s] = s /\ objects'[s].key = ask'[s].key
    BY DEF StoringInv
  <1>1. ask' = ask
    BY QuestionsStay DEF Next
  <1>2. CASE s # r
    <2>1. at[s] = "store" /\ ptr'[s] = ptr[s] /\ ptr[s] = s /\ objects[s].key = ask[s].key
      BY <1>2, OthersStay DEF ResultsInv, StoringInv
    \* Nobody else has a pointer to it yet.
    <2>2. objects'[s] = objects[s]
      <3>1. MarkCached(r) => ptr[r] # s
        BY <2>1 DEF MarkCached, ResultsInv, PointedInv, Finished
      <3> QED
        BY <1>2, <3>1, ResultsTypes
        DEF ResultsInv, Serving, AskLimiter, SetHeader, BadRequest, GetCached, MarkCached, Diff,
            StoreResult, Encode
    <2> QED
      BY <1>1, <2>1, <2>2
  <1>3. CASE s = r
    BY <1>1, <1>3, ResultsTypes
    DEF ResultsInv, Serving, AskLimiter, SetHeader, BadRequest, GetCached, MarkCached, Diff,
        StoreResult, Encode, Go
  <1> QED
    BY <1>2, <1>3

\* A hit that is about to be encoded stays marked.
LEMMA MarkedNext ==
  ASSUME ResultsInv, NEW r \in Requests, Serving(r)
  PROVE  MarkedInv'
  <1> SUFFICES ASSUME NEW s \in Requests, at'[s] = "encode", reply'[s].xcache = "HIT"
               PROVE  objects'[ptr'[s]].cached
    BY DEF MarkedInv
  <1>1. CASE s # r \/ at[s] = "encode"
    <2>1. at[s] = "encode" /\ ptr'[s] = ptr[s] /\ reply'[s] = reply[s]
      <3>1. CASE s # r
        BY <3>1, OthersStay DEF ResultsInv
      <3>2. CASE s = r /\ at[s] = "encode"
        BY <3>2, ResultsTypes
        DEF ResultsInv, Serving, AskLimiter, SetHeader, BadRequest, GetCached, MarkCached, Diff,
            StoreResult, Encode, Go
      <3> QED
        BY <1>1, <3>1, <3>2
    <2>2. PICK o \in Requests : o = ptr[s]
      BY <2>1, ResultsTypes DEF ResultsInv, PointersInv
    <2>3. Finished(o) /\ objects[o].cached
      BY <2>1, <2>2 DEF ResultsInv, PointedInv, MarkedInv
    <2> QED
      BY <2>1, <2>2, <2>3, FinishedStay DEF ResultsInv
  <1>2. CASE s = r /\ MarkCached(r)
    <2>1. ptr[r] \in Requests /\ ptr' = ptr
      BY <1>2, ResultsTypes DEF ResultsInv, PointersInv, MarkCached
    <2>2. objects' = [objects EXCEPT ![ptr[r]] = [objects[ptr[r]] EXCEPT !.cached = TRUE]]
      BY <1>2 DEF MarkCached
    <2>3. objects[ptr[r]] \in ObjectType
      BY <2>1, ResultsTypes DEF ResultsInv
    <2> QED
      BY <1>2, <2>1, <2>2, <2>3, ResultsTypes DEF ResultsInv, ObjectType
  <1>3. CASE s = r /\ StoreResult(r)
    <2>1. reply' = [reply EXCEPT ![r] = [reply[r] EXCEPT !.xcache = "MISS"]] /\ reply[r] \in ReplyType
      BY <1>3, ResultsTypes DEF ResultsInv, StoreResult
    <2>2. reply'[r].xcache = "MISS"
      BY <2>1, ResultsTypes DEF ResultsInv, ReplyType
    <2> QED
      BY <1>3, <2>2
  <1>4. s # r \/ at[s] = "encode" \/ (s = r /\ MarkCached(r)) \/ (s = r /\ StoreResult(r))
    BY ResultsTypes
    DEF ResultsInv, Serving, AskLimiter, SetHeader, BadRequest, GetCached, Diff, Encode, Go
  <1> QED
    BY <1>1, <1>2, <1>3, <1>4

\* The status of a request that is not done yet is not set; and what is sent was read
\* from the object at that moment.
LEMMA SentNext ==
  ASSUME ResultsInv, NEW r \in Requests, Serving(r)
  PROVE  UnsentInv' /\ HitsAreMarked'
  <1>1. ask' = ask
    BY QuestionsStay DEF Next
  <1>2. reply[r] \in ReplyType
    BY ResultsTypes DEF ResultsInv
  <1>3. CASE Encode(r)
    <2>1. at'[r] = "done"
      BY <1>3, ResultsTypes DEF ResultsInv, Encode, Go
    <2>2. /\ reply'[r].xcache = reply[r].xcache
          /\ reply'[r].cached = objects[ptr[r]].cached /\ reply'[r].key = objects[ptr[r]].key
      <3>1. reply' = [reply EXCEPT ![r] = [reply[r] EXCEPT !.status = 200,
                        !.cached = objects[ptr[r]].cached, !.key = objects[ptr[r]].key]]
        BY <1>3, ZenonT(30) DEF Encode
      <3> QED
        BY <1>2, <3>1, ResultsTypes DEF ResultsInv, ReplyType
    <2>3. objects[ptr[r]].key = ask[r].key
      BY <1>3 DEF ResultsInv, PointedInv, Encode
    <2>4. reply[r].xcache = "HIT" => objects[ptr[r]].cached
      BY <1>3 DEF ResultsInv, MarkedInv, Encode
    <2>5. UnsentInv'
      BY <2>1, OthersStay DEF ResultsInv, UnsentInv
    <2>6. HitsAreMarked'
      BY <1>1, <2>2, <2>3, <2>4, OthersStay DEF ResultsInv, HitsAreMarked
    <2> QED
      BY <2>5, <2>6
  <1>4. CASE ~Encode(r)
    <2>1. at[r] # "done"
      BY DEF Serving, AskLimiter, SetHeader, BadRequest, GetCached, MarkCached, Diff, StoreResult, Encode
    <2>2. reply[r].status # 200
      BY <2>1 DEF ResultsInv, UnsentInv
    <2>3. reply'[r].status # 200
      BY <1>2, <1>4, <2>2, ResultsTypes
      DEF ResultsInv, Serving, AskLimiter, SetHeader, BadRequest, GetCached, MarkCached, Diff,
          StoreResult, ReplyType
    <2>4. UnsentInv'
      BY <2>3, OthersStay DEF ResultsInv, UnsentInv
    <2>5. HitsAreMarked'
      BY <1>1, <2>3, OthersStay DEF ResultsInv, HitsAreMarked
    <2> QED
      BY <2>4, <2>5
  <1> QED
    BY <1>3, <1>4

\* At first there is no result.
LEMMA ResultsInit == Init => ResultsInv
  <1> SUFFICES ASSUME Init PROVE ResultsInv
    OBVIOUS
  <1>1. TypesInv
    BY TypesInit
  <1>2. CachedInv
    BY DEF Init, Cache!CacheInit, CachedInv
  <1>3. PointedInv /\ StoringInv /\ MarkedInv
    BY DEF Init, PointedInv, StoringInv, MarkedInv
  <1>4. UnsentInv /\ HitsAreMarked
    <2>1. \A r \in Requests : reply[r] = NoReply
      BY DEF Init
    <2>2. NoReply.status = 0
      BY DEF NoReply
    <2> QED
      BY <2>1, <2>2 DEF UnsentInv, HitsAreMarked
  <1> QED
    BY <1>1, <1>2, <1>3, <1>4 DEF ResultsInv

\* Every step of the server, the cleanups and the clock included, keeps the results' invariant.
LEMMA ResultsNext == ResultsInv /\ [Next]_vars => ResultsInv'
  <1> SUFFICES ASSUME ResultsInv, [Next]_vars PROVE ResultsInv'
    OBVIOUS
  <1>1. TypesInv'
    BY TypesNext DEF ResultsInv
  <1>2. CASE \E r \in Requests : Serving(r)
    BY <1>1, <1>2, CachedNext, PointedNext, StoringNext, MarkedNext, SentNext DEF ResultsInv
  <1>3. CASE Background \/ UNCHANGED vars
    <2>1. UNCHANGED <<at, ask, ptr, objects, reply>>
      BY <1>3 DEF Background, vars
    <2>2. CachedInv'
      <3>1. \A k \in Keys : entries'[k] = entries[k] \/ entries'[k] = Cache!NoEntry
        BY <1>3 DEF Background, Cache!CleanupCache, vars
      <3> QED
        BY <2>1, <3>1 DEF ResultsInv, CachedInv, Finished
    <2>3. PointedInv' /\ StoringInv' /\ MarkedInv' /\ UnsentInv' /\ HitsAreMarked'
      BY <2>1
      DEF ResultsInv, PointedInv, StoringInv, MarkedInv, UnsentInv, HitsAreMarked, Finished
    <2> QED
      BY <1>1, <2>2, <2>3 DEF ResultsInv
  <1> QED
    BY <1>2, <1>3 DEF Next

\* The invariant holds of every reachable state.
LEMMA ResultsHold == Spec => []ResultsInv
  BY ResultsInit, ResultsNext, PTL DEF Spec

\* However requests interleave, a 200 that came from the cache is marked as such and is
\* the diff of the schemas it asked for, even when its entry has expired, been evicted or
\* been replaced in between (handler.go:99-104).
THEOREM MarkedHits == Spec => []HitsAreMarked
  <1>1. ResultsInv => HitsAreMarked
    BY DEF ResultsInv
  <1> QED
    BY <1>1, ResultsHold, PTL

\* Nothing older than CACHE_TTL is handed out, however often an entry was replaced
\* (cache.go:32-43,51): an entry's expiry is that of the result it points to.
THEOREM FreshHits == Spec => HitsAreFresh
  <1>1. ASSUME ResultsInv, [Next]_vars, NEW r \in Requests, at[r] = "get", at'[r] = "mark"
        PROVE  now <= objects[ptr'[r]].stored + TTL
    <2>1. PICK s \in Requests : Serving(s)
      BY <1>1 DEF Next, Background, vars
    <2>2. s = r
      BY <1>1, <2>1, OthersStay DEF ResultsInv
    <2>3. GetCached(r) /\ Cache!Live(ask[r].key)
      BY <1>1, <2>1, <2>2, ResultsTypes
      DEF ResultsInv, Serving, AskLimiter, SetHeader, BadRequest, GetCached, MarkCached, Diff,
          StoreResult, Encode, Go
    <2>4. ask[r].key \in Keys /\ ptr'[r] = entries[ask[r].key].result
      BY <1>1, <2>3, ResultsTypes DEF ResultsInv, GetCached
    <2> QED
      BY <1>1, <2>3, <2>4 DEF ResultsInv, CachedInv, Cache!Live
  <1>2. ResultsInv /\ [Next]_vars =>
          [\A r \in Requests :
             at[r] = "get" /\ at'[r] = "mark" => now <= objects[ptr'[r]].stored + TTL]_vars
    BY <1>1
  <1> QED
    BY <1>2, ResultsHold, PTL DEF Spec, HitsAreFresh

\* A live result leaves the cache only when the cache is full and takes in another, and
\* then nothing that stays expires before it (cache.go:62-86).
THEOREM OldestFirst == Spec => OldestGoes
  <1> DEFINE Step ==
        \A k \in Keys :
          Cache!Live(k) /\ entries'[k] = Cache!NoEntry =>
            /\ Cache!Cardinality(Cache!Stored) >= MaxSize
            /\ \A j \in Keys : entries'[j] = entries[j] /\ entries[j] # Cache!NoEntry =>
                 entries[k].expiresAt <= entries[j].expiresAt
  <1>1. ASSUME ResultsInv, [Next]_vars PROVE [Step]_entries
    <2> SUFFICES ASSUME entries' # entries, NEW k \in Keys, Cache!Live(k), entries'[k] = Cache!NoEntry
                 PROVE  /\ Cache!Cardinality(Cache!Stored) >= MaxSize
                        /\ \A j \in Keys : entries'[j] = entries[j] /\ entries[j] # Cache!NoEntry =>
                             entries[k].expiresAt <= entries[j].expiresAt
      OBVIOUS
    <2>1. entries[k] # Cache!NoEntry
      BY DEF Cache!Live
    <2>2. ~Cache!CleanupCache
      BY <2>1 DEF Cache!CleanupCache
    <2>3. PICK r \in Requests : StoreResult(r)
      BY <1>1, <2>2
      DEF Next, Background, Serving, AskLimiter, SetHeader, BadRequest, GetCached, MarkCached, Diff,
          Encode, vars
    <2>4. PICK room \in Cache!MakeRoom :
            entries' = [room EXCEPT ![ask[r].key] = [result |-> r, expiresAt |-> now + TTL]]
      BY <2>3 DEF StoreResult, Cache!Set
    <2>5. DOMAIN room = Keys
      BY <1>1, ResultsTypes DEF ResultsInv, Cache!MakeRoom, Cache!Oldest, Cache!Without, Cache!Stored
    <2>6. room # entries
      <3>1. [result |-> r, expiresAt |-> now + TTL] # Cache!NoEntry
        <4>1. r # "none"
          BY Constants DEF NoPtr
        <4> QED
          BY <4>1 DEF Cache!NoEntry
      <3> QED
        BY <2>1, <2>4, <2>5, <3>1
    <2>7. Cache!Cardinality(Cache!Stored) >= MaxSize
      BY <2>6 DEF Cache!MakeRoom
    <2>8. PICK old \in Cache!Oldest : room = Cache!Without(old)
      BY <2>6 DEF Cache!MakeRoom
    <2>9. k = old
      <3>1. \A j \in Keys \ {old} : room[j] = entries[j]
        BY <1>1, <2>8, ResultsTypes DEF ResultsInv, Cache!Without
      <3>2. [result |-> r, expiresAt |-> now + TTL] # Cache!NoEntry
        <4>1. r # "none"
          BY Constants DEF NoPtr
        <4> QED
          BY <4>1 DEF Cache!NoEntry
      <3>3. CASE k = ask[r].key
        BY <2>4, <2>5, <3>2, <3>3
      <3>4. CASE k # ask[r].key
        BY <2>1, <2>4, <2>5, <3>1, <3>4
      <3> QED
        BY <3>3, <3>4
    <2> QED
      BY <2>7, <2>8, <2>9 DEF Cache!Oldest, Cache!Stored
  <1> HIDE DEF Step
  <1>2. ResultsInv /\ [Next]_vars => [Step]_entries
    BY <1>1
  <1>3. OldestGoes <=> [][Step]_entries
    BY DEF OldestGoes, Cache!OldestGoes, Step
  <1> QED
    BY <1>2, <1>3, ResultsHold, PTL DEF Spec
-----------------------------------------------------------------------------
(* What the limiter lets through and what the server works on are the same     *)
(* requests: none is counted twice, none slips past.                         *)

\* The requests of c that got past the limiter.
Working(c) == {r \in Requests : at[r] # "new" /\ ask[r].client = c /\ reply[r].status # 429}

\* Only the limiter answers 429, and with it the request is over.
UnrefusedInv == \A r \in Requests : at[r] # "done" => reply[r].status # 429

WorkInv == \A c \in Clients : Cardinality(Working(c)) = Len(granted[c])

WorkingInv == TypesInv /\ UnrefusedInv /\ LimiterInv /\ WorkInv

\* Nothing was let through and nothing is worked on.
LEMMA WorkingInit == Init => WorkingInv
  <1> SUFFICES ASSUME Init PROVE WorkingInv
    OBVIOUS
  <1> USE Numbers
  <1>1. TypesInv
    BY TypesInit
  <1>2. /\ now = 0 /\ clients = [c \in Clients |-> Limiter!NoWindow]
        /\ granted = [c \in Clients |-> <<>>] /\ answer.ok = TRUE
    BY DEF Init, Limiter!LimiterInit
  <1>3. \A r \in Requests : at[r] = "new" /\ reply[r].status # 429
    <2>1. NoReply.status = 0
      BY DEF NoReply
    <2> QED
      BY <2>1 DEF Init
  <1>4. LimiterInv
    <2>1. PastInv /\ OpenedInv /\ CountInv
      BY <1>2 DEF PastInv, OpenedInv, CountInv, Limiter!OutOfWindow
    <2>2. RefusedOnlyWhenUsed
      BY <1>2 DEF RefusedOnlyWhenUsed, Limiter!RefusedOnlyWhenUsed
    <2> QED
      BY <2>1, <2>2 DEF LimiterInv
  <1>5. UnrefusedInv
    BY <1>3 DEF UnrefusedInv
  <1>6. WorkInv
    <2> SUFFICES ASSUME NEW c \in Clients PROVE Cardinality(Working(c)) = Len(granted[c])
      BY DEF WorkInv
    <2>1. Working(c) = {}
      BY <1>3 DEF Working
    <2>2. Len(granted[c]) = 0
      BY <1>2
    <2> QED
      BY <2>1, <2>2, FS_EmptySet
  <1> QED
    BY <1>1, <1>4, <1>5, <1>6 DEF WorkingInv

\* A request that asks the limiter is worked on from then on if it is let through, and
\* over if it is not.
LEMMA AskedNext ==
  ASSUME WorkingInv, NEW r \in Requests, AskLimiter(r)
  PROVE  UnrefusedInv' /\ WorkInv'
  <1>0. PICK c : c = ask[r].client
    OBVIOUS
  <1>1. /\ ask' = ask /\ at[r] = "new" /\ Limiter!Allow(c)
        /\ \A s \in Requests \ {r} : at'[s] = at[s] /\ reply'[s] = reply[s]
        /\ reply[r].status # 429 /\ c \in Clients
    BY <1>0, ResultsTypes DEF WorkingInv, UnrefusedInv, AskLimiter, Go
  <1>2. granted \in [Clients -> Seq(0..MaxTime)]
    BY ServerTypes DEF WorkingInv, TypesInv, Limiter!LimiterTypeOK
  <1>3. \A d \in Clients : Cardinality(Working(d)) = Len(granted[d])
    BY DEF WorkingInv, WorkInv
  <1>4. CASE answer'.ok
    <2>1. Limiter!Grant(c)
      BY <1>1, <1>4 DEF Limiter!Allow, Limiter!OpenWindow, Limiter!CountInWindow, Limiter!Refuse
    <2>2. /\ granted'[c] = Append(granted[c], now)
          /\ \A d \in Clients \ {c} : granted'[d] = granted[d]
      BY <1>1, <1>2, <2>1 DEF Limiter!Grant
    <2>3. at'[r] = "remaining" /\ reply'[r] = reply[r]
      BY <1>4, ResultsTypes DEF WorkingInv, AskLimiter, Go
    <2>4. UnrefusedInv'
      BY <1>1, <2>3 DEF WorkingInv, UnrefusedInv
    <2>5. Cardinality(Working(c)') = Len(granted'[c])
      <3>1. Working(c)' = Working(c) \cup {r} /\ r \notin Working(c)
        BY <1>0, <1>1, <2>3 DEF Working
      <3>2. IsFiniteSet(Working(c))
        BY Constants, FS_Subset DEF Working
      <3>3. Cardinality(Working(c)') = Cardinality(Working(c)) + 1
        BY <3>1, <3>2, FS_AddElement
      <3>4. Len(granted'[c]) = Len(granted[c]) + 1
        BY <1>1, <1>2, <2>2
      <3> QED
        BY <1>1, <1>3, <3>3, <3>4
    <2>6. ASSUME NEW d \in Clients \ {c} PROVE Cardinality(Working(d)') = Len(granted'[d])
      <3>1. Working(d)' = Working(d)
        BY <1>0, <1>1, <2>6 DEF Working
      <3> QED
        BY <1>3, <2>2, <2>6, <3>1
    <2>7. WorkInv'
      BY <2>5, <2>6 DEF WorkInv, Working
    <2> QED
      BY <2>4, <2>7
  <1>5. CASE ~answer'.ok
    <2>1. granted' = granted
      BY <1>1, <1>5
      DEF Limiter!Allow, Limiter!OpenWindow, Limiter!CountInWindow, Limiter!Grant, Limiter!Refuse
    <2>2. at'[r] = "done" /\ reply' = [reply EXCEPT ![r].status = 429]
      BY <1>5, ResultsTypes DEF WorkingInv, AskLimiter, Go
    <2>3. reply'[r].status = 429
      BY <2>2, ResultsTypes DEF WorkingInv, ReplyType
    <2>4. UnrefusedInv'
      BY <1>1, <2>2 DEF WorkingInv, UnrefusedInv
    <2>5. ASSUME NEW d \in Clients PROVE Working(d)' = Working(d)
      BY <1>1, <2>3 DEF Working
    <2>6. WorkInv'
      BY <1>3, <2>1, <2>5 DEF WorkInv, Working
    <2> QED
      BY <2>4, <2>6
  <1> QED
    BY <1>4, <1>5

\* Whatever else a request does, it was let through before and stays so.
LEMMA WorkedNext ==
  ASSUME WorkingInv, NEW r \in Requests, Serving(r), ~AskLimiter(r)
  PROVE  UnrefusedInv' /\ WorkInv'
  <1>1. UNCHANGED <<ask, granted>>
    BY DEF Serving, SetHeader, BadRequest, GetCached, MarkCached, Diff, StoreResult, Encode,
           limiterVars
  <1>2. /\ \A s \in Requests \ {r} : at'[s] = at[s] /\ reply'[s] = reply[s]
        /\ reply[r] \in ReplyType
    BY OthersStay, ResultsTypes DEF WorkingInv
  <1>3. at[r] # "new" /\ at'[r] # "new" /\ at[r] # "done"
    BY ResultsTypes
    DEF WorkingInv, Serving, SetHeader, BadRequest, GetCached, MarkCached, Diff, StoreResult,
        Encode, Go
  <1>4. reply[r].status # 429
    BY <1>3 DEF WorkingInv, UnrefusedInv
  <1>5. reply'[r].status # 429
    <2>1. CASE Encode(r)
      <3>1. reply' = [reply EXCEPT ![r] = [reply[r] EXCEPT !.status = 200,
                        !.cached = objects[ptr[r]].cached, !.key = objects[ptr[r]].key]]
        BY <2>1, ZenonT(30) DEF Encode
      <3>2. reply'[r].status = 200
        BY <1>2, <3>1, ResultsTypes DEF WorkingInv, ReplyType
      <3> QED
        BY <3>2
    <2>2. CASE ~Encode(r)
      BY <1>2, <1>4, <2>2, ResultsTypes
      DEF WorkingInv, Serving, SetHeader, BadRequest, GetCached, MarkCached, Diff, StoreResult,
          ReplyType
    <2> QED
      BY <2>1, <2>2
  <1>6. UnrefusedInv'
    BY <1>2, <1>5 DEF WorkingInv, UnrefusedInv
  <1>7. ASSUME NEW c \in Clients PROVE Working(c)' = Working(c)
    BY <1>1, <1>2, <1>3, <1>4, <1>5 DEF Working
  <1>8. WorkInv'
    BY <1>1, <1>7 DEF WorkingInv, WorkInv, Working
  <1> QED
    BY <1>6, <1>8

\* Every step keeps the invariant.
LEMMA WorkingNext == WorkingInv /\ [Next]_vars => WorkingInv'
  <1> SUFFICES ASSUME WorkingInv, [Next]_vars PROVE WorkingInv'
    OBVIOUS
  <1>1. TypesInv' /\ TypesInv /\ Limiter!LimiterTypeOK /\ LimiterInv
    BY TypesNext, ServerTypes DEF WorkingInv, TypesInv
  <1>2. ASSUME NEW r \in Requests, AskLimiter(r) PROVE WorkingInv'
    <2>1. ask[r].client \in Clients
      BY <1>1, ResultsTypes
    <2>2. LimiterInv'
      BY <1>1, <1>2, <2>1, LimiterAsks DEF AskLimiter
    <2> QED
      BY <1>1, <1>2, <2>2, AskedNext DEF WorkingInv
  <1>3. ASSUME NEW r \in Requests, Serving(r), ~AskLimiter(r) PROVE WorkingInv'
    <2>1. UNCHANGED <<now, limiterVars>>
      BY <1>3
      DEF Serving, SetHeader, BadRequest, GetCached, MarkCached, Diff, StoreResult, Encode
    <2> QED
      BY <1>1, <1>3, <2>1, LimiterAlone, WorkedNext DEF WorkingInv
  <1>4. ASSUME UNCHANGED <<at, ask, reply, granted>>, LimiterInv' PROVE WorkingInv'
    BY <1>1, <1>4 DEF WorkingInv, UnrefusedInv, WorkInv, Working
  <1>5. CASE Background
    <2>1. CASE Limiter!Cleanup /\ UNCHANGED <<now, entries, at, ask, ptr, objects, reply>>
      BY <1>1, <1>4, <2>1, LimiterForgets DEF Limiter!Cleanup
    <2>2. CASE Cache!CleanupCache /\ UNCHANGED <<now, limiterVars, at, ask, ptr, objects, reply>>
      BY <1>1, <1>4, <2>2, LimiterAlone DEF limiterVars
    <2>3. CASE Limiter!Tick /\ UNCHANGED <<limiterVars, entries, at, ask, ptr, objects, reply>>
      BY <1>1, <1>4, <2>3, LimiterWaits DEF limiterVars
    <2> QED
      BY <1>5, <2>1, <2>2, <2>3 DEF Background
  <1>6. CASE UNCHANGED vars
    BY <1>1, <1>4, <1>6, LimiterAlone DEF vars, limiterVars
  <1> QED
    BY <1>2, <1>3, <1>5, <1>6 DEF Next, Serving

\* The invariant holds of every reachable state.
LEMMA WorkingHolds == Spec => []WorkingInv
  BY WorkingInit, WorkingNext, PTL DEF Spec

\* The server works on exactly the requests the limiter let through, and in no window are
\* those of a client more than its limit, although requests ask concurrently, windows are
\* forgotten by the cleanup and opened again (ratelimit.go:33-86, 88-102).
THEOREM LimitedWork == Spec => []WorkIsLimited
  <1>1. ASSUME WorkingInv PROVE WorkIsLimited
    <2>1. ASSUME NEW c \in Clients
          PROVE  Cardinality({r \in Requests : at[r] # "new" /\ ask[r].client = c
                                                /\ reply[r].status # 429}) = Len(granted[c])
      BY <1>1 DEF WorkingInv, WorkInv, Working
    <2>2. ASSUME NEW c \in Clients, ~Limiter!OutOfWindow(c)
          PROVE  Limiter!GrantedIn(c, clients[c].windowEnd - Window, now)
                   <= Limiter!AtLeastOne(Limit)
      <3>1. Limiter!GrantedIn(c, clients[c].windowEnd - Window, now) = clients[c].count
        BY <1>1, <2>2, GrantedCounts DEF WorkingInv, LimiterInv, CountInv
      <3> QED
        BY <1>1, <3>1, ClientTypes, ServerTypes DEF WorkingInv, TypesInv
    <2> QED
      BY <2>1, <2>2 DEF WorkIsLimited, Limiter!LimitPerWindow
  <1> QED
    BY <1>1, WorkingHolds, PTL

\* A client is refused only after Limit of its requests were let through within the last
\* window's length, whatever the cleanup forgot in between (ratelimit.go:33-54, 72-86).
THEOREM JustRefusals == Spec => []RefusedOnlyWhenUsed
  <1>1. WorkingInv => RefusedOnlyWhenUsed
    BY DEF WorkingInv, LimiterInv
  <1> QED
    BY <1>1, WorkingHolds, PTL
=============================================================================
