------------------------------ MODULE RateLimiter ------------------------------
(***************************************************************************)
(* The fixed-window rate limiter of the API server                         *)
(* (internal/api/ratelimit.go).  Every method holds the mutex from end to  *)
(* end, so each is one step; the clock moves between them.                 *)
(***************************************************************************)
EXTENDS Naturals, FiniteSets, Sequences

CONSTANTS
  Clients,  \* values of getClientIP
  Limit,    \* RATE_LIMIT
  Window,   \* RATE_WINDOW, in ticks
  MaxTime   \* bound: the clock stops there

LimiterAssumption ==
  /\ Clients # {}
  /\ {Limit, Window, MaxTime} \subseteq Nat

VARIABLES
  now,      \* the clock
  clients,  \* rl.requests: the window of each client; with count 0 there is none
  granted,  \* history: the times at which each client's requests were allowed
  answer    \* history: the last answer of Allow

limiterVars == <<clients, granted, answer>>

NoWindow == [count |-> 0, windowEnd |-> 0]

\* The first request of a window is allowed whatever the limit is.
AtLeastOne(limit) == IF limit = 0 THEN 1 ELSE limit

LimiterTypeOK ==
  /\ now \in 0..MaxTime
  /\ clients \in [Clients -> [count : 0..AtLeastOne(Limit), windowEnd : 0..(MaxTime + Window)]]
  /\ granted \in [Clients -> Seq(0..MaxTime)]
  /\ answer \in [client : Clients, ok : BOOLEAN, at : 0..MaxTime]

LimiterInit ==
  /\ now = 0
  /\ clients = [c \in Clients |-> NoWindow]
  /\ granted = [c \in Clients |-> <<>>]
  /\ answer = [client |-> CHOOSE c \in Clients : TRUE, ok |-> TRUE, at |-> 0]

\* No window, or one that is over: now.After(windowEnd), so its last tick is included.
OutOfWindow(c) == clients[c] = NoWindow \/ now > clients[c].windowEnd

Grant(c) ==
  /\ granted' = [granted EXCEPT ![c] = Append(@, now)]
  /\ answer' = [client |-> c, ok |-> TRUE, at |-> now]

OpenWindow(c) ==
  /\ OutOfWindow(c)
  /\ clients' = [clients EXCEPT ![c] = [count |-> 1, windowEnd |-> now + Window]]
  /\ Grant(c)

\* A bug: every allowed request moves the end of the window.
CountInSlidingWindow(c) ==
  /\ ~OutOfWindow(c)
  /\ clients[c].count < Limit
  /\ clients' = [clients EXCEPT ![c] = [count |-> @.count + 1, windowEnd |-> now + Window]]
  /\ Grant(c)

CountInWindow(c) ==
  /\ ~OutOfWindow(c)
  /\ clients[c].count < Limit
  /\ clients' = [clients EXCEPT ![c].count = @ + 1]
  /\ Grant(c)

Refuse(c) ==
  /\ ~OutOfWindow(c)
  /\ clients[c].count >= Limit
  /\ answer' = [client |-> c, ok |-> FALSE, at |-> now]
  /\ UNCHANGED <<clients, granted>>

Allow(c) == OpenWindow(c) \/ CountInWindow(c) \/ Refuse(c)

\* Remaining, for the header: asked after Allow has let go of the mutex.
Remaining(c) ==
  IF OutOfWindow(c) THEN Limit
  ELSE IF Limit < clients[c].count THEN 0 ELSE Limit - clients[c].count

\* A bug: the periodic cleanup forgets every client.
CleanupAll ==
  /\ clients' = [c \in Clients |-> NoWindow]
  /\ UNCHANGED <<granted, answer>>

Cleanup ==
  /\ clients' = [c \in Clients |-> IF OutOfWindow(c) THEN NoWindow ELSE clients[c]]
  /\ UNCHANGED <<granted, answer>>

Tick == now < MaxTime /\ now' = now + 1

LimiterNext ==
  \/ \E c \in Clients : Allow(c) /\ UNCHANGED now
  \/ Cleanup /\ UNCHANGED now
  \/ Tick /\ UNCHANGED limiterVars

LimiterSpec == LimiterInit /\ [][LimiterNext]_<<now, limiterVars>>
-----------------------------------------------------------------------------
GrantedIn(c, first, last) ==
  Cardinality({i \in 1..Len(granted[c]) : granted[c][i] \in first..last})

\* Within a window a client never gets more than its limit, although windows are
\* forgotten by the cleanup and opened again (ratelimit.go:33-86).  A limit of 0
\* still lets one request of every window through.
LimitPerWindow ==
  \A c \in Clients :
    ~OutOfWindow(c) =>
      GrantedIn(c, clients[c].windowEnd - Window, now) <= AtLeastOne(Limit)

\* A client is refused only if it used up its limit within the last window's length.
RefusedOnlyWhenUsed ==
  ~answer.ok =>
    LET since == IF answer.at < Window THEN 0 ELSE answer.at - Window
    IN GrantedIn(answer.client, since, answer.at) >= Limit
=============================================================================
