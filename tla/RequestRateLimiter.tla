--------------------------- MODULE RequestRateLimiter ---------------------------
(***************************************************************************)
(* The rate limiter of the OAuth and bootstrap endpoints                     *)
(* (internal/oauth/authorization_server.go RequestRateLimiter): a fixed      *)
(* window per key, in a table of bounded size; each call to Allow is one     *)
(* critical section.                                                        *)
(***************************************************************************)
EXTENDS Naturals, FiniteSets, Functions

CONSTANTS
  Keys,         \* source addresses, clients and credential hashes
  Limit,        \* requests allowed in a window
  Window,       \* length of the window
  MaxEntries,   \* 1024 keys in the table
  MaxTime,      \* bound of the model
  MaxAttempts   \* bound of the model: attempts of a key at a time

VARIABLES
  now,
  entries,   \* the windows open: a key's start and count
  allowed,   \* history: when each request of a key was allowed
  attempts,  \* attempts of each key since the clock moved
  denied     \* the key the last step denied, and whether the table was full

vars == <<now, entries, allowed, attempts, denied>>

Nobody == [key |-> "none"]

\* A request of a key: the time, and how many came before it at that time.
Request == [time : 0..MaxTime, nth : 0..MaxAttempts]
ThisRequest(k) == [time |-> now, nth |-> attempts[k]]

TypeOK ==
  /\ now \in 0..MaxTime
  /\ DOMAIN entries \subseteq Keys /\ Cardinality(DOMAIN entries) <= MaxEntries
  /\ \A k \in DOMAIN entries : entries[k].started \in 0..now /\ entries[k].count \in Nat \ {0}
  /\ allowed \in [Keys -> SUBSET Request]
  /\ attempts \in [Keys -> 0..MaxAttempts]
  /\ denied \in [key : Keys, full : BOOLEAN] \cup {Nobody}

Init ==
  /\ now = 0 /\ entries = [k \in {} |-> Nobody]
  /\ allowed = [k \in Keys |-> {}]
  /\ attempts = [k \in Keys |-> 0] /\ denied = Nobody

-----------------------------------------------------------------------------
(* A faulty variant stands before the operator it varies.                   *)

\* Windows that are over are dropped first.
Open(k) == now - entries[k].started < Window
Current == Restrict(entries, {k \in DOMAIN entries : Open(k)})

\* No new key fits.
Full == Cardinality(DOMAIN Current) >= MaxEntries

\* The key's window after one more attempt, allowed or not.
CountedFromZero(k) ==
  IF k \in DOMAIN Current THEN [Current[k] EXCEPT !.count = @ + 1]
  ELSE [started |-> now, count |-> 0]
Counted(k) ==
  IF k \in DOMAIN Current THEN [Current[k] EXCEPT !.count = @ + 1]
  ELSE [started |-> now, count |-> 1]

Allow(k) ==
  /\ attempts[k] < MaxAttempts
  /\ attempts' = [attempts EXCEPT ![k] = @ + 1]
  /\ IF k \notin DOMAIN Current /\ Full
     THEN /\ entries' = Current
          /\ denied' = [key |-> k, full |-> TRUE]
          /\ UNCHANGED allowed
     ELSE /\ entries' = [j \in DOMAIN Current \cup {k} |->
                           IF j = k THEN Counted(k) ELSE Current[j]]
          /\ IF Counted(k).count <= Limit
             THEN allowed' = [allowed EXCEPT ![k] = @ \cup {ThisRequest(k)}] /\ denied' = Nobody
             ELSE denied' = [key |-> k, full |-> FALSE] /\ UNCHANGED allowed
  /\ UNCHANGED now

Tick ==
  /\ now < MaxTime /\ now' = now + 1
  /\ attempts' = [k \in Keys |-> 0] /\ denied' = Nobody
  /\ UNCHANGED <<entries, allowed>>

Next == (\E k \in Keys : Allow(k)) \/ Tick

Spec == Init /\ [][Next]_vars

-----------------------------------------------------------------------------
(* Properties.                                                              *)

\* Requests of a key allowed in the Window time units up to `t`.
Recent(k, t) == {q \in allowed[k] : q.time <= t /\ t < q.time + Window}
AllowedBy(k, t) == Cardinality(Recent(k, t))

\* However a key spreads its requests over the clock and over the windows the
\* limiter opens and drops, no Window of time sees more than twice the Limit.
TwiceTheLimitAtMost == \A k \in Keys, t \in 0..now : AllowedBy(k, t) <= 2 * Limit

\* A request is turned away only when its key had Limit requests allowed within
\* the last Window, or the table is full of other keys: attempts that were
\* turned away do not keep a key out.
DeniedForCause ==
  denied # Nobody /\ ~denied.full => AllowedBy(denied.key, now) >= Limit
=============================================================================
