------------------------------- MODULE CodeStore -------------------------------
(***************************************************************************)
(* The expiring store of single-use IDs (internal/oauth/code_store.go) that  *)
(* the setup pages and the authorization codes are kept in: a function from  *)
(* IDs to expiry times, each operation one critical section.                 *)
(***************************************************************************)
EXTENDS Naturals, FiniteSets, Functions

Ids(entries) == DOMAIN entries
EmptyStore == [id \in {} |-> 0]

\* purgeExpiredLocked: an entry expires at its expiry time.
Purged(entries, now) == Restrict(entries, {id \in Ids(entries) : entries[id] > now})

\* Store: a new ID with an expiry ahead, and room for it.
CanStore(entries, id, expiry, now, max) ==
  /\ expiry > now
  /\ Cardinality(Ids(Purged(entries, now))) < max
  /\ id \notin Ids(Purged(entries, now))
WithId(entries, id, expiry, now) ==
  LET live == Purged(entries, now)
  IN [i \in Ids(live) \cup {id} |-> IF i = id THEN expiry ELSE live[i]]

\* Consume: the ID is unused and unexpired; it is used up.
CanConsume(entries, id, now) == id \in Ids(Purged(entries, now))
WithoutId(entries, id, now) ==
  LET live == Purged(entries, now) IN Restrict(live, Ids(live) \ {id})
=============================================================================
