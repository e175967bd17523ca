------------------------------ MODULE PlanStore ------------------------------
(***************************************************************************)
(* The in-memory store of confirmation tokens behind every bulk tool        *)
(* (internal/batch/store.go).  A dry run calls Issue and hands the token to *)
(* the client; the confirmed call presents the token together with a plan   *)
(* rebuilt from the current InvenTree state, and Consume accepts it once,   *)
(* for the same principal, operation and digest, before it expires.         *)
(*                                                                          *)
(* Issue and Consume read the clock, the principal and the digest BEFORE    *)
(* they take the mutex, so each is two steps here: a call may wait for the  *)
(* lock while the clock moves on and other calls overtake it.               *)
(***************************************************************************)
EXTENDS Integers, FiniteSets

CONSTANTS
  Callers,                 \* goroutines serving tool calls
  Principals,              \* authenticated principals (Options.Principal)
  Keys,                    \* batch operations (Options.SupersedeKey)
  Digests,                 \* plan digests: what the operation would do
  Tokens,                  \* identifiers the ID generator can return
  NoToken,                 \* stands for "no plan was ever issued"
  Lifetime,                \* Options.Lifetime, in clock ticks
  MaxEntries,              \* Options.MaxEntries
  MaxEntriesPerPrincipal,  \* Options.MaxEntriesPerPrincipal
  MaxTime,                 \* bound of the model: the clock stops here
  Unused, Accepted, Void   \* states of a token in ConfirmationTokens

ASSUME BoundsAssumption ==
  /\ Lifetime \in Nat \ {0}
  /\ MaxEntries \in Nat \ {0}
  /\ MaxEntriesPerPrincipal \in Nat \ {0}
  /\ MaxTime \in Nat

ASSUME TokenAssumption == NoToken \notin Tokens

VARIABLES
  clock,     \* Options.Clock
  minted,    \* tokens the ID generator has returned so far
  calls,     \* calls between reading the clock and finishing under the lock
  entries,   \* Store.entries
  latest,    \* history: the last token issued for each principal and key
  accepted   \* history: how often Consume returned true for each token

vars == <<clock, minted, calls, entries, latest, accepted>>

Entry == [token : Tokens, principal : Principals, key : Keys,
          digest : Digests, expiresAt : Nat]

Call == [op : {"issue", "consume"}, caller : Callers, token : Tokens,
         principal : Principals, key : Keys, digest : Digests, now : Nat]

TypeOK ==
  /\ clock \in 0..MaxTime
  /\ minted \subseteq Tokens
  /\ calls \subseteq Call
  /\ entries \subseteq Entry
  /\ latest \in [Principals \X Keys -> Tokens \cup {NoToken}]
  /\ accepted \in [Tokens -> Nat]
  /\ \A e, f \in entries : e.token = f.token => e = f  \* entries is a map

Init ==
  /\ clock = 0
  /\ minted = {}
  /\ calls = {}
  /\ entries = {}
  /\ latest = [o \in Principals \X Keys |-> NoToken]
  /\ accepted = [t \in Tokens |-> 0]

-----------------------------------------------------------------------------
(* Helpers.  Each faulty variant stands before the operator it is a variant *)
(* of; the project's mutants use them, the specification does not.          *)

Idle(c) == \A r \in calls : r.caller # c

SameOperation(e, r) == e.principal = r.principal /\ e.key = r.key

\* The ID generator never returns an identifier twice.
AnyToken == Tokens
FreshTokens == Tokens \ minted

\* deleteExpiredLocked: what is left of S at time now.
Unexpired(S, now) == {e \in S : now < e.expiresAt}

\* Issue's loop: the caller's earlier plan for the same operation is deleted.
DeletesNone(S, r) == S
WithoutSuperseded(S, r) == {e \in S : ~SameOperation(e, r)}

\* What Issue leaves in the store before it looks at the limits.
Kept(r) == WithoutSuperseded(Unexpired(entries, r.now), r)

OfPrincipal(S, p) == {e \in S : e.principal = p}

\* Issue's capacity check.
FullOffByOne(S, p) ==
  \/ Cardinality(S) > MaxEntries
  \/ Cardinality(OfPrincipal(S, p)) > MaxEntriesPerPrincipal
Full(S, p) ==
  \/ Cardinality(S) >= MaxEntries
  \/ Cardinality(OfPrincipal(S, p)) >= MaxEntriesPerPrincipal

\* The check is made on what the two deletions leave, not on what they found.
RefusedBeforeDeleting(r) == Full(Unexpired(entries, r.now), r.principal)
Refused(r) == Full(Kept(r), r.principal)

\* Consume's verdict on an entry that carries the presented token.
Matches(e, r) ==
  /\ SameOperation(e, r)
  /\ e.digest = r.digest
  /\ r.now < e.expiresAt

\* What a successful Consume deletes.
Spends(e) == {e}

-----------------------------------------------------------------------------
(* Issue.                                                                   *)

\* The part before the lock: digest, token, clock, principal and key.
StartIssue(c, p, k, d) ==
  /\ Idle(c)
  /\ \E t \in FreshTokens :
       /\ minted' = minted \cup {t}
       /\ calls' = calls \cup {[op |-> "issue", caller |-> c, token |-> t,
                                principal |-> p, key |-> k, digest |-> d,
                                now |-> clock]}
  /\ UNCHANGED <<clock, entries, latest, accepted>>

Planned(r) ==
  [token |-> r.token, principal |-> r.principal, key |-> r.key,
   digest |-> r.digest, expiresAt |-> r.now + Lifetime]

\* The part under the lock.  A full store refuses the plan, after the expired
\* and the superseded plans have been deleted.
FinishIssue(r) ==
  /\ r \in calls /\ r.op = "issue"
  /\ calls' = calls \ {r}
  /\ \/ /\ Refused(r)
        /\ entries' = Kept(r)
        /\ UNCHANGED latest
     \/ /\ ~Refused(r)
        /\ entries' = Kept(r) \cup {Planned(r)}
        /\ latest' = [latest EXCEPT ![<<r.principal, r.key>>] = r.token]
  /\ UNCHANGED <<clock, minted, accepted>>

-----------------------------------------------------------------------------
(* Consume.                                                                 *)

\* The part before the lock.  The client may present any token it has seen,
\* or one that was never issued.
StartConsume(c, p, k, d, t) ==
  /\ Idle(c)
  /\ calls' = calls \cup {[op |-> "consume", caller |-> c, token |-> t,
                           principal |-> p, key |-> k, digest |-> d,
                           now |-> clock]}
  /\ UNCHANGED <<clock, minted, entries, latest, accepted>>

\* The part under the lock, when the token is accepted ...
Accept(r) ==
  LET live == Unexpired(entries, r.now) IN
  /\ r \in calls /\ r.op = "consume"
  /\ \E e \in live :
       /\ e.token = r.token /\ Matches(e, r)
       /\ entries' = live \ Spends(e)
  /\ accepted' = [accepted EXCEPT ![r.token] = @ + 1]
  /\ calls' = calls \ {r}
  /\ UNCHANGED <<clock, minted, latest>>

\* ... and when it is not: only expired plans are deleted.
Refuse(r) ==
  LET live == Unexpired(entries, r.now) IN
  /\ r \in calls /\ r.op = "consume"
  /\ ~\E e \in live : e.token = r.token /\ Matches(e, r)
  /\ entries' = live
  /\ calls' = calls \ {r}
  /\ UNCHANGED <<clock, minted, latest, accepted>>

Tick ==
  /\ clock < MaxTime
  /\ clock' = clock + 1
  /\ UNCHANGED <<minted, calls, entries, latest, accepted>>

Next ==
  \/ \E c \in Callers, p \in Principals, k \in Keys, d \in Digests :
       \/ StartIssue(c, p, k, d)
       \/ \E t \in Tokens : StartConsume(c, p, k, d, t)
  \/ \E r \in calls : FinishIssue(r) \/ Accept(r) \/ Refuse(r)
  \/ Tick

Spec == Init /\ [][Next]_vars

-----------------------------------------------------------------------------
(* Properties.                                                              *)

\* No confirmation token authorises two mutations, whatever two concurrent
\* confirmed calls do with it (store.go: "issues and consumes single-use,
\* principal-bound confirmation tokens").
SingleUse == \A t \in Tokens : accepted[t] <= 1

\* A fresh dry run of an operation invalidates every earlier plan for it: an
\* outstanding token is always the last one issued for its principal and
\* operation, even when the issuing calls overtook each other.
OnlyLatestOutstanding ==
  \A e \in entries : latest[<<e.principal, e.key>>] = e.token

\* The store never holds more plans than its two limits allow, although the
\* clock reading a call purges with may be older than the state it purges.
WithinCapacity ==
  /\ Cardinality(entries) <= MaxEntries
  /\ \A p \in Principals :
       Cardinality(OfPrincipal(entries, p)) <= MaxEntriesPerPrincipal

\* A plan leaves the store only because it expired, was accepted, or was
\* replaced by a newer plan of the same operation.  In particular an Issue
\* the capacity check refuses has not deleted the plan it meant to replace,
\* and a refused confirmation burns nobody's token.
Replaced(e) ==
  \E f \in entries' : SameOperation(f, e) /\ f.token # e.token

LostWithoutCause(e) ==
  /\ e \notin entries'
  /\ clock < e.expiresAt
  /\ accepted'[e.token] = accepted[e.token]
  /\ ~Replaced(e)

NoPlanLost == [][\A e \in entries : ~LostWithoutCause(e)]_vars

\* A token is accepted only for the principal, operation and digest it was
\* issued for, on a clock reading taken before the plan's deadline.
AcceptedAsReviewed ==
  [][\A t \in Tokens : accepted'[t] # accepted[t] =>
       \E r \in calls \ calls', e \in entries \ entries' :
         /\ r.op = "consume" /\ r.token = t /\ e.token = t
         /\ SameOperation(e, r) /\ e.digest = r.digest
         /\ r.now < e.expiresAt]_vars

-----------------------------------------------------------------------------
(* The mapping under which the store implements ConfirmationTokens.         *)

Operations == Principals \X Keys

ASSUME StateAssumption ==
  /\ Unused \notin Operations /\ Accepted \notin Operations /\ Void \notin Operations
  /\ Unused # Accepted /\ Accepted # Void /\ Void # Unused

\* What an outstanding token is outstanding for.
OperationOf(t) ==
  CHOOSE o \in Operations :
    \E e \in entries : e.token = t /\ o = <<e.principal, e.key>>

\* A token is unused until the Issue call that drew it has finished; one
\* that left the store without being accepted is void.
tokenState ==
  [t \in Tokens |->
     IF accepted[t] > 0 THEN Accepted
     ELSE IF \E e \in entries : e.token = t
          THEN OperationOf(t)
     ELSE IF t \in minted /\ ~\E r \in calls : r.op = "issue" /\ r.token = t
          THEN Void ELSE Unused]

Abstract == INSTANCE ConfirmationTokens WITH state <- tokenState

\* The store keeps the promise of a dry run: every behaviour of its locked
\* and unlocked halves is, seen from the tokens, a behaviour of
\* ConfirmationTokens.
ImplementsTokens == Abstract!TokenSpec

=============================================================================
