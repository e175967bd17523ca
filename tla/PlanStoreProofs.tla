---------------------------- MODULE PlanStoreProofs ----------------------------
(***************************************************************************)
(* Proofs about the token store for every number of callers, principals,    *)
(* operations and tokens, every lifetime and both limits.                   *)
(*                                                                          *)
(* The inductive invariant adds to the checked ones what ties the two       *)
(* halves of a call together: a call's clock reading is never ahead of the  *)
(* clock, and the token an Issue call carries across the wait for the lock  *)
(* is nobody else's: no other call, no entry and no acceptance has it.      *)
(***************************************************************************)
EXTENDS PlanStore, FiniteSetTheorems, TLAPS

ReadingsInPast == \A r \in calls : r.now <= clock

\* The token drawn by a call that has not finished Issue is still private.
DrawnTokensPrivate ==
  \A r \in calls : r.op = "issue" =>
    /\ r.token \in minted
    /\ accepted[r.token] = 0
    /\ \A e \in entries : e.token # r.token
    /\ \A q \in calls : q.op = "issue" /\ q.token = r.token => q = r

\* An outstanding token was drawn from the generator and is unspent.
OutstandingUnspent ==
  \A e \in entries : e.token \in minted /\ accepted[e.token] = 0

\* A token that was never drawn cannot have been accepted.
UndrawnUnspent == \A t \in Tokens \ minted : accepted[t] = 0

IInv ==
  /\ TypeOK
  /\ ReadingsInPast
  /\ DrawnTokensPrivate
  /\ OutstandingUnspent
  /\ UndrawnUnspent
  /\ SingleUse
  /\ OnlyLatestOutstanding

-----------------------------------------------------------------------------
\* The initial state satisfies the inductive invariant.
LEMMA InitIInv == Init => IInv
BY BoundsAssumption
   DEF Init, IInv, TypeOK, ReadingsInPast, DrawnTokensPrivate,
       OutstandingUnspent, UndrawnUnspent, SingleUse, OnlyLatestOutstanding

\* Starting an Issue call draws a token nobody has.
LEMMA StartIssueIInv ==
  ASSUME IInv, NEW c \in Callers, NEW p \in Principals, NEW k \in Keys,
         NEW d \in Digests, StartIssue(c, p, k, d)
  PROVE  IInv'
<1>1. PICK t \in Tokens \ minted :
        /\ minted' = minted \cup {t}
        /\ calls' = calls \cup {[op |-> "issue", caller |-> c, token |-> t,
                                 principal |-> p, key |-> k, digest |-> d,
                                 now |-> clock]}
  BY DEF StartIssue, FreshTokens
<1>2. UNCHANGED <<clock, entries, latest, accepted>>
  BY DEF StartIssue
<1>3. TypeOK'
  BY <1>1, <1>2, BoundsAssumption DEF IInv, TypeOK, Call
<1>4. ReadingsInPast'
  BY <1>1, <1>2 DEF IInv, TypeOK, ReadingsInPast
<1>5. DrawnTokensPrivate'
  BY <1>1, <1>2
     DEF IInv, TypeOK, DrawnTokensPrivate, OutstandingUnspent, UndrawnUnspent
<1>6. OutstandingUnspent' /\ UndrawnUnspent' /\ SingleUse' /\ OnlyLatestOutstanding'
  BY <1>1, <1>2
     DEF IInv, OutstandingUnspent, UndrawnUnspent, SingleUse, OnlyLatestOutstanding
<1>7. QED
  BY <1>3, <1>4, <1>5, <1>6 DEF IInv

\* Starting a Consume call changes nothing but the calls.
LEMMA StartConsumeIInv ==
  ASSUME IInv, NEW c \in Callers, NEW p \in Principals, NEW k \in Keys,
         NEW d \in Digests, NEW t \in Tokens, StartConsume(c, p, k, d, t)
  PROVE  IInv'
<1>1. /\ calls' = calls \cup {[op |-> "consume", caller |-> c, token |-> t,
                               principal |-> p, key |-> k, digest |-> d,
                               now |-> clock]}
      /\ UNCHANGED <<clock, minted, entries, latest, accepted>>
  BY DEF StartConsume
<1>2. TypeOK'
  BY <1>1, BoundsAssumption DEF IInv, TypeOK, Call
<1>3. ReadingsInPast'
  BY <1>1 DEF IInv, TypeOK, ReadingsInPast
<1>4. DrawnTokensPrivate'
  BY <1>1 DEF IInv, DrawnTokensPrivate
<1>5. OutstandingUnspent' /\ UndrawnUnspent' /\ SingleUse' /\ OnlyLatestOutstanding'
  BY <1>1
     DEF IInv, OutstandingUnspent, UndrawnUnspent, SingleUse, OnlyLatestOutstanding
<1>6. QED
  BY <1>2, <1>3, <1>4, <1>5 DEF IInv

\* What Issue keeps is part of the store and has no plan for its operation.
LEMMA KeptSubset ==
  ASSUME NEW r \in calls
  PROVE  /\ Kept(r) \subseteq entries
         /\ \A e \in Kept(r) : ~SameOperation(e, r)
BY DEF Kept, WithoutSuperseded, Unexpired

\* The locked half of Issue: the token it stores becomes the operation's
\* latest, and the earlier one is gone.
LEMMA FinishIssueIInv ==
  ASSUME IInv, NEW r \in calls, FinishIssue(r)
  PROVE  IInv'
<1>1. /\ r.op = "issue"
      /\ calls' = calls \ {r}
      /\ UNCHANGED <<clock, minted, accepted>>
  BY DEF FinishIssue
<1>2. CASE entries' = Kept(r) /\ UNCHANGED latest
  <2>1. entries' \subseteq entries
    BY <1>2, KeptSubset
  <2>2. TypeOK'
    BY <1>1, <1>2, <2>1 DEF IInv, TypeOK
  <2>3. QED
    BY <1>1, <1>2, <2>1, <2>2
       DEF IInv, ReadingsInPast, DrawnTokensPrivate, OutstandingUnspent,
           UndrawnUnspent, SingleUse, OnlyLatestOutstanding
<1>3. CASE /\ entries' = Kept(r) \cup {Planned(r)}
           /\ latest' = [latest EXCEPT ![<<r.principal, r.key>>] = r.token]
  <2>1. r \in Call /\ r.token \in minted /\ accepted[r.token] = 0
    BY <1>1 DEF IInv, TypeOK, DrawnTokensPrivate
  <2>2. /\ Planned(r) \in Entry
        /\ Planned(r).token = r.token
        /\ Planned(r).principal = r.principal
        /\ Planned(r).key = r.key
    BY <2>1, BoundsAssumption DEF Planned, Call, Entry
  <2>3. \A e \in entries : e.token # r.token
    BY <1>1 DEF IInv, DrawnTokensPrivate
  <2>4. TypeOK'
    BY <1>1, <1>3, <2>1, <2>2, <2>3, KeptSubset DEF IInv, TypeOK, Call
  <2>5. DrawnTokensPrivate'
    BY <1>1, <1>3, <2>2, KeptSubset DEF IInv, DrawnTokensPrivate
  <2>6. OutstandingUnspent'
    BY <1>1, <1>3, <2>1, <2>2, KeptSubset DEF IInv, OutstandingUnspent
  <2>7. OnlyLatestOutstanding'
    <3> SUFFICES ASSUME NEW e \in entries'
                 PROVE  latest'[<<e.principal, e.key>>] = e.token
      BY DEF OnlyLatestOutstanding
    <3>1. latest \in [Principals \X Keys -> Tokens \cup {NoToken}]
      BY DEF IInv, TypeOK
    <3>2. CASE e = Planned(r)
      BY <1>3, <2>1, <2>2, <3>1, <3>2 DEF Call
    <3>3. CASE e \in Kept(r)
      <4>1. e \in entries /\ e \in Entry
        BY <3>3, KeptSubset DEF IInv, TypeOK
      <4>2. <<e.principal, e.key>> # <<r.principal, r.key>>
        BY <3>3, KeptSubset DEF SameOperation
      <4>3. <<e.principal, e.key>> \in Principals \X Keys
        BY <4>1 DEF Entry
      <4>4. latest'[<<e.principal, e.key>>] = latest[<<e.principal, e.key>>]
        BY <1>3, <3>1, <4>2, <4>3
      <4>5. QED
        BY <4>1, <4>4 DEF IInv, OnlyLatestOutstanding
    <3>4. QED
      BY <1>3, <3>2, <3>3
  <2>8. ReadingsInPast' /\ UndrawnUnspent' /\ SingleUse'
    BY <1>1 DEF IInv, ReadingsInPast, UndrawnUnspent, SingleUse
  <2>9. QED
    BY <2>4, <2>5, <2>6, <2>7, <2>8 DEF IInv
<1>4. QED
  BY <1>2, <1>3 DEF FinishIssue

\* Accepting a token takes its entry out, so it is not accepted again.
LEMMA AcceptIInv ==
  ASSUME IInv, NEW r \in calls, Accept(r)
  PROVE  IInv'
<1>1. PICK e \in Unexpired(entries, r.now) :
        /\ e.token = r.token
        /\ entries' = Unexpired(entries, r.now) \ Spends(e)
  BY DEF Accept
<1>2. /\ accepted' = [accepted EXCEPT ![r.token] = @ + 1]
      /\ calls' = calls \ {r}
      /\ UNCHANGED <<clock, minted, latest>>
  BY DEF Accept
<1>3. e \in entries /\ entries' \subseteq entries \ {e}
  BY <1>1 DEF Unexpired, Spends
<1>4. r.token \in Tokens /\ accepted[r.token] = 0 /\ r.token \in minted
  BY <1>1, <1>3 DEF IInv, TypeOK, OutstandingUnspent, Call
<1>5. /\ accepted'[r.token] = 1
      /\ \A t \in Tokens : t # r.token => accepted'[t] = accepted[t]
  BY <1>2, <1>4 DEF IInv, TypeOK
<1>6. \A f \in entries' : f.token # r.token
  BY <1>1, <1>3 DEF IInv, TypeOK
<1>7. TypeOK'
  BY <1>2, <1>3, <1>4 DEF IInv, TypeOK
<1>8. DrawnTokensPrivate'
  <2> SUFFICES ASSUME NEW q \in calls', q.op = "issue"
               PROVE  /\ q.token \in minted'
                      /\ accepted'[q.token] = 0
                      /\ \A f \in entries' : f.token # q.token
                      /\ \A s \in calls' : s.op = "issue" /\ s.token = q.token => s = q
    BY DEF DrawnTokensPrivate
  <2>1. q \in calls /\ q.token \in Tokens
    BY <1>2 DEF IInv, TypeOK, Call
  <2>2. q.token # r.token
    BY <1>1, <1>3, <2>1 DEF IInv, DrawnTokensPrivate
  <2>3. QED
    BY <1>2, <1>3, <1>5, <2>1, <2>2 DEF IInv, DrawnTokensPrivate
<1>9. OutstandingUnspent'
  BY <1>2, <1>3, <1>5, <1>6 DEF IInv, TypeOK, Entry, OutstandingUnspent
<1>10. ReadingsInPast' /\ OnlyLatestOutstanding'
  BY <1>2, <1>3 DEF IInv, ReadingsInPast, OnlyLatestOutstanding
<1>11. UndrawnUnspent' /\ SingleUse'
  BY <1>2, <1>4, <1>5 DEF IInv, TypeOK, UndrawnUnspent, SingleUse
<1>12. QED
  BY <1>7, <1>8, <1>9, <1>10, <1>11 DEF IInv

\* A refused confirmation only purges expired plans.
LEMMA RefuseIInv ==
  ASSUME IInv, NEW r \in calls, Refuse(r)
  PROVE  IInv'
<1>1. /\ entries' \subseteq entries
      /\ calls' = calls \ {r}
      /\ UNCHANGED <<clock, minted, latest, accepted>>
  BY DEF Refuse, Unexpired
<1>2. TypeOK'
  BY <1>1 DEF IInv, TypeOK
<1>3. QED
  BY <1>1, <1>2
     DEF IInv, ReadingsInPast, DrawnTokensPrivate, OutstandingUnspent,
         UndrawnUnspent, SingleUse, OnlyLatestOutstanding

\* Time only moves readings further into the past.
LEMMA TickIInv == ASSUME IInv, Tick PROVE IInv'
<1>1. /\ clock' = clock + 1 /\ clock < MaxTime
      /\ UNCHANGED <<minted, calls, entries, latest, accepted>>
  BY DEF Tick
<1>2. TypeOK' /\ ReadingsInPast'
  BY <1>1, BoundsAssumption DEF IInv, TypeOK, Call, ReadingsInPast
<1>3. QED
  BY <1>1, <1>2
     DEF IInv, DrawnTokensPrivate, OutstandingUnspent, UndrawnUnspent,
         SingleUse, OnlyLatestOutstanding

\* Every step keeps the inductive invariant.
LEMMA NextIInv == IInv /\ [Next]_vars => IInv'
<1> SUFFICES ASSUME IInv, [Next]_vars PROVE IInv'
  OBVIOUS
<1>1. CASE \E c \in Callers, p \in Principals, k \in Keys, d \in Digests :
             \/ StartIssue(c, p, k, d)
             \/ \E t \in Tokens : StartConsume(c, p, k, d, t)
  BY <1>1, StartIssueIInv, StartConsumeIInv
<1>2. CASE \E r \in calls : FinishIssue(r) \/ Accept(r) \/ Refuse(r)
  BY <1>2, FinishIssueIInv, AcceptIInv, RefuseIInv
<1>3. CASE Tick
  BY <1>3, TickIInv
<1>4. CASE UNCHANGED vars
  BY <1>4 DEF vars, IInv, TypeOK, ReadingsInPast, DrawnTokensPrivate,
              OutstandingUnspent, UndrawnUnspent, SingleUse,
              OnlyLatestOutstanding
<1>5. QED
  BY <1>1, <1>2, <1>3, <1>4 DEF Next

\* The inductive invariant holds in every reachable state.
THEOREM Inductive == Spec => []IInv
BY InitIInv, NextIInv, PTL DEF Spec

\* Type correctness of the store, its calls and its histories.
THEOREM TypeCorrect == Spec => []TypeOK
BY Inductive, PTL DEF IInv

\* No confirmation token is ever accepted twice (store.go Consume).
THEOREM TokensAreSingleUse == Spec => []SingleUse
BY Inductive, PTL DEF IInv

\* A fresh dry run invalidates the earlier one (store.go Issue).
THEOREM LatestOnly == Spec => []OnlyLatestOutstanding
BY Inductive, PTL DEF IInv

-----------------------------------------------------------------------------
(* Capacity.                                                                *)

CapacityInv == IsFiniteSet(entries) /\ WithinCapacity

\* Deleting plans keeps both limits.
LEMMA SubsetCapacity ==
  ASSUME CapacityInv, entries' \subseteq entries
  PROVE  CapacityInv'
<1>1. IsFiniteSet(entries') /\ Cardinality(entries') <= Cardinality(entries)
  BY FS_Subset DEF CapacityInv
<1>2. Cardinality(entries) \in Nat /\ Cardinality(entries') \in Nat
  BY <1>1, FS_CardinalityType DEF CapacityInv
<1>3. ASSUME NEW p \in Principals
      PROVE  Cardinality(OfPrincipal(entries', p)) <= MaxEntriesPerPrincipal
  <2>1. OfPrincipal(entries', p) \subseteq OfPrincipal(entries, p)
    BY DEF OfPrincipal
  <2>2. IsFiniteSet(OfPrincipal(entries, p))
    BY FS_Subset DEF CapacityInv, OfPrincipal
  <2>3. /\ Cardinality(OfPrincipal(entries', p)) <= Cardinality(OfPrincipal(entries, p))
        /\ IsFiniteSet(OfPrincipal(entries', p))
    BY <2>1, <2>2, FS_Subset
  <2>4. /\ Cardinality(OfPrincipal(entries, p)) \in Nat
        /\ Cardinality(OfPrincipal(entries', p)) \in Nat
    BY <2>2, <2>3, FS_CardinalityType
  <2>5. Cardinality(OfPrincipal(entries, p)) <= MaxEntriesPerPrincipal
    BY DEF CapacityInv, WithinCapacity
  <2>6. QED
    BY <2>3, <2>4, <2>5, BoundsAssumption
<1>4. QED
  BY <1>1, <1>2, <1>3, BoundsAssumption DEF CapacityInv, WithinCapacity

\* Storing a plan the check lets through keeps both limits.
LEMMA IssueCapacity ==
  ASSUME CapacityInv, TypeOK, NEW r \in calls, ~Refused(r),
         entries' = Kept(r) \cup {Planned(r)}
  PROVE  CapacityInv'
<1>1. Kept(r) \subseteq entries
  BY KeptSubset
<1>2. IsFiniteSet(Kept(r)) /\ Cardinality(Kept(r)) \in Nat
  BY <1>1, FS_Subset, FS_CardinalityType DEF CapacityInv
<1>3. /\ IsFiniteSet(entries')
      /\ Cardinality(entries') <= Cardinality(Kept(r)) + 1
  BY <1>2, FS_AddElement
<1>4. Cardinality(entries') <= MaxEntries
  BY <1>2, <1>3, FS_CardinalityType, BoundsAssumption DEF Refused, Full
<1>5. ASSUME NEW p \in Principals
      PROVE  Cardinality(OfPrincipal(entries', p)) <= MaxEntriesPerPrincipal
  <2>1. /\ OfPrincipal(Kept(r), p) \subseteq Kept(r)
        /\ OfPrincipal(Kept(r), p) \subseteq OfPrincipal(entries, p)
        /\ OfPrincipal(entries, p) \subseteq entries
    BY <1>1 DEF OfPrincipal
  <2>2. /\ IsFiniteSet(OfPrincipal(Kept(r), p))
        /\ IsFiniteSet(OfPrincipal(entries, p))
        /\ Cardinality(OfPrincipal(Kept(r), p)) \in Nat
        /\ Cardinality(OfPrincipal(entries, p)) \in Nat
        /\ Cardinality(OfPrincipal(Kept(r), p)) <= Cardinality(OfPrincipal(entries, p))
    BY <1>2, <2>1, FS_Subset, FS_CardinalityType DEF CapacityInv
  <2>3. Planned(r).principal = r.principal
    BY DEF Planned
  <2>4. CASE p = r.principal
    <3>1. OfPrincipal(entries', p) = OfPrincipal(Kept(r), p) \cup {Planned(r)}
      BY <2>3, <2>4 DEF OfPrincipal
    <3>2. Cardinality(OfPrincipal(Kept(r), p)) < MaxEntriesPerPrincipal
      BY <2>2, <2>4, BoundsAssumption DEF Refused, Full
    <3>3. /\ IsFiniteSet(OfPrincipal(Kept(r), p) \cup {Planned(r)})
          /\ Cardinality(OfPrincipal(Kept(r), p) \cup {Planned(r)})
               \in {Cardinality(OfPrincipal(Kept(r), p)),
                    Cardinality(OfPrincipal(Kept(r), p)) + 1}
      BY <2>2, FS_AddElement
    <3>4. Cardinality(OfPrincipal(entries', p))
            \in {Cardinality(OfPrincipal(Kept(r), p)),
                 Cardinality(OfPrincipal(Kept(r), p)) + 1}
      BY <3>1, <3>3
    <3>5. QED
      BY <2>2, <3>2, <3>4, BoundsAssumption
  <2>5. CASE p # r.principal
    <3>1. OfPrincipal(entries', p) = OfPrincipal(Kept(r), p)
      BY <2>3, <2>5 DEF OfPrincipal
    <3>2. Cardinality(OfPrincipal(entries, p)) <= MaxEntriesPerPrincipal
      BY DEF CapacityInv, WithinCapacity
    <3>3. QED
      BY <2>2, <3>1, <3>2, BoundsAssumption
  <2>6. QED
    BY <2>4, <2>5
<1>6. QED
  BY <1>3, <1>4, <1>5 DEF CapacityInv, WithinCapacity

\* Every step keeps both limits.
LEMMA NextCapacity == TypeOK /\ CapacityInv /\ [Next]_vars => CapacityInv'
<1> SUFFICES ASSUME TypeOK, CapacityInv, [Next]_vars PROVE CapacityInv'
  OBVIOUS
<1>1. ASSUME entries' = entries PROVE CapacityInv'
  BY <1>1, SubsetCapacity
<1>2. ASSUME NEW r \in calls, FinishIssue(r) PROVE CapacityInv'
  <2>1. CASE entries' = Kept(r)
    BY <2>1, KeptSubset, SubsetCapacity
  <2>2. CASE ~Refused(r) /\ entries' = Kept(r) \cup {Planned(r)}
    BY <2>2, IssueCapacity
  <2>3. QED
    BY <1>2, <2>1, <2>2 DEF FinishIssue
<1>3. ASSUME NEW r \in calls, Accept(r) \/ Refuse(r) PROVE CapacityInv'
  <2>1. entries' \subseteq entries
    BY <1>3 DEF Accept, Refuse, Unexpired
  <2>2. QED
    BY <2>1, SubsetCapacity
<1>4. CASE \/ \E c \in Callers, p \in Principals, k \in Keys, d \in Digests :
               \/ StartIssue(c, p, k, d)
               \/ \E t \in Tokens : StartConsume(c, p, k, d, t)
           \/ Tick \/ UNCHANGED vars
  BY <1>1, <1>4 DEF StartIssue, StartConsume, Tick, vars
<1>5. QED
  BY <1>2, <1>3, <1>4 DEF Next

\* The empty store is within its limits.
LEMMA InitCapacity == Init => CapacityInv
<1> SUFFICES ASSUME Init PROVE CapacityInv
  OBVIOUS
<1>1. entries = {} /\ IsFiniteSet(entries) /\ Cardinality(entries) = 0
  BY FS_EmptySet DEF Init
<1>2. \A p \in Principals : OfPrincipal(entries, p) = {}
  BY <1>1 DEF OfPrincipal
<1>3. QED
  BY <1>1, <1>2, FS_EmptySet, BoundsAssumption DEF CapacityInv, WithinCapacity

\* The store never exceeds its limits (store.go Issue).
THEOREM CapacityHolds == Spec => []WithinCapacity
<1>1. CapacityInv => WithinCapacity
  BY DEF CapacityInv
<1>2. QED
  BY <1>1, InitCapacity, NextCapacity, TypeCorrect, PTL DEF Spec

-----------------------------------------------------------------------------
(* No plan is lost.                                                         *)

\* An Issue that replaces a plan is never refused: the plan it deletes makes
\* the room it needs, under both limits.
LEMMA ReplacingIsNotRefused ==
  ASSUME IInv, CapacityInv, NEW r \in calls, NEW e \in entries,
         e \notin Kept(r), SameOperation(e, r)
  PROVE  ~Refused(r)
<1>1. r \in Call /\ e \in Entry
  BY DEF IInv, TypeOK
<1>2. Kept(r) \subseteq entries \ {e}
  BY KeptSubset
<1>3. /\ IsFiniteSet(entries \ {e})
      /\ Cardinality(entries \ {e}) = Cardinality(entries) - 1
      /\ Cardinality(entries) \in Nat
  BY FS_RemoveElement, FS_CardinalityType DEF CapacityInv
<1>4. /\ Cardinality(Kept(r)) \in Nat
      /\ Cardinality(Kept(r)) <= Cardinality(entries) - 1
  BY <1>2, <1>3, FS_Subset, FS_CardinalityType
<1>5. Cardinality(Kept(r)) < MaxEntries
  BY <1>3, <1>4, BoundsAssumption DEF CapacityInv, WithinCapacity
<1> DEFINE mine == OfPrincipal(entries, r.principal)
<1>6. e \in mine /\ IsFiniteSet(mine)
  BY FS_Subset DEF CapacityInv, OfPrincipal, SameOperation
<1>7. OfPrincipal(Kept(r), r.principal) \subseteq mine \ {e}
  BY <1>2 DEF OfPrincipal
<1>8. /\ IsFiniteSet(mine \ {e})
      /\ Cardinality(mine \ {e}) = Cardinality(mine) - 1
      /\ Cardinality(mine) \in Nat
  BY <1>6, FS_RemoveElement, FS_CardinalityType
<1>9. /\ Cardinality(OfPrincipal(Kept(r), r.principal)) \in Nat
      /\ Cardinality(OfPrincipal(Kept(r), r.principal)) <= Cardinality(mine) - 1
  BY <1>7, <1>8, FS_Subset, FS_CardinalityType
<1>10. Cardinality(mine) <= MaxEntriesPerPrincipal
  BY <1>1 DEF CapacityInv, WithinCapacity, Call
<1>11. Cardinality(OfPrincipal(Kept(r), r.principal)) < MaxEntriesPerPrincipal
  BY <1>8, <1>9, <1>10, BoundsAssumption
<1>12. QED
  BY <1>4, <1>5, <1>9, <1>11, BoundsAssumption DEF Refused, Full

\* A plan that the purge of a call deletes has expired on the real clock too.
LEMMA PurgedIsExpired ==
  ASSUME IInv, NEW r \in calls, NEW e \in entries,
         e \notin Unexpired(entries, r.now)
  PROVE  ~(clock < e.expiresAt)
BY BoundsAssumption DEF IInv, TypeOK, ReadingsInPast, Unexpired, Call, Entry

\* No step deletes a live plan without accepting or replacing it.
LEMMA NextNoPlanLost ==
  ASSUME IInv, CapacityInv, [Next]_vars, NEW e \in entries
  PROVE  ~LostWithoutCause(e)
<1>1. ASSUME NEW r \in calls, FinishIssue(r), e \notin entries'
      PROVE  ~(clock < e.expiresAt) \/ Replaced(e)
  <2>1. e \notin Kept(r)
    BY <1>1 DEF FinishIssue
  <2>2. CASE e \notin Unexpired(entries, r.now)
    BY <2>2, PurgedIsExpired
  <2>3. CASE e \in Unexpired(entries, r.now)
    <3>1. SameOperation(e, r)
      BY <2>1, <2>3 DEF Kept, WithoutSuperseded
    <3>2. ~Refused(r)
      BY <2>1, <3>1, ReplacingIsNotRefused
    <3>3. Planned(r) \in entries' /\ r.op = "issue"
      BY <1>1, <3>2 DEF FinishIssue
    <3>4. SameOperation(Planned(r), e) /\ Planned(r).token = r.token
      BY <3>1 DEF SameOperation, Planned
    <3>5. e.token # r.token
      BY <3>3 DEF IInv, DrawnTokensPrivate
    <3>6. QED
      BY <3>3, <3>4, <3>5 DEF Replaced
  <2>4. QED
    BY <2>2, <2>3
<1>2. ASSUME NEW r \in calls, Accept(r), e \notin entries'
      PROVE  ~(clock < e.expiresAt) \/ accepted'[e.token] # accepted[e.token]
  <2>1. CASE e \notin Unexpired(entries, r.now)
    BY <2>1, PurgedIsExpired
  <2>2. CASE e \in Unexpired(entries, r.now)
    <3>1. e.token = r.token
      BY <1>2, <2>2 DEF Accept, Spends
    <3>2. e.token \in Tokens
      BY DEF IInv, TypeOK, Entry
    <3>3. QED
      BY <1>2, <3>1, <3>2 DEF Accept, IInv, TypeOK
  <2>3. QED
    BY <2>1, <2>2
<1>3. ASSUME NEW r \in calls, Refuse(r), e \notin entries'
      PROVE  ~(clock < e.expiresAt)
  BY <1>3, PurgedIsExpired DEF Refuse
<1>4. CASE \/ \E c \in Callers, p \in Principals, k \in Keys, d \in Digests :
               \/ StartIssue(c, p, k, d)
               \/ \E t \in Tokens : StartConsume(c, p, k, d, t)
           \/ Tick \/ UNCHANGED vars
  BY <1>4 DEF StartIssue, StartConsume, Tick, vars, LostWithoutCause
<1>5. QED
  BY <1>1, <1>2, <1>3, <1>4 DEF Next, LostWithoutCause

\* A plan leaves the store only by expiry, acceptance or replacement; a refused
\* Issue or Consume loses none (store.go Issue and Consume).
THEOREM PlansAreNotLost == Spec => NoPlanLost
<1>1. IInv /\ CapacityInv /\ [Next]_vars => [\A e \in entries : ~LostWithoutCause(e)]_vars
  BY NextNoPlanLost
<1>2. IInv => TypeOK
  BY DEF IInv
<1>3. QED
  BY <1>1, <1>2, Inductive, InitCapacity, NextCapacity, PTL DEF Spec, NoPlanLost

-----------------------------------------------------------------------------
(* Acceptance and refinement.                                               *)

\* A token is accepted only as it was reviewed (store.go Consume).
THEOREM AcceptanceIsBound == Spec => AcceptedAsReviewed
<1> DEFINE Bound ==
      \A t \in Tokens : accepted'[t] # accepted[t] =>
        \E r \in calls \ calls', e \in entries \ entries' :
          /\ r.op = "consume" /\ r.token = t /\ e.token = t
          /\ SameOperation(e, r) /\ e.digest = r.digest
          /\ r.now < e.expiresAt
<1>1. ASSUME IInv, NEW r \in calls, Accept(r) PROVE Bound
  <2>1. PICK e \in Unexpired(entries, r.now) :
          /\ e.token = r.token /\ Matches(e, r)
          /\ entries' = Unexpired(entries, r.now) \ Spends(e)
    BY <1>1 DEF Accept
  <2>2. e \in entries \ entries' /\ r \in calls \ calls' /\ r.op = "consume"
    BY <1>1, <2>1 DEF Accept, Unexpired, Spends
  <2>3. \A t \in Tokens : accepted'[t] # accepted[t] => t = r.token
    BY <1>1 DEF Accept, IInv, TypeOK
  <2>4. QED
    BY <2>1, <2>2, <2>3 DEF Matches
<1>2. IInv /\ [Next]_vars => [Bound]_vars
  <2> SUFFICES ASSUME IInv, Next PROVE Bound
    BY DEF vars
  <2>1. CASE accepted' = accepted
    BY <2>1
  <2>2. CASE \E r \in calls : Accept(r)
    BY <1>1, <2>2
  <2>3. QED
    BY <2>1, <2>2 DEF Next, StartIssue, StartConsume, FinishIssue, Refuse, Tick
<1>3. QED
  BY <1>2, Inductive, PTL DEF Spec, AcceptedAsReviewed

Drawn(t) == \E r \in calls : r.op = "issue" /\ r.token = t
Stored(t) == \E e \in entries : e.token = t

Classification ==
  /\ \A t \in Tokens : accepted[t] > 0 => tokenState[t] = Accepted
  /\ \A e \in entries : tokenState[e.token] = <<e.principal, e.key>>
  /\ \A t \in Tokens : accepted[t] = 0 /\ ~Stored(t) =>
       tokenState[t] = IF t \in minted /\ ~Drawn(t) THEN Void ELSE Unused

\* The mapping's CHOOSE is determined: a stored token has one entry.
LEMMA Classified == IInv => Classification
<1> SUFFICES ASSUME IInv PROVE Classification
  OBVIOUS
<1>1. ASSUME NEW e \in entries
      PROVE  tokenState[e.token] = <<e.principal, e.key>>
  <2>1. e \in Entry /\ accepted[e.token] = 0
    BY DEF IInv, TypeOK, OutstandingUnspent
  <2>2. e.token \in Tokens /\ <<e.principal, e.key>> \in Operations
    BY <2>1 DEF Entry, Operations
  <2>3. \A f \in entries : f.token = e.token => f = e
    BY DEF IInv, TypeOK
  <2>4. tokenState[e.token] = OperationOf(e.token)
    BY <2>1, <2>2 DEF tokenState
  <2>5. \E o \in Operations :
          \E f \in entries : f.token = e.token /\ o = <<f.principal, f.key>>
    BY <2>2
  <2>6. \E f \in entries :
          f.token = e.token /\ tokenState[e.token] = <<f.principal, f.key>>
    BY <2>4, <2>5 DEF OperationOf
  <2>7. QED
    BY <2>3, <2>6
<1>2. \A t \in Tokens : accepted[t] > 0 => tokenState[t] = Accepted
  BY DEF tokenState
<1>3. \A t \in Tokens : accepted[t] = 0 /\ ~Stored(t) =>
         tokenState[t] = IF t \in minted /\ ~Drawn(t) THEN Void ELSE Unused
  BY DEF tokenState, Stored, Drawn
<1>4. QED
  BY <1>1, <1>2, <1>3 DEF Classification

\* The tokens whose plan a step deletes.
Gone == {u \in Tokens : \E e \in entries : e \notin entries' /\ e.token = u}

\* A step of the locked half of a call moves no token but its own and those
\* whose plan it deletes, and these become void.
LEMMA OtherTokens ==
  ASSUME IInv, IInv', NEW r \in calls, calls' = calls \ {r}, minted' = minted,
         NEW u \in Tokens, u # r.token \/ r.op # "issue",
         accepted'[u] = accepted[u],
         \A e \in entries' : e \in entries \/ e.token # u
  PROVE  tokenState'[u] = IF u \in Gone THEN Void ELSE tokenState[u]
<1>1. Classification /\ Classification'
  BY Classified, PTL
<1>2. accepted[u] \in Nat
  BY DEF IInv, TypeOK
<1>3. Drawn(u) <=> Drawn(u)'
  BY DEF Drawn
<1>4. CASE u \in Gone
  <2>1. PICK e \in entries : e \notin entries' /\ e.token = u
    BY <1>4 DEF Gone
  <2>2. ~Stored(u)'
    BY <2>1 DEF Stored, IInv, TypeOK
  <2>3. accepted[u] = 0 /\ u \in minted /\ ~Drawn(u)
    BY <2>1 DEF IInv, OutstandingUnspent, DrawnTokensPrivate, Drawn
  <2>4. QED
    BY <1>1, <1>3, <1>4, <2>2, <2>3 DEF Classification
<1>5. CASE u \notin Gone /\ Stored(u)
  <2>1. PICK e \in entries : e.token = u
    BY <1>5 DEF Stored
  <2>2. e \in entries'
    BY <1>5, <2>1 DEF Gone
  <2>3. QED
    BY <1>1, <1>5, <2>1, <2>2 DEF Classification
<1>6. CASE u \notin Gone /\ ~Stored(u)
  <2>1. ~Stored(u)'
    BY <1>6 DEF Stored
  <2>2. CASE accepted[u] = 0
    BY <1>1, <1>3, <1>6, <2>1, <2>2 DEF Classification
  <2>3. CASE accepted[u] > 0
    BY <1>1, <1>6, <2>3 DEF Classification
  <2>4. QED
    BY <1>2, <2>2, <2>3
<1>7. QED
  BY <1>4, <1>5, <1>6

\* The deleted tokens were outstanding.
LEMMA GoneOutstanding == ASSUME IInv PROVE Gone \subseteq Abstract!Outstanding
<1> SUFFICES ASSUME NEW u \in Gone PROVE u \in Abstract!Outstanding
  OBVIOUS
<1>1. PICK e \in entries : e.token = u
  BY DEF Gone
<1>2. tokenState[u] = <<e.principal, e.key>> /\ u \in Tokens
  BY <1>1, Classified DEF Classification, Gone
<1>3. e.principal \in Principals /\ e.key \in Keys
  BY DEF IInv, TypeOK, Entry
<1>4. QED
  BY <1>2, <1>3 DEF Abstract!Outstanding, Operations

\* A step that leaves the entries, the acceptances and the drawn tokens alone
\* is invisible.
LEMMA SameTokens ==
  ASSUME IInv, IInv', UNCHANGED <<entries, accepted>>,
         \A u \in Tokens : (u \in minted /\ ~Drawn(u)) <=> (u \in minted /\ ~Drawn(u))'
  PROVE  tokenState' = tokenState
<1>1. Classification /\ Classification'
  BY Classified, PTL
<1>2. ASSUME NEW u \in Tokens PROVE tokenState'[u] = tokenState[u]
  <2>1. accepted[u] \in Nat
    BY DEF IInv, TypeOK
  <2>2. CASE accepted[u] > 0
    BY <1>1, <2>2 DEF Classification
  <2>3. CASE Stored(u)
    <3>1. PICK e \in entries : e.token = u
      BY <2>3 DEF Stored
    <3>2. QED
      BY <1>1, <3>1 DEF Classification
  <2>4. CASE accepted[u] = 0 /\ ~Stored(u)
    <3>1. ~Stored(u)'
      BY <2>4 DEF Stored
    <3>2. QED
      BY <1>1, <2>4, <3>1 DEF Classification
  <2>5. QED
    BY <2>1, <2>2, <2>3, <2>4
<1>3. /\ tokenState = [u \in Tokens |-> tokenState[u]]
      /\ tokenState' = [u \in Tokens |-> tokenState'[u]]
  BY DEF tokenState
<1>4. QED
  BY <1>2, <1>3

\* Starting a call is invisible: the drawn token stays unused until Issue ends.
LEMMA StartIsInvisible ==
  ASSUME IInv, IInv', NEW c \in Callers, NEW p \in Principals, NEW k \in Keys,
         NEW d \in Digests,
         StartIssue(c, p, k, d) \/ \E t \in Tokens : StartConsume(c, p, k, d, t)
  PROVE  tokenState' = tokenState
<1>1. UNCHANGED <<entries, accepted>>
  BY DEF StartIssue, StartConsume
<1>2. CASE StartIssue(c, p, k, d)
  <2>1. PICK t \in Tokens \ minted :
          /\ minted' = minted \cup {t}
          /\ calls' = calls \cup {[op |-> "issue", caller |-> c, token |-> t,
                                   principal |-> p, key |-> k, digest |-> d,
                                   now |-> clock]}
    BY <1>2 DEF StartIssue, FreshTokens
  <2>2. ASSUME NEW u \in Tokens
        PROVE  (u \in minted /\ ~Drawn(u)) <=> (u \in minted /\ ~Drawn(u))'
    <3>1. CASE u = t
      <4>1. DEFINE new == [op |-> "issue", caller |-> c, token |-> t,
                           principal |-> p, key |-> k, digest |-> d,
                           now |-> clock]
      <4>2. new \in calls' /\ new.op = "issue" /\ new.token = t
        BY <2>1
      <4>3. \E r \in calls' : r.op = "issue" /\ r.token = t
        BY <4>2
      <4>4. QED
        BY <2>1, <3>1, <4>3 DEF Drawn
    <3>2. CASE u # t
      <4>1. Drawn(u) <=> Drawn(u)'
        BY <2>1, <3>2 DEF Drawn
      <4>2. QED
        BY <2>1, <3>2, <4>1
    <3>3. QED
      BY <3>1, <3>2
  <2>3. QED
    BY <1>1, <2>2, SameTokens
<1>3. CASE \E t \in Tokens : StartConsume(c, p, k, d, t)
  <2>1. minted' = minted /\ \A u \in Tokens : Drawn(u) <=> Drawn(u)'
    BY <1>3 DEF StartConsume, Drawn
  <2>2. QED
    BY <1>1, <2>1, SameTokens
<1>4. QED
  BY <1>2, <1>3

\* The locked half of Issue offers its token or drops it.
LEMMA FinishIssueRefines ==
  ASSUME IInv, IInv', NEW r \in calls, FinishIssue(r)
  PROVE  Abstract!TokenNext
<1>1. /\ r.op = "issue" /\ calls' = calls \ {r} /\ minted' = minted
      /\ accepted' = accepted /\ r \in Call
  BY DEF FinishIssue, IInv, TypeOK
<1>2. /\ r.token \in Tokens /\ <<r.principal, r.key>> \in Operations
      /\ accepted[r.token] = 0 /\ ~Stored(r.token) /\ Drawn(r.token)
      /\ r.token \in minted
  BY <1>1 DEF Call, Operations, IInv, DrawnTokensPrivate, Stored, Drawn
<1>3. tokenState[r.token] = Unused
  BY <1>2, Classified DEF Classification
<1>4. ~Drawn(r.token)'
  BY <1>1 DEF Drawn, IInv, DrawnTokensPrivate
<1>5. \A u \in Tokens : u # r.token =>
         tokenState'[u] = IF u \in Gone THEN Void ELSE tokenState[u]
  <2>1. \A e \in entries' : e \in entries \/ e.token = r.token
    BY KeptSubset DEF FinishIssue, Planned
  <2>2. QED
    BY <1>1, <2>1, OtherTokens
<1>6. Gone \in SUBSET Abstract!Outstanding
  BY GoneOutstanding
<1>10. tokenState' = [u \in Tokens |-> tokenState'[u]]
  BY DEF tokenState
<1>7. CASE entries' = Kept(r)
  <2>1. ~Stored(r.token)'
    BY <1>2, <1>7, KeptSubset DEF Stored
  <2>2. Classification'
    BY Classified, PTL
  <2>3. tokenState'[r.token] = Void
    BY <1>1, <1>2, <1>4, <2>1, <2>2 DEF Classification
  <2>4. Abstract!Move(r.token, Void, Gone)
    BY <1>5, <1>10, <2>3 DEF Abstract!Move
  <2>5. Abstract!Lapse(r.token, Gone)
    BY <1>3, <2>4 DEF Abstract!Lapse
  <2>6. QED
    BY <1>2, <1>6, <2>5 DEF Abstract!TokenNext
<1>8. CASE entries' = Kept(r) \cup {Planned(r)}
  <2>1. /\ Planned(r) \in entries' /\ Planned(r).token = r.token
        /\ Planned(r).principal = r.principal /\ Planned(r).key = r.key
    BY <1>8 DEF Planned
  <2>2. Classification'
    BY Classified, PTL
  <2>3. tokenState'[r.token] = <<r.principal, r.key>>
    BY <2>1, <2>2 DEF Classification
  <2>4. Abstract!Move(r.token, <<r.principal, r.key>>, Gone)
    BY <1>5, <1>10, <2>3 DEF Abstract!Move
  <2>5. ASSUME NEW u \in Tokens, tokenState[u] = <<r.principal, r.key>>
        PROVE  u \in Gone
    <3>1. Stored(u)
      BY <1>2, <2>5, Classified, StateAssumption
         DEF Classification, IInv, TypeOK
    <3>2. PICK e \in entries : e.token = u
      BY <3>1 DEF Stored
    <3>3. SameOperation(e, r)
      BY <2>5, <3>2, Classified DEF Classification, SameOperation
    <3>4. e \notin Kept(r) /\ e.token # r.token
      BY <1>2, <3>2, <3>3, KeptSubset DEF Stored
    <3>5. QED
      BY <1>8, <2>1, <3>2, <3>4 DEF Gone
  <2>6. Abstract!Offer(r.token, <<r.principal, r.key>>, Gone)
    BY <1>3, <2>4, <2>5 DEF Abstract!Offer
  <2>7. QED
    BY <1>2, <1>6, <2>6 DEF Abstract!TokenNext
<1>9. QED
  BY <1>7, <1>8 DEF FinishIssue

\* Accepting spends the presented token and voids the expired ones.
LEMMA AcceptRefines ==
  ASSUME IInv, IInv', NEW r \in calls, Accept(r)
  PROVE  Abstract!TokenNext
<1>1. PICK e \in Unexpired(entries, r.now) :
        /\ e.token = r.token
        /\ entries' = Unexpired(entries, r.now) \ Spends(e)
  BY DEF Accept
<1>2. /\ e \in entries /\ e \in Entry /\ entries' \subseteq entries
      /\ calls' = calls \ {r} /\ minted' = minted /\ r.op = "consume"
      /\ accepted' = [accepted EXCEPT ![r.token] = @ + 1]
  BY <1>1 DEF Accept, Unexpired, IInv, TypeOK
<1>3. r.token \in Tokens /\ <<e.principal, e.key>> \in Operations
  BY <1>1, <1>2 DEF Entry, Operations
<1>4. tokenState[r.token] \in Operations
  BY <1>1, <1>2, <1>3, Classified DEF Classification
<1>5. accepted'[r.token] > 0
  BY <1>2, <1>3 DEF IInv, TypeOK
<1>6. Classification'
  BY Classified, PTL
<1>7. tokenState'[r.token] = Accepted
  BY <1>3, <1>5, <1>6 DEF Classification
<1>8. \A u \in Tokens : u # r.token =>
         tokenState'[u] = IF u \in Gone THEN Void ELSE tokenState[u]
  <2> SUFFICES ASSUME NEW u \in Tokens, u # r.token
               PROVE  tokenState'[u] = IF u \in Gone THEN Void ELSE tokenState[u]
    OBVIOUS
  <2>1. accepted'[u] = accepted[u]
    BY <1>2 DEF IInv, TypeOK
  <2>2. QED
    BY <1>2, <2>1, OtherTokens
<1>9. tokenState' = [u \in Tokens |-> tokenState'[u]]
  BY DEF tokenState
<1>10. Abstract!Move(r.token, Accepted, Gone)
  BY <1>7, <1>8, <1>9 DEF Abstract!Move
<1>11. Abstract!Spend(r.token, Gone)
  BY <1>4, <1>10 DEF Abstract!Spend
<1>12. QED
  BY <1>3, <1>11, GoneOutstanding DEF Abstract!TokenNext

\* Refusing voids the expired tokens, if any.
LEMMA RefuseRefines ==
  ASSUME IInv, IInv', NEW r \in calls, Refuse(r)
  PROVE  Abstract!TokenNext \/ tokenState' = tokenState
<1>1. /\ entries' \subseteq entries /\ calls' = calls \ {r}
      /\ minted' = minted /\ accepted' = accepted /\ r.op = "consume"
  BY DEF Refuse, Unexpired
<1>2. \A u \in Tokens :
        tokenState'[u] = IF u \in Gone THEN Void ELSE tokenState[u]
  BY <1>1, OtherTokens
<1>3. /\ tokenState = [u \in Tokens |-> tokenState[u]]
      /\ tokenState' = [u \in Tokens |-> tokenState'[u]]
  BY DEF tokenState
<1>4. CASE Gone = {}
  BY <1>2, <1>3, <1>4
<1>5. ASSUME NEW t \in Gone PROVE Abstract!TokenNext
  <2>1. t \in Tokens
    BY DEF Gone
  <2>2. Abstract!Move(t, Void, Gone)
    BY <1>2, <1>3 DEF Abstract!Move
  <2>3. tokenState[t] \in Operations
    BY GoneOutstanding DEF Abstract!Outstanding
  <2>4. Abstract!Lapse(t, Gone)
    BY <2>2, <2>3 DEF Abstract!Lapse
  <2>5. QED
    BY <2>1, <2>4, GoneOutstanding DEF Abstract!TokenNext
<1>6. QED
  BY <1>4, <1>5

\* The store implements the promise of a dry run: seen from the tokens, its
\* two-step calls are single steps of ConfirmationTokens.
THEOREM StoreImplementsTokens == Spec => ImplementsTokens
<1>1. Init => Abstract!TokenInit
  <2> SUFFICES ASSUME Init PROVE tokenState = [t \in Tokens |-> Unused]
    BY DEF Abstract!TokenInit
  <2>1. ASSUME NEW t \in Tokens PROVE tokenState[t] = Unused
    BY DEF Init, tokenState
  <2>2. tokenState = [t \in Tokens |-> tokenState[t]]
    BY DEF tokenState
  <2>3. QED
    BY <2>1, <2>2
<1>2. IInv /\ IInv' /\ [Next]_vars => [Abstract!TokenNext]_tokenState
  <2> SUFFICES ASSUME IInv, IInv', [Next]_vars
               PROVE  Abstract!TokenNext \/ tokenState' = tokenState
    OBVIOUS
  <2>1. CASE \E c \in Callers, p \in Principals, k \in Keys, d \in Digests :
               \/ StartIssue(c, p, k, d)
               \/ \E t \in Tokens : StartConsume(c, p, k, d, t)
    BY <2>1, StartIsInvisible
  <2>2. CASE \E r \in calls : FinishIssue(r) \/ Accept(r) \/ Refuse(r)
    BY <2>2, FinishIssueRefines, AcceptRefines, RefuseRefines
  <2>3. CASE Tick \/ UNCHANGED vars
    <3>1. UNCHANGED <<entries, accepted, minted, calls>>
      BY <2>3 DEF Tick, vars
    <3>2. \A u \in Tokens :
            (u \in minted /\ ~Drawn(u)) <=> (u \in minted /\ ~Drawn(u))'
      BY <3>1 DEF Drawn
    <3>3. QED
      BY <3>1, <3>2, SameTokens
  <2>4. QED
    BY <2>1, <2>2, <2>3 DEF Next
<1>3. QED
  BY <1>1, <1>2, Inductive, PTL DEF Spec, ImplementsTokens, Abstract!TokenSpec
================================================================================
