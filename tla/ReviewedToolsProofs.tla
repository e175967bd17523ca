--------------------------- MODULE ReviewedToolsProofs ---------------------------
(***************************************************************************)
(* Proofs about the tools that carry out reviewed plans, for any number of    *)
(* callers, principals, tokens, tasks, lines and quantities.                  *)
(*                                                                          *)
(* A behaviour is of one part, and each part has an inductive invariant of    *)
(* its own: what a call has read and was promised by the time it mutates, and *)
(* a ledger in which reviews, outstanding plans and requests are counted.     *)
(***************************************************************************)
EXTENDS ReviewedTools, FiniteSetTheorems, TLAPS

-----------------------------------------------------------------------------
(* The life cycle of a purchase order.                                      *)

LifecycleTypes ==
  /\ order \in L!Order
  /\ stage \in [Callers -> {"idle", "lines", "planned", "mutating", "reading", "recovering"}]
  /\ DOMAIN plan = Callers /\ DOMAIN mode = Callers
  /\ \A c \in Callers : stage[c] # "idle" => plan[c] \in L!Plan
  /\ DOMAIN offers = L!Actions
  /\ DOMAIN requests = Callers
  /\ \A c \in Callers : requests[c] \in L!Request \cup {L!NoPlan}
  /\ issued \in Nat /\ warned \in BOOLEAN
  /\ {held, placed} \subseteq {"nobody", "a tool", "others"}

\* The actions for which a plan is outstanding.
Outstanding == {a \in L!Actions : offers[a] # L!NoPlan}

\* A review pays for one outstanding plan or one request.
LifecycleLedger ==
  /\ IsFiniteSet(L!Sent) /\ IsFiniteSet(Outstanding)
  /\ Cardinality(L!Sent) + Cardinality(Outstanding) <= issued

\* The plan of a cancellation saw no receipt, and every plan a status it is for.
Sound(p) ==
  /\ p.order.status \in L!Plannable[p.action]
  /\ p.action = "cancel" => ~p.order.received

\* A call in the middle of its request has that request on record.
RequestsFollowCalls ==
  \A c \in Callers :
    /\ stage[c] # "idle" => plan[c].order.status \in L!Plannable[plan[c].action]
    /\ stage[c] \in {"planned", "mutating"} => Sound(plan[c])
    /\ stage[c] \in {"mutating", "reading", "recovering"} =>
         c \in L!Sent /\ requests[c].plan = plan[c] /\ requests[c].report = "sent"
    /\ stage[c] = "mutating" => ~requests[c].landed /\ ~requests[c].open
    /\ c \in L!Sent => Sound(requests[c].plan)
    /\ c \in L!Sent /\ requests[c].open => ~requests[c].landed

\* Until the order changes under it, a request finds what its plan says.
RequestsAreFresh ==
  \A c \in L!Sent :
    ~requests[c].raced /\ ~requests[c].landed /\ (requests[c].report = "sent" \/ requests[c].open)
      => order = requests[c].plan.order

\* What a plan says of the order's past: it was placed, or put on hold by somebody.
Remembers(p) ==
  /\ p.order.status = "placed" => placed # "nobody"
  /\ p.order.status = "on_hold" => placed # "nobody" \/ held # "nobody"

\* Who held and placed the order, as its status has it.
OrderHistory ==
  /\ order.status = "pending" => placed = "nobody" /\ held = "nobody"
  /\ order.status = "complete" => placed # "nobody"
  /\ Remembers([order |-> order])
  /\ held = "a tool" => warned \/ placed # "nobody"

\* Plans remember it; one that would place it unawares comes with a warning.
PlanHistory ==
  /\ \A c \in Callers : stage[c] # "idle" => Remembers(plan[c])
  /\ \A c \in L!Sent : Remembers(requests[c].plan)
  /\ \A a \in Outstanding : L!Warns(offers[a]) => warned
  /\ \A c \in L!Sent : L!Warns(requests[c].plan) => warned

LifecycleInv ==
  /\ LifecycleTypes /\ LifecycleLedger /\ RequestsFollowCalls /\ RequestsAreFresh
  /\ OrderHistory /\ PlanHistory /\ L!RejectedMeansUntouched /\ L!OrphansOnlyInWindow /\ L!PlacedKnowingly

-----------------------------------------------------------------------------
(* The receipt of a purchase order.                                         *)

\* A plan of which `seen` was read so far, none of it excessive.
Planned(p) ==
  /\ p = R!Plan(p.items, p.complete, p.seen, p.all)
  /\ p.complete \in BOOLEAN
  /\ DOMAIN p.items \in (SUBSET Lines) \ {{}} /\ \A l \in DOMAIN p.items : p.items[l] \in Nat \ {0}
  /\ DOMAIN p.seen \subseteq DOMAIN p.items
  /\ \A l \in DOMAIN p.seen : p.seen[l] \in R!Line /\ ~R!Excessive(p.seen[l], p.items[l])
ReadOut(p) == DOMAIN p.seen = DOMAIN p.items

ReceiptTypes ==
  /\ order \in R!Order
  /\ DOMAIN stage = Callers /\ DOMAIN mode = Callers /\ DOMAIN plan = Callers
  /\ DOMAIN requests = Callers /\ issued \in Nat
  /\ \A c \in Callers : stage[c] # "idle" => Planned(plan[c])
  /\ \A c \in Callers : stage[c] \notin {"idle", "lines"} => ReadOut(plan[c])

\* The fields of a request.
IsRequest(r) ==
  /\ r = [plan |-> r.plan, landed |-> r.landed, open |-> r.open, raced |-> r.raced,
          over |-> r.over, report |-> r.report]
  /\ r.landed \in BOOLEAN /\ r.raced \in BOOLEAN /\ r.over \in BOOLEAN

\* A receipt was reviewed, and says what its call asked for.
ReceiptsFollowCalls ==
  /\ \A c \in R!Sent :
       IsRequest(requests[c]) /\ Planned(requests[c].plan) /\ ReadOut(requests[c].plan) /\ requests[c].plan \in offers
  /\ \A c \in Callers :
       /\ stage[c] \in {"receiving", "refreshing", "completing", "reading"} =>
            c \in R!Sent /\ requests[c].plan = plan[c]
       /\ stage[c] \in {"refreshing", "completing", "reading"} => requests[c].landed
       /\ stage[c] \in {"completing", "reading"} => plan[c].complete

\* Each hash was answered by a dry run of its own.
ReceiptLedger == IsFiniteSet(offers) /\ Cardinality(offers) <= issued

\* A receipt leaves its lines with more than its plan saw, so that no other receipt of
\* the same plan finds them as they were.
LinesGrow ==
  /\ \A c \in R!Received : ~requests[c].raced =>
       \A l \in DOMAIN requests[c].plan.items :
         order.lines[l].received > requests[c].plan.seen[l].received
  /\ \A c, d \in R!Received :
       ~requests[c].raced /\ ~requests[d].raced /\ requests[c].plan = requests[d].plan => c = d

OverInWindow == \A c \in R!Received : requests[c].over => requests[c].raced

ReceiptInv ==
  ReceiptTypes /\ ReceiptsFollowCalls /\ ReceiptLedger /\ LinesGrow /\ OverInWindow /\ R!ToldTheTruth

-----------------------------------------------------------------------------
(* The generation of stocktakes.                                            *)

StocktakeTypes ==
  /\ clock \in Nat
  /\ plans \subseteq S!Plan /\ handles \subseteq S!Handle /\ IsFiniteSet(handles)
  /\ \A h, g \in handles : h.id = g.id => h = g
  /\ reservations \in [Principals -> Nat]
  /\ stage \in [Generators -> S!Stages]
  /\ DOMAIN who = Generators /\ DOMAIN held = Generators /\ DOMAIN token = Generators
  /\ \A c \in Generators : stage[c] # "idle" => who[c] \in Principals
  /\ \A c \in Generators : stage[c] \in {"reserving", "enqueuing"} => token[c] \in Tokens
  /\ \A c \in Generators : stage[c] = "binding" => held[c] \in TaskIDs
  /\ enqueued \in [Tokens -> Nat] /\ accepted \subseteq TaskIDs

\* The calls that hold a reservation of a principal are as many as it has.
ReservationInv ==
  \A p \in Principals : IsFiniteSet(S!InFlight(p)) /\ reservations[p] = Cardinality(S!InFlight(p))

Slots == UNION {{p} \X (1..reservations[p]) : p \in Principals}
Alive == S!Live(handles)
AliveOf(p) == S!OfPrincipal(S!Live(handles), p)

\* Room was made for every reservation.
RoomInv ==
  /\ IsFiniteSet(Slots)
  /\ Cardinality(Alive) + Cardinality(Slots) <= MaxTasks
  /\ \A p \in Principals : Cardinality(AliveOf(p)) + reservations[p] <= MaxTasksPerPrincipal

\* A call that has yet to enqueue what was reviewed under its token.
Owing(c) == stage[c] \in {"reserving", "enqueuing"}

\* A token stands for one plan, then for one call, then for one task.
TokenInv ==
  /\ \A e \in plans : e.token \in drawn /\ enqueued[e.token] = 0
  /\ \A e, f \in plans : e.token = f.token => e = f
  /\ \A c \in Generators : Owing(c) =>
       /\ token[c] \in drawn /\ enqueued[token[c]] = 0
       /\ \A e \in plans : e.token # token[c]
  /\ \A c, d \in Generators : Owing(c) /\ Owing(d) /\ token[c] = token[d] => c = d
  /\ \A t \in Tokens : t \notin drawn => enqueued[t] = 0

StocktakeInv ==
  /\ StocktakeTypes /\ ReservationInv /\ RoomInv /\ TokenInv
  /\ S!OneGenerationPerPlan /\ S!NoTaskForgotten

-----------------------------------------------------------------------------
(* The adjustment of stock.                                                 *)

AdjustmentTypes ==
  /\ item \in Item
  /\ stage \in [Callers -> {"idle", "planned", "mutating", "reading"}]
  /\ DOMAIN mode = Callers /\ DOMAIN plan = Callers
  /\ \A c \in Callers : stage[c] # "idle" => plan[c] \in Plan
  /\ DOMAIN offers = Actions
  /\ log \in [Callers -> Seq(Mutation)]
  /\ meddled \in [Callers -> 0..2] /\ issued \in Nat

\* InvenTree deletes a delete_on_deplete item as soon as it is empty.
Whole(i) == i.exists = ~(i.frail /\ i.quantity = 0)
ItemInv == Whole(item)

\* What the tools plan: a change they do not refuse, of an item that is there.
Plannable(p) ==
  /\ p.before.exists /\ p.after \in Requested(p.action, p.before)
  /\ ~Refuses(p.action, p.before, p.after)

Offered == {a \in Actions : offers[a] # NoPlan}

\* A review pays for one outstanding plan or one mutation.
AdjustmentLedger ==
  /\ IsFiniteSet(Logged) /\ IsFiniteSet(Mutating) /\ IsFiniteSet(Offered)
  /\ Cardinality(Logged) + Cardinality(Mutating) + Cardinality(Offered) <= issued

\* What a call and its requests know of the item, by how often others wrote it: nothing
\* changed, or, after exactly one write, not what the plan was made from.
Snapshot(s, p, n, i) ==
  /\ s = "idle" => n = 0
  /\ s \in {"planned", "mutating"} => /\ Plannable(p)
                                      /\ n = 0 => i = p.before
                                      /\ n = 1 => i # p.before
SnapshotInv == \A c \in Callers : Snapshot(stage[c], plan[c], meddled[c], item)

Seen(i) == [i EXCEPT !.exists = TRUE]
Telling(p) == p.action = "adjust" /\ p.after.quantity > 0

\* The same of what was sent: of a request that may still land, and of one that was
\* answered and is about to be read back.
Kept(m) ==
  /\ Plannable(m.plan)
  /\ m.open /\ m.raced = 0 => item = m.plan.before
  /\ m.report = "rejected" => ~m.landed /\ ~m.open
  /\ m.report = "ok" => ~m.open /\ (Telling(m.plan) => m.raced # 1)
  /\ m.deleted => m.raced > 0
RequestInv == \A c \in Callers : \A n \in 1..Last(c) : Kept(log[c][n])

Answered(m, p) ==
  /\ m.plan = p /\ m.report = "sent" /\ ~m.open
  /\ Telling(p) => /\ m.raced = 0 => Seen(item) = p.after
                   /\ m.raced = 1 => Seen(item) # p.after
ReadBackInv ==
  \A c \in Callers : stage[c] = "reading" => Last(c) > 0 /\ Answered(log[c][Last(c)], plan[c])

AdjustmentInv ==
  AdjustmentTypes /\ ItemInv /\ AdjustmentLedger /\ SnapshotInv /\ RequestInv /\ ReadBackInv

-----------------------------------------------------------------------------
IInv ==
  /\ part \in {"adjustment", "lifecycle", "receipt", "stocktake"}
  /\ part = "adjustment" => AdjustmentInv
  /\ part = "lifecycle" => LifecycleInv
  /\ part = "receipt" => ReceiptInv
  /\ part = "stocktake" => StocktakeInv

\* One element more, one less.
LEMMA Counting ==
  ASSUME NEW T, NEW x, IsFiniteSet(T)
  PROVE  /\ Cardinality(T) \in Nat
         /\ IsFiniteSet(T \cup {x}) /\ Cardinality(T \cup {x}) \in Nat
         /\ Cardinality(T \cup {x}) <= Cardinality(T) + 1
         /\ x \notin T => Cardinality(T \cup {x}) = Cardinality(T) + 1
         /\ IsFiniteSet(T \ {x}) /\ Cardinality(T \ {x}) \in Nat
         /\ Cardinality(T \ {x}) <= Cardinality(T)
         /\ x \in T => Cardinality(T \ {x}) = Cardinality(T) - 1
<1>1. Cardinality(T) \in Nat
  BY FS_CardinalityType
<1>2. IsFiniteSet(T \cup {x}) /\ Cardinality(T \cup {x}) = IF x \in T THEN Cardinality(T) ELSE Cardinality(T) + 1
  BY FS_AddElement
<1>3. IsFiniteSet(T \ {x}) /\ Cardinality(T \ {x}) = IF x \in T THEN Cardinality(T) - 1 ELSE Cardinality(T)
  BY FS_RemoveElement
<1>4. Cardinality(T \ {x}) \in Nat
  BY <1>3, FS_CardinalityType
<1>5. QED
  BY <1>1, <1>2, <1>3, <1>4

-----------------------------------------------------------------------------
(* The life cycle of a purchase order.                                      *)

\* Plans and requests are not the absence of one.
LEMMA LifecycleRecords ==
  /\ \A p \in L!Plan : p # L!NoPlan
  /\ \A r \in L!Request : r # L!NoPlan
<1>1. ASSUME NEW p \in L!Plan PROVE p # L!NoPlan
  <2>1. p.action \in L!Actions /\ L!NoPlan.action = "none"
    BY DEF L!Plan, L!NoPlan
  <2>2. QED
    BY <2>1 DEF L!Actions
<1>2. ASSUME NEW r \in L!Request PROVE r # L!NoPlan
  BY DEF L!Request, L!NoPlan
<1>3. QED
  BY <1>1, <1>2

\* What the steps make of a request is a request.
LEMMA RequestFields ==
  ASSUME NEW r \in L!Request
  PROVE  /\ [r EXCEPT !.raced = TRUE] \in L!Request
         /\ \A b \in BOOLEAN :
              [r EXCEPT !.landed = TRUE, !.open = FALSE, !.orphans = b] \in L!Request
         /\ \A b \in BOOLEAN, x \in {"sent", "ok", "recovered", "unknown", "rejected"} :
              /\ [r EXCEPT !.open = b, !.report = x] \in L!Request
              /\ [r EXCEPT !.report = x] \in L!Request
BY DEF L!Request

\* What a step of somebody else makes of the requests.
LEMMA RacesTypes ==
  ASSUME NEW r \in L!Request \cup {L!NoPlan}
  PROVE  L!Races(r) \in L!Request \cup {L!NoPlan} /\ (L!Races(r) = L!NoPlan <=> r = L!NoPlan)
BY RequestFields, LifecycleRecords DEF L!Races

\* A transition that lands is recorded, and keeps the types.
LEMMA LandingTypes ==
  ASSUME LifecycleTypes, NEW c \in Callers, c \in L!Sent, L!Landed(c)
  PROVE  /\ DOMAIN requests' = Callers
         /\ \A d \in Callers : requests'[d] \in L!Request \cup {L!NoPlan}
         /\ L!Sent' = L!Sent
<1>1. requests[c] \in L!Request /\ order.received \in BOOLEAN
  BY DEF L!Sent, LifecycleTypes, L!Order
<1>2. requests'[c] \in L!Request
  BY <1>1, RequestFields DEF L!Landed
<1>3. ASSUME NEW d \in Callers, d # c PROVE requests'[d] = L!Races(requests[d])
  BY <1>3 DEF L!Landed
<1>4. \A d \in Callers : requests'[d] \in L!Request \cup {L!NoPlan}
                          /\ (requests'[d] = L!NoPlan <=> requests[d] = L!NoPlan)
  <2> TAKE d \in Callers
  <2>1. CASE d = c
    BY <1>1, <1>2, <2>1, LifecycleRecords
  <2>2. CASE d # c
    BY <1>3, <2>2, RacesTypes DEF LifecycleTypes
  <2>3. QED
    BY <2>1, <2>2
<1>5. QED
  BY <1>4 DEF L!Landed, L!Sent

\* So is one of somebody else.
LEMMA ForeignTypes ==
  ASSUME LifecycleTypes, L!ForeignStep
  PROVE  /\ DOMAIN requests' = Callers
         /\ \A d \in Callers : requests'[d] = L!Races(requests[d])
         /\ \A d \in Callers : requests'[d] \in L!Request \cup {L!NoPlan}
         /\ L!Sent' = L!Sent
<1>1. requests' = [d \in Callers |-> L!Races(requests[d])]
  BY DEF L!ForeignStep
<1>2. \A d \in Callers : requests'[d] \in L!Request \cup {L!NoPlan}
                          /\ (requests'[d] = L!NoPlan <=> requests[d] = L!NoPlan)
  BY <1>1, RacesTypes DEF LifecycleTypes
<1>3. QED
  BY <1>1, <1>2 DEF L!Sent

\* What each action makes of the status, and may find.
LEMMA Transitions ==
  /\ L!Target["hold"] = "on_hold" /\ L!Target["resume"] = "placed" /\ L!Target["cancel"] = "cancelled"
  /\ L!Plannable["hold"] = {"pending", "placed"} /\ L!Plannable["resume"] = {"on_hold"}
  /\ L!Plannable["cancel"] = {"pending", "placed", "on_hold"}
  /\ L!Allowed["hold"] = {"pending", "placed"} /\ L!Allowed["resume"] = {"pending", "on_hold"}
  /\ L!Allowed["cancel"] = {"pending", "placed", "on_hold"}
BY DEF L!Target, L!Plannable, L!Allowed

\* A transition moves the order to the status it is for.
LEMMA LandsTypes ==
  ASSUME LifecycleTypes, NEW p, p.action \in L!Actions, NEW by \in {"a tool", "others"}, L!Lands(p, by)
  PROVE  order' \in L!Order /\ {held', placed'} \subseteq {"nobody", "a tool", "others"}
<1>1. L!Target[p.action] \in L!Statuses
  BY Transitions DEF L!Statuses, L!Actions
<1>2. order' \in L!Order
  BY <1>1 DEF L!Lands, L!Order, LifecycleTypes
<1>3. held' \in {held, by} /\ placed' \in {placed, by}
  BY DEF L!Lands
<1>4. QED
  BY <1>2, <1>3 DEF LifecycleTypes

\* What others make of a request: it is the same request, and raced if it may still
\* take effect.
LEMMA RacesFields ==
  ASSUME NEW r \in L!Request
  PROVE  /\ L!Races(r).plan = r.plan /\ L!Races(r).landed = r.landed /\ L!Races(r).open = r.open
         /\ L!Races(r).report = r.report /\ L!Races(r).orphans = r.orphans
         /\ r.raced => L!Races(r).raced
         /\ r.report = "sent" \/ r.open => L!Races(r).raced
BY LifecycleRecords DEF L!Races, L!Request

\* What landing makes of the requests.
LEMMA LandingFields ==
  ASSUME LifecycleTypes, NEW c \in Callers, c \in L!Sent, L!Landed(c)
  PROVE  /\ requests'[c].plan = requests[c].plan /\ requests'[c].report = requests[c].report
         /\ requests'[c].raced = requests[c].raced
         /\ requests'[c].landed = TRUE /\ requests'[c].open = FALSE
         /\ requests'[c].orphans = (requests[c].plan.action = "cancel" /\ order.received)
         /\ \A d \in L!Sent : d # c => requests'[d] = L!Races(requests[d])
<1>1. requests[c] \in L!Request
  BY DEF L!Sent, LifecycleTypes
<1>2. QED
  BY <1>1 DEF L!Landed, L!Request, L!Sent

\* A confirmation that is accepted takes the outstanding plan, which is its own.
LEMMA Accepting ==
  ASSUME LifecycleTypes, NEW c \in Callers, L!Consume(c), ~UNCHANGED <<offers, requests>>
  PROVE  /\ stage[c] = "planned" /\ offers[plan[c].action] = plan[c]
         /\ \A x \in L!Actions : offers'[x] = IF x = plan[c].action THEN L!NoPlan ELSE offers[x]
         /\ \A d \in Callers : d # c => requests'[d] = requests[d]
         /\ requests'[c] = [plan |-> plan[c], raced |-> order # plan[c].order, landed |-> FALSE,
                            open |-> FALSE, orphans |-> FALSE, report |-> "sent"]
         /\ requests'[c].plan = plan[c] /\ requests'[c] # L!NoPlan
         /\ stage' = [stage EXCEPT ![c] = "mutating"] /\ plan' = plan
<1> DEFINE r == [plan |-> plan[c], raced |-> order # plan[c].order, landed |-> FALSE,
                 open |-> FALSE, orphans |-> FALSE, report |-> "sent"]
<1>1. offers[plan[c].action] = plan[c] /\ stage[c] = "planned"
  BY DEF L!Consume, L!SamePlan
<1>2. /\ offers' = [offers EXCEPT ![plan[c].action] = L!NoPlan]
      /\ requests' = [requests EXCEPT ![c] = r]
      /\ stage' = [stage EXCEPT ![c] = "mutating"] /\ plan' = plan
  BY <1>1 DEF L!Consume, L!SamePlan, L!Spent, L!Goto
<1>3. r # L!NoPlan /\ r.plan = plan[c]
  BY DEF L!NoPlan
<1> HIDE DEF r
<1>4. /\ \A x \in L!Actions : offers'[x] = IF x = plan[c].action THEN L!NoPlan ELSE offers[x]
      /\ requests'[c] = r
      /\ \A d \in Callers : d # c => requests'[d] = requests[d]
  BY <1>2 DEF LifecycleTypes
<1>5. QED
  BY <1>1, <1>2, <1>3, <1>4 DEF r

\* A request that failed is open unless it was rejected for good.
LEMMA FailedRequest ==
  ASSUME LifecycleTypes, RequestsFollowCalls, NEW c \in Callers, NEW e, L!MutateFailed(c, e)
  PROVE  /\ DOMAIN requests' = Callers /\ requests'[c] \in L!Request
         /\ requests'[c] = [requests[c] EXCEPT !.open = e # "rejected",
                            !.report = IF L!DefiniteRejection(e) THEN "rejected" ELSE "sent"]
         /\ \A d \in Callers : d # c => requests'[d] = requests[d]
         /\ L!Sent' = L!Sent
<1>1. stage[c] = "mutating" /\ requests[c] \in L!Request /\ requests[c].report = "sent"
  BY DEF L!MutateFailed, LifecycleTypes, RequestsFollowCalls, L!Sent
<1> DEFINE r == [requests[c] EXCEPT !.open = e # "rejected",
                   !.report = IF L!DefiniteRejection(e) THEN "rejected" ELSE "sent"]
<1>2. r \in L!Request
  BY <1>1, RequestFields
<1>3. requests' = [requests EXCEPT ![c] = r]
  BY <1>1 DEF L!MutateFailed, LifecycleTypes
<1> HIDE DEF r
<1>4. requests'[c] = r /\ DOMAIN requests' = Callers /\ \A d \in Callers : d # c => requests'[d] = requests[d]
  BY <1>3 DEF LifecycleTypes
<1>5. L!Sent' = L!Sent
  BY <1>1, <1>2, <1>4, LifecycleRecords DEF L!Sent
<1>6. QED
  BY <1>2, <1>4, <1>5 DEF r

\* A refresh ends a call with a report.
LEMMA RefreshedRequest ==
  ASSUME LifecycleTypes, RequestsFollowCalls, NEW c \in Callers, L!Refresh(c)
  PROVE  /\ DOMAIN requests' = Callers /\ requests'[c] \in L!Request
         /\ \E x \in {"unknown", "ok", "recovered"} : requests'[c] = [requests[c] EXCEPT !.report = x]
         /\ \A d \in Callers : d # c => requests'[d] = requests[d]
         /\ L!Sent' = L!Sent
<1>1. requests[c] \in L!Request
  BY DEF L!Refresh, LifecycleTypes, RequestsFollowCalls, L!Sent
<1>2. PICK x \in {"unknown", "ok", "recovered"} : requests' = [requests EXCEPT ![c].report = x]
  BY DEF L!Refresh
<1>3. requests'[c] = [requests[c] EXCEPT !.report = x] /\ DOMAIN requests' = Callers
      /\ \A d \in Callers : d # c => requests'[d] = requests[d]
  BY <1>2 DEF LifecycleTypes
<1>4. requests'[c] \in L!Request
  BY <1>1, <1>3, RequestFields, ZenonT(40)
<1>5. L!Sent' = L!Sent
  BY <1>1, <1>3, <1>4, LifecycleRecords DEF L!Sent
<1>6. QED
  BY <1>3, <1>4, <1>5

\* The types.
LEMMA LifecycleTypesStep ==
  ASSUME LifecycleTypes, RequestsFollowCalls, L!Next
  PROVE  LifecycleTypes'
<1>1. ASSUME NEW c \in Callers, NEW m, NEW a \in L!Actions, L!ReadOrder(c, m, a) PROVE LifecycleTypes'
  <2> DEFINE p == [action |-> a, order |-> [status |-> order.status, received |-> FALSE]]
  <2>1. p \in L!Plan
    BY DEF L!Plan, L!Order, LifecycleTypes
  <2> HIDE DEF p
  <2>2. plan' = [plan EXCEPT ![c] = p] /\ stage' = [stage EXCEPT ![c] = "lines"]
        /\ mode' = [mode EXCEPT ![c] = m]
        /\ UNCHANGED <<order, offers, requests, foreign, issued, warned, held, placed>>
    BY <1>1 DEF L!ReadOrder, L!Goto, p
  <2>3. QED
    BY <2>1, <2>2 DEF LifecycleTypes
<1>2. ASSUME NEW c \in Callers, L!ReadLines(c) PROVE LifecycleTypes'
  <2> DEFINE p == [plan[c] EXCEPT !.order.received = order.received]
  <2>1. stage[c] = "lines" /\ plan[c] \in L!Plan /\ order \in L!Order
    BY <1>2 DEF L!ReadLines, LifecycleTypes
  <2>2. p \in L!Plan
    BY <2>1 DEF L!Plan, L!Order
  <2> HIDE DEF p
  <2>3. /\ L!Return(c) \/ (plan' = [plan EXCEPT ![c] = p] /\ L!Goto(c, "planned") /\ UNCHANGED mode)
        /\ UNCHANGED <<order, offers, requests, foreign, issued, warned, held, placed>>
    BY <1>2 DEF L!ReadLines, p
  <2>4. QED
    BY <2>1, <2>2, <2>3 DEF LifecycleTypes, L!Goto, L!Return
<1>3. ASSUME NEW c \in Callers, L!Issue(c) PROVE LifecycleTypes'
  <2>1. L!Warns(plan[c]) \in BOOLEAN
    BY DEF L!Warns
  <2>2. warned' \in BOOLEAN
    <3>1. warned' = (warned \/ L!Warns(plan[c]))
      BY <1>3 DEF L!Issue
    <3>2. warned \in BOOLEAN
      BY DEF LifecycleTypes
    <3>3. QED
      BY <3>1, <3>2, <2>1
  <2>3. DOMAIN offers' = L!Actions /\ issued' \in Nat
    <3>1. offers' = [offers EXCEPT ![L!OfferedFor(plan[c])] = plan[c]] /\ issued' = issued + 1
      BY <1>3 DEF L!Issue
    <3>2. DOMAIN offers = L!Actions /\ issued \in Nat
      BY DEF LifecycleTypes
    <3>3. QED
      BY <3>1, <3>2
  <2>4. L!Return(c) /\ UNCHANGED <<order, requests, foreign, held, placed>>
    BY <1>3 DEF L!Issue
  <2>5. QED
    BY <2>2, <2>3, <2>4 DEF LifecycleTypes, L!Return, L!Goto
<1>4. ASSUME NEW c \in Callers, L!Consume(c) PROVE LifecycleTypes'
  <2> DEFINE r == [plan |-> plan[c], raced |-> order # plan[c].order, landed |-> FALSE,
                      open |-> FALSE, orphans |-> FALSE, report |-> "sent"]
  <2>1. stage[c] = "planned" /\ plan[c] \in L!Plan
    BY <1>4 DEF L!Consume, LifecycleTypes
  <2>2. r \in L!Request
    BY <2>1 DEF L!Request
  <2> HIDE DEF r
  <2>3. requests' = requests \/ requests' = [requests EXCEPT ![c] = r]
    BY <1>4 DEF L!Consume, r
  <2>4. DOMAIN requests' = Callers /\ \A d \in Callers : requests'[d] \in L!Request \cup {L!NoPlan}
    BY <2>2, <2>3 DEF LifecycleTypes
  <2>5. DOMAIN offers' = L!Actions
    BY <1>4 DEF L!Consume, LifecycleTypes
  <2>6. L!Return(c) \/ (L!Goto(c, "mutating") /\ UNCHANGED <<mode, plan>>)
    BY <1>4 DEF L!Consume
  <2>7. UNCHANGED <<order, foreign, issued, warned, held, placed>>
    BY <1>4 DEF L!Consume
  <2>8. QED
    BY <2>1, <2>4, <2>5, <2>6, <2>7 DEF LifecycleTypes, L!Goto, L!Return
<1>5. ASSUME NEW c \in Callers, L!MutateAnswered(c) PROVE LifecycleTypes'
  <2>1. stage[c] = "mutating" /\ plan[c] \in L!Plan /\ c \in L!Sent
    BY <1>5 DEF L!MutateAnswered, LifecycleTypes, RequestsFollowCalls
  <2>2. plan[c].action \in L!Actions
    BY <2>1 DEF L!Plan
  <2>3. order' \in L!Order /\ {held', placed'} \subseteq {"nobody", "a tool", "others"}
    BY <1>5, <2>2, LandsTypes DEF L!MutateAnswered
  <2>4. DOMAIN requests' = Callers /\ \A d \in Callers : requests'[d] \in L!Request \cup {L!NoPlan}
    BY <1>5, <2>1, LandingTypes DEF L!MutateAnswered
  <2>5. QED
    BY <1>5, <2>1, <2>3, <2>4 DEF L!MutateAnswered, L!Goto, LifecycleTypes
<1>6. ASSUME NEW c \in Callers, NEW e, L!MutateFailed(c, e) PROVE LifecycleTypes'
  <2>1. stage[c] = "mutating" /\ DOMAIN requests' = Callers
        /\ \A d \in Callers : requests'[d] \in L!Request \cup {L!NoPlan}
    BY <1>6, FailedRequest DEF L!MutateFailed, LifecycleTypes
  <2>2. L!Return(c) \/ (L!Goto(c, "recovering") /\ UNCHANGED <<mode, plan>>)
    BY <1>6 DEF L!MutateFailed
  <2>3. UNCHANGED <<order, offers, foreign, issued, warned, held, placed>>
    BY <1>6 DEF L!MutateFailed
  <2>4. QED
    BY <2>1, <2>2, <2>3 DEF LifecycleTypes, L!Goto, L!Return
<1>7. ASSUME NEW c \in Callers, L!LandsLate(c) PROVE LifecycleTypes'
  <2>1. c \in L!Sent /\ requests[c] \in L!Request
    BY <1>7 DEF L!LandsLate, LifecycleTypes, L!Sent
  <2>2. requests[c].plan.action \in L!Actions
    BY <2>1 DEF L!Plan, L!Request
  <2>3. order' \in L!Order /\ {held', placed'} \subseteq {"nobody", "a tool", "others"}
    BY <1>7, <2>2, LandsTypes DEF L!LandsLate
  <2>4. DOMAIN requests' = Callers /\ \A d \in Callers : requests'[d] \in L!Request \cup {L!NoPlan}
    BY <1>7, <2>1, LandingTypes DEF L!LandsLate
  <2>5. QED
    BY <1>7, <2>3, <2>4 DEF L!LandsLate, L!call, LifecycleTypes
<1>8. ASSUME NEW c \in Callers, L!Refresh(c) PROVE LifecycleTypes'
  <2>1. DOMAIN requests' = Callers
        /\ \A d \in Callers : requests'[d] \in L!Request \cup {L!NoPlan}
    BY <1>8, RefreshedRequest DEF LifecycleTypes
  <2>2. QED
    BY <1>8, <2>1 DEF L!Refresh, L!Return, L!Goto, LifecycleTypes
<1>9. ASSUME NEW a \in L!Actions, L!Void(a) PROVE LifecycleTypes'
  BY <1>9 DEF L!Void, L!Goto, L!Return, L!call, LifecycleTypes
<1>10. ASSUME L!ForeignStep PROVE LifecycleTypes'
  <2>1. order' \in L!Order /\ {held', placed'} \subseteq {"nobody", "a tool", "others"}
    <3>1. CASE \E a \in L!Actions : L!Lands([action |-> a], "others")
      BY <3>1, LandsTypes
    <3>2. CASE /\ UNCHANGED <<held, placed>>
               /\ order' \in {[order EXCEPT !.received = TRUE], [order EXCEPT !.status = "complete"]}
      BY <3>2 DEF LifecycleTypes, L!Order, L!Statuses
    <3>3. QED
      BY <1>10, <3>1, <3>2 DEF L!ForeignStep
  <2>2. DOMAIN requests' = Callers /\ \A d \in Callers : requests'[d] \in L!Request \cup {L!NoPlan}
    BY <1>10, ForeignTypes
  <2>3. QED
    BY <1>10, <2>1, <2>2 DEF L!ForeignStep, L!call, LifecycleTypes
<1>11. QED
  BY <1>1, <1>2, <1>3, <1>4, <1>5, <1>6, <1>7, <1>8, <1>9, <1>10 DEF L!Next

\* A review pays for one plan, which pays for one request.
LEMMA LifecycleLedgerStep ==
  ASSUME LifecycleTypes, LifecycleLedger, RequestsFollowCalls, L!Next
  PROVE  LifecycleLedger'
<1>1. ASSUME NEW c \in Callers, NEW m, NEW a \in L!Actions, L!ReadOrder(c, m, a) PROVE LifecycleLedger'
  <2>1. L!Sent' = L!Sent /\ UNCHANGED <<offers, issued>>
    BY <1>1 DEF L!ReadOrder, L!Sent
  <2>2. QED
    BY <2>1 DEF LifecycleLedger, Outstanding
<1>2. ASSUME NEW c \in Callers, L!ReadLines(c) PROVE LifecycleLedger'
  <2>1. L!Sent' = L!Sent /\ UNCHANGED <<offers, issued>>
    BY <1>2 DEF L!ReadLines, L!Sent
  <2>2. QED
    BY <2>1 DEF LifecycleLedger, Outstanding
<1>3. ASSUME NEW c \in Callers, L!Issue(c) PROVE LifecycleLedger'
  <2>1. stage[c] = "planned" /\ plan[c] \in L!Plan
    BY <1>3 DEF L!Issue, LifecycleTypes
  <2>2. plan[c].action \in L!Actions /\ plan[c] # L!NoPlan
    BY <2>1, LifecycleRecords DEF L!Plan
  <2>3. Outstanding' = Outstanding \cup {plan[c].action} /\ L!Sent' = L!Sent
    <3>1. offers' = [offers EXCEPT ![plan[c].action] = plan[c]] /\ requests' = requests
      BY <1>3 DEF L!Issue, L!OfferedFor
    <3>2. \A a \in L!Actions : offers'[a] = IF a = plan[c].action THEN plan[c] ELSE offers[a]
      BY <3>1 DEF LifecycleTypes
    <3>3. QED
      BY <2>2, <3>1, <3>2 DEF Outstanding, L!Sent
  <2>4. issued' = issued + 1
    BY <1>3 DEF L!Issue
  <2>5. QED
    <3>1. issued \in Nat
      BY DEF LifecycleTypes
    <3>2. /\ IsFiniteSet(Outstanding') /\ Cardinality(Outstanding') <= Cardinality(Outstanding) + 1
          /\ Cardinality(Outstanding) \in Nat /\ Cardinality(Outstanding') \in Nat
          /\ Cardinality(L!Sent) \in Nat
      BY <2>3, Counting DEF LifecycleLedger
    <3>3. QED
      BY <2>3, <2>4, <3>1, <3>2 DEF LifecycleLedger
<1>4. ASSUME NEW c \in Callers, L!Consume(c) PROVE LifecycleLedger'
  <2> DEFINE a == plan[c].action
  <2>1. stage[c] = "planned" /\ plan[c] \in L!Plan
    BY <1>4 DEF L!Consume, LifecycleTypes
  <2>2. a \in L!Actions /\ plan[c] # L!NoPlan
    BY <2>1, LifecycleRecords DEF L!Plan
  <2>3. CASE UNCHANGED <<offers, requests>>
    BY <1>4, <2>3 DEF L!Consume, LifecycleLedger, Outstanding, L!Sent
  <2>4. CASE ~UNCHANGED <<offers, requests>>
    <3>1. /\ offers[a] = plan[c] /\ requests'[c] # L!NoPlan
          /\ \A x \in L!Actions : offers'[x] = IF x = a THEN L!NoPlan ELSE offers[x]
          /\ \A d \in Callers : d # c => requests'[d] = requests[d]
      BY <1>4, <2>4, Accepting
    <3>2. Outstanding' = Outstanding \ {a} /\ a \in Outstanding
      BY <2>2, <3>1 DEF Outstanding
    <3>3. L!Sent' = L!Sent \cup {c}
      BY <3>1 DEF L!Sent
    <3>4. issued' = issued
      BY <1>4 DEF L!Consume
    <3>5. /\ IsFiniteSet(L!Sent') /\ Cardinality(L!Sent') <= Cardinality(L!Sent) + 1
          /\ Cardinality(L!Sent') \in Nat /\ Cardinality(L!Sent) \in Nat
      BY <3>3, Counting DEF LifecycleLedger
    <3>6. /\ IsFiniteSet(Outstanding') /\ Cardinality(Outstanding') = Cardinality(Outstanding) - 1
          /\ Cardinality(Outstanding) \in Nat
      BY <3>2, Counting DEF LifecycleLedger
    <3>7. QED
      <4>1. issued \in Nat
        BY DEF LifecycleTypes
      <4>2. QED
        BY <3>4, <3>5, <3>6, <4>1 DEF LifecycleLedger
  <2>5. QED
    BY <2>3, <2>4
<1>5. ASSUME NEW c \in Callers, L!MutateAnswered(c) PROVE LifecycleLedger'
  <2>1. L!Sent' = L!Sent /\ UNCHANGED <<offers, issued>>
    BY <1>5, LandingTypes DEF L!MutateAnswered, RequestsFollowCalls
  <2>2. QED
    BY <2>1 DEF LifecycleLedger, Outstanding
<1>6. ASSUME NEW c \in Callers, NEW e, L!MutateFailed(c, e) PROVE LifecycleLedger'
  <2>1. L!Sent' = L!Sent /\ UNCHANGED <<offers, issued>>
    BY <1>6, FailedRequest DEF L!MutateFailed
  <2>2. QED
    BY <2>1 DEF LifecycleLedger, Outstanding
<1>7. ASSUME NEW c \in Callers, L!LandsLate(c) PROVE LifecycleLedger'
  <2>1. L!Sent' = L!Sent /\ UNCHANGED <<offers, issued>>
    BY <1>7, LandingTypes DEF L!LandsLate, L!Sent
  <2>2. QED
    BY <2>1 DEF LifecycleLedger, Outstanding
<1>8. ASSUME NEW c \in Callers, L!Refresh(c) PROVE LifecycleLedger'
  <2>1. L!Sent' = L!Sent /\ UNCHANGED <<offers, issued>>
    BY <1>8, RefreshedRequest DEF L!Refresh
  <2>2. QED
    BY <2>1 DEF LifecycleLedger, Outstanding
<1>9. ASSUME NEW a \in L!Actions, L!Void(a) PROVE LifecycleLedger'
  <2>1. Outstanding' = Outstanding \ {a} /\ a \in Outstanding /\ L!Sent' = L!Sent /\ issued' = issued
    BY <1>9 DEF L!Void, Outstanding, LifecycleTypes, L!Sent
  <2>2. QED
    <3>1. issued \in Nat
      BY DEF LifecycleTypes
    <3>2. /\ IsFiniteSet(Outstanding') /\ Cardinality(Outstanding') = Cardinality(Outstanding) - 1
          /\ Cardinality(Outstanding) \in Nat /\ Cardinality(L!Sent) \in Nat
      BY <2>1, Counting DEF LifecycleLedger
    <3>3. QED
      BY <2>1, <3>1, <3>2 DEF LifecycleLedger
<1>10. ASSUME L!ForeignStep PROVE LifecycleLedger'
  <2>1. L!Sent' = L!Sent /\ UNCHANGED <<offers, issued>>
    BY <1>10, ForeignTypes DEF L!ForeignStep
  <2>2. QED
    BY <2>1 DEF LifecycleLedger, Outstanding
<1>11. QED
  BY <1>1, <1>2, <1>3, <1>4, <1>5, <1>6, <1>7, <1>8, <1>9, <1>10 DEF L!Next

\* Requests that only others or nobody touched keep what the invariant says of them.
LEMMA UntouchedRequests ==
  ASSUME LifecycleTypes, RequestsFollowCalls, NEW d \in L!Sent,
         requests'[d] = requests[d] \/ requests'[d] = L!Races(requests[d])
  PROVE  /\ requests'[d].plan = requests[d].plan /\ requests'[d].report = requests[d].report
         /\ requests'[d].landed = requests[d].landed /\ requests'[d].open = requests[d].open
         /\ requests'[d].orphans = requests[d].orphans /\ (requests[d].raced => requests'[d].raced)
<1>1. requests[d] \in L!Request
  BY DEF L!Sent, LifecycleTypes
<1>2. QED
  BY <1>1, RacesFields

\* Requests are those of their calls.
LEMMA RequestsFollowStep ==
  ASSUME LifecycleTypes, RequestsFollowCalls, L!Next
  PROVE  RequestsFollowCalls'
<1>1. ASSUME NEW c \in Callers, NEW m, NEW a \in L!Actions, L!ReadOrder(c, m, a) PROVE RequestsFollowCalls'
  <2>1. L!Sent' = L!Sent /\ requests' = requests /\ stage' = [stage EXCEPT ![c] = "lines"]
    BY <1>1 DEF L!ReadOrder, L!Sent, L!Goto
  <2>2. /\ plan'[c].order.status = order.status /\ plan'[c].action = a
        /\ \A d \in Callers : d # c => plan'[d] = plan[d]
        /\ order.status \in L!Plannable[a]
    BY <1>1 DEF L!ReadOrder, LifecycleTypes
  <2>3. QED
    BY <2>1, <2>2 DEF RequestsFollowCalls, LifecycleTypes
<1>2. ASSUME NEW c \in Callers, L!ReadLines(c) PROVE RequestsFollowCalls'
  <2> DEFINE p == [plan[c] EXCEPT !.order.received = order.received]
  <2>1. L!Sent' = L!Sent /\ requests' = requests
    BY <1>2 DEF L!ReadLines, L!Sent
  <2>2. stage[c] = "lines" /\ plan[c] \in L!Plan /\ order \in L!Order
    BY <1>2 DEF L!ReadLines, LifecycleTypes
  <2>3. p.order.status = plan[c].order.status /\ p.action = plan[c].action /\ p.order.received = order.received
    BY <2>2 DEF L!Plan, L!Order
  <2> HIDE DEF p
  <2>4. L!Return(c) \/ (~L!Refuses(p) /\ plan' = [plan EXCEPT ![c] = p] /\ L!Goto(c, "planned"))
    BY <1>2 DEF L!ReadLines, p
  <2>5. CASE L!Return(c)
    BY <2>1, <2>5 DEF LifecycleTypes, L!Return, L!Goto, RequestsFollowCalls
  <2>6. CASE ~L!Return(c)
    <3>1. p.order.status \in L!Plannable[p.action] /\ Sound(p)
      BY <2>2, <2>3, <2>4, <2>6 DEF RequestsFollowCalls, Sound, L!Refuses
    <3>2. QED
      <4>1. /\ stage'[c] = "planned" /\ plan'[c] = p
            /\ \A d \in Callers : d # c => stage'[d] = stage[d] /\ plan'[d] = plan[d]
        BY <2>4, <2>6 DEF LifecycleTypes, L!Goto
      <4>2. QED
        BY <2>1, <3>1, <4>1 DEF RequestsFollowCalls
  <2>7. QED
    BY <2>5, <2>6
<1>3. ASSUME NEW c \in Callers, L!Issue(c) PROVE RequestsFollowCalls'
  <2>1. L!Sent' = L!Sent /\ requests' = requests
    BY <1>3 DEF L!Issue, L!Sent
  <2>2. QED
    BY <1>3, <2>1 DEF L!Issue, LifecycleTypes, L!Goto, L!Return, L!call, RequestsFollowCalls
<1>4. ASSUME NEW c \in Callers, L!Consume(c) PROVE RequestsFollowCalls'
  <2>1. CASE UNCHANGED <<offers, requests>> /\ L!Return(c)
    BY <1>4, <2>1 DEF L!Consume, LifecycleTypes, L!Sent, L!Goto, L!Return, L!call, RequestsFollowCalls
  <2>2. CASE ~(UNCHANGED <<offers, requests>> /\ L!Return(c))
    <3>1. /\ stage[c] = "planned" /\ plan' = plan /\ stage' = [stage EXCEPT ![c] = "mutating"]
          /\ requests' = [requests EXCEPT ![c] =
               [plan |-> plan[c], raced |-> order # plan[c].order, landed |-> FALSE,
                open |-> FALSE, orphans |-> FALSE, report |-> "sent"]]
      BY <1>4, <2>2 DEF L!Consume, L!Goto
    <3>2. /\ requests'[c].plan = plan[c] /\ requests'[c].report = "sent"
          /\ requests'[c].landed = FALSE /\ requests'[c].open = FALSE
          /\ requests'[c] # L!NoPlan
          /\ \A d \in Callers : d # c => requests'[d] = requests[d]
      BY <3>1 DEF LifecycleTypes, L!NoPlan
    <3>3. c \in L!Sent' /\ \A d \in Callers : d # c => (d \in L!Sent' <=> d \in L!Sent)
      BY <3>2 DEF L!Sent
    <3>4. QED
      BY <3>1, <3>2, <3>3 DEF RequestsFollowCalls, LifecycleTypes
  <2>3. QED
    BY <2>1, <2>2
<1>5. ASSUME NEW c \in Callers, L!MutateAnswered(c) PROVE RequestsFollowCalls'
  <2>1. c \in L!Sent /\ L!Landed(c) /\ plan' = plan /\ stage' = [stage EXCEPT ![c] = "reading"]
        /\ stage[c] = "mutating"
    BY <1>5 DEF L!MutateAnswered, L!Goto, RequestsFollowCalls
  <2>2. L!Sent' = L!Sent
    BY <2>1, LandingTypes
  <2>3. /\ requests'[c].plan = requests[c].plan /\ requests'[c].report = requests[c].report
        /\ requests'[c].open = FALSE
        /\ \A d \in L!Sent : d # c =>
             /\ requests'[d].plan = requests[d].plan /\ requests'[d].report = requests[d].report
             /\ requests'[d].landed = requests[d].landed /\ requests'[d].open = requests[d].open
    BY <2>1, LandingFields, UntouchedRequests
  <2>4. stage'[c] = "reading" /\ \A d \in Callers : d # c => stage'[d] = stage[d]
    BY <2>1 DEF LifecycleTypes
  <2>5. QED
    BY <2>1, <2>2, <2>3, <2>4 DEF RequestsFollowCalls
<1>6. ASSUME NEW c \in Callers, NEW e, L!MutateFailed(c, e) PROVE RequestsFollowCalls'
  <2>1. /\ L!Sent' = L!Sent /\ c \in L!Sent /\ stage[c] = "mutating" /\ requests[c] \in L!Request
        /\ requests'[c] = [requests[c] EXCEPT !.open = e # "rejected",
                            !.report = IF L!DefiniteRejection(e) THEN "rejected" ELSE "sent"]
        /\ \A d \in Callers : d # c => requests'[d] = requests[d]
    BY <1>6, FailedRequest DEF L!MutateFailed, RequestsFollowCalls, L!Sent, LifecycleTypes
  <2>2. /\ requests'[c].plan = requests[c].plan /\ requests'[c].landed = requests[c].landed
        /\ ~L!DefiniteRejection(e) => requests'[c].report = "sent"
    BY <2>1 DEF L!Request
  <2>3. \/ L!Return(c)
        \/ ~L!DefiniteRejection(e) /\ stage' = [stage EXCEPT ![c] = "recovering"] /\ plan' = plan
    BY <1>6 DEF L!MutateFailed, L!Goto
  <2>4. requests'[c].plan = plan[c] /\ ~requests'[c].landed /\ Sound(requests'[c].plan)
    BY <2>1, <2>2 DEF RequestsFollowCalls
  <2>5. CASE L!Return(c)
    <3>1. stage'[c] = "idle" /\ \A d \in Callers : d # c => stage'[d] = stage[d] /\ plan'[d] = plan[d]
      BY <2>5 DEF LifecycleTypes, L!Return, L!Goto
    <3>2. QED
      BY <2>1, <2>4, <3>1, ZenonT(40) DEF RequestsFollowCalls
  <2>6. CASE ~L!Return(c)
    <3>1. stage' = [stage EXCEPT ![c] = "recovering"] /\ plan' = plan /\ requests'[c].report = "sent"
      BY <2>2, <2>3, <2>6
    <3>2. stage'[c] = "recovering" /\ \A d \in Callers : d # c => stage'[d] = stage[d]
      BY <3>1 DEF LifecycleTypes
    <3>3. QED
      BY <2>1, <2>4, <3>1, <3>2, ZenonT(40) DEF RequestsFollowCalls
  <2>7. QED
    BY <2>5, <2>6
<1>7. ASSUME NEW c \in Callers, L!LandsLate(c) PROVE RequestsFollowCalls'
  <2>1. c \in L!Sent /\ L!Landed(c) /\ plan' = plan /\ stage' = stage /\ stage[c] # "mutating"
    BY <1>7 DEF L!LandsLate, L!call, RequestsFollowCalls, L!Sent
  <2>2. L!Sent' = L!Sent
    BY <2>1, LandingTypes
  <2>3. /\ requests'[c].plan = requests[c].plan /\ requests'[c].report = requests[c].report
        /\ requests'[c].open = FALSE
        /\ \A d \in L!Sent : d # c =>
             /\ requests'[d].plan = requests[d].plan /\ requests'[d].report = requests[d].report
             /\ requests'[d].landed = requests[d].landed /\ requests'[d].open = requests[d].open
    BY <2>1, LandingFields, UntouchedRequests
  <2>4. QED
    BY <2>1, <2>2, <2>3 DEF RequestsFollowCalls
<1>8. ASSUME NEW c \in Callers, L!Refresh(c) PROVE RequestsFollowCalls'
  <2>1. /\ L!Sent' = L!Sent /\ c \in L!Sent /\ requests[c] \in L!Request
        /\ \E x \in {"unknown", "ok", "recovered"} : requests'[c] = [requests[c] EXCEPT !.report = x]
        /\ \A d \in Callers : d # c => requests'[d] = requests[d]
    BY <1>8, RefreshedRequest DEF L!Refresh, RequestsFollowCalls, L!Sent, LifecycleTypes
  <2>2. /\ requests'[c].plan = requests[c].plan /\ requests'[c].landed = requests[c].landed
        /\ requests'[c].open = requests[c].open
    BY <2>1 DEF L!Request
  <2>3. L!Return(c)
    BY <1>8 DEF L!Refresh
  <2>4. stage'[c] = "idle" /\ \A d \in Callers : d # c => stage'[d] = stage[d] /\ plan'[d] = plan[d]
    BY <2>3 DEF LifecycleTypes, L!Return, L!Goto
  <2>5. QED
    BY <2>1, <2>2, <2>4, ZenonT(40) DEF RequestsFollowCalls
<1>9. ASSUME NEW a \in L!Actions, L!Void(a) PROVE RequestsFollowCalls'
  <2>1. L!Sent' = L!Sent /\ requests' = requests
    BY <1>9 DEF L!Void, L!Sent
  <2>2. QED
    BY <1>9, <2>1 DEF L!Void, LifecycleTypes, L!Goto, L!Return, L!call, RequestsFollowCalls
<1>10. ASSUME L!ForeignStep PROVE RequestsFollowCalls'
  <2>1. L!Sent' = L!Sent /\ plan' = plan /\ stage' = stage
    BY <1>10, ForeignTypes DEF L!ForeignStep, L!call
  <2>2. \A d \in L!Sent :
             /\ requests'[d].plan = requests[d].plan /\ requests'[d].report = requests[d].report
             /\ requests'[d].landed = requests[d].landed /\ requests'[d].open = requests[d].open
    BY <1>10, ForeignTypes, UntouchedRequests DEF L!Sent
  <2>3. QED
    BY <2>1, <2>2 DEF RequestsFollowCalls
<1>11. QED
  BY <1>1, <1>2, <1>3, <1>4, <1>5, <1>6, <1>7, <1>8, <1>9, <1>10 DEF L!Next

\* A request that others overtook keeps what it was, and is raced.
LEMMA OvertakenOutcomes ==
  ASSUME LifecycleTypes, RequestsFollowCalls, L!RejectedMeansUntouched, L!OrphansOnlyInWindow,
         NEW d \in L!Sent, requests'[d] = L!Races(requests[d])
  PROVE  /\ requests'[d].report = "sent" \/ requests'[d].open => requests'[d].raced
         /\ requests'[d].report = "rejected" => ~requests'[d].landed /\ ~requests'[d].open
         /\ requests'[d].orphans => requests'[d].raced
<1>1. requests[d] \in L!Request
  BY DEF L!Sent, LifecycleTypes
<1>2. /\ requests'[d].report = requests[d].report
      /\ requests'[d].landed = requests[d].landed /\ requests'[d].open = requests[d].open
      /\ requests'[d].orphans = requests[d].orphans /\ (requests[d].raced => requests'[d].raced)
  BY UntouchedRequests
<1>3. requests[d].report = "sent" \/ requests[d].open => requests'[d].raced
  BY <1>1, RacesFields
<1>4. QED
  BY <1>2, <1>3 DEF L!RejectedMeansUntouched, L!OrphansOnlyInWindow

\* One that lands was not rejected, and orphans no receipt its plan could have seen.
LEMMA LandingOutcomes ==
  ASSUME LifecycleTypes, RequestsFollowCalls, RequestsAreFresh,
         L!RejectedMeansUntouched, L!OrphansOnlyInWindow,
         NEW c \in Callers, c \in L!Sent, L!Landed(c), Sound(requests[c].plan),
         ~requests[c].landed, requests[c].report = "sent" \/ requests[c].open
  PROVE  RequestsAreFresh' /\ L!RejectedMeansUntouched' /\ L!OrphansOnlyInWindow'
<1>1. L!Sent' = L!Sent
  BY LandingTypes
<1>2. /\ requests'[c].raced = requests[c].raced /\ requests'[c].landed = TRUE
      /\ requests'[c].open = FALSE /\ requests'[c].report = requests[c].report
      /\ requests'[c].orphans = (requests[c].plan.action = "cancel" /\ order.received)
  BY LandingFields
<1>3. requests'[c].orphans => requests'[c].raced
  BY <1>2 DEF RequestsAreFresh, Sound
<1>4. requests'[c].report # "rejected"
  BY <1>2 DEF L!RejectedMeansUntouched
<1>5. ASSUME NEW d \in L!Sent, d # c
      PROVE  /\ requests'[d].report = "sent" \/ requests'[d].open => requests'[d].raced
             /\ requests'[d].report = "rejected" => ~requests'[d].landed /\ ~requests'[d].open
             /\ requests'[d].orphans => requests'[d].raced
  BY <1>5, LandingFields, OvertakenOutcomes
<1>6. QED
  BY <1>1, <1>2, <1>3, <1>4, <1>5 DEF RequestsAreFresh, L!RejectedMeansUntouched, L!OrphansOnlyInWindow

\* What became of the requests.
LEMMA OutcomesStep ==
  ASSUME LifecycleTypes, RequestsFollowCalls, RequestsAreFresh,
         L!RejectedMeansUntouched, L!OrphansOnlyInWindow, L!Next
  PROVE  RequestsAreFresh' /\ L!RejectedMeansUntouched' /\ L!OrphansOnlyInWindow'
<1>1. ASSUME NEW c \in Callers, NEW m, NEW a \in L!Actions, L!ReadOrder(c, m, a) PROVE RequestsAreFresh' /\ L!RejectedMeansUntouched' /\ L!OrphansOnlyInWindow'
  <2>1. L!Sent' = L!Sent /\ requests' = requests /\ order' = order
    BY <1>1 DEF L!ReadOrder, L!Sent
  <2>2. QED
    BY <2>1 DEF RequestsAreFresh, L!RejectedMeansUntouched, L!OrphansOnlyInWindow
<1>2. ASSUME NEW c \in Callers, L!ReadLines(c) PROVE RequestsAreFresh' /\ L!RejectedMeansUntouched' /\ L!OrphansOnlyInWindow'
  <2>1. L!Sent' = L!Sent /\ requests' = requests /\ order' = order
    BY <1>2 DEF L!ReadLines, L!Sent
  <2>2. QED
    BY <2>1 DEF RequestsAreFresh, L!RejectedMeansUntouched, L!OrphansOnlyInWindow
<1>3. ASSUME NEW c \in Callers, L!Issue(c) PROVE RequestsAreFresh' /\ L!RejectedMeansUntouched' /\ L!OrphansOnlyInWindow'
  <2>1. L!Sent' = L!Sent /\ requests' = requests /\ order' = order
    BY <1>3 DEF L!Issue, L!Sent
  <2>2. QED
    BY <2>1 DEF RequestsAreFresh, L!RejectedMeansUntouched, L!OrphansOnlyInWindow
<1>4. ASSUME NEW c \in Callers, L!Consume(c) PROVE RequestsAreFresh' /\ L!RejectedMeansUntouched' /\ L!OrphansOnlyInWindow'
  <2>1. CASE UNCHANGED requests
    BY <1>4, <2>1 DEF L!Consume, L!Sent, RequestsAreFresh, L!RejectedMeansUntouched, L!OrphansOnlyInWindow
  <2>2. CASE ~UNCHANGED requests
    <3>1. /\ requests' = [requests EXCEPT ![c] =
               [plan |-> plan[c], raced |-> order # plan[c].order, landed |-> FALSE,
                open |-> FALSE, orphans |-> FALSE, report |-> "sent"]]
          /\ order' = order
      BY <1>4, <2>2 DEF L!Consume
    <3>2. /\ requests'[c].plan = plan[c] /\ requests'[c].report = "sent"
          /\ requests'[c].open = FALSE /\ requests'[c].orphans = FALSE
          /\ requests'[c].raced = (order # plan[c].order)
          /\ \A d \in L!Sent' : d # c => requests'[d] = requests[d] /\ d \in L!Sent
      BY <3>1 DEF LifecycleTypes, L!Sent
    <3>3. RequestsAreFresh'
      <4>1. SUFFICES ASSUME NEW d \in L!Sent', ~requests'[d].raced, ~requests'[d].landed,
                            requests'[d].report = "sent" \/ requests'[d].open
                     PROVE  order = requests'[d].plan.order
        BY <3>1 DEF RequestsAreFresh
      <4>2. CASE d = c
        BY <3>2, <4>1, <4>2
      <4>3. CASE d # c
        BY <3>2, <4>1, <4>3 DEF RequestsAreFresh
      <4>4. QED
        BY <4>2, <4>3
    <3>4. L!RejectedMeansUntouched' /\ L!OrphansOnlyInWindow'
      BY <3>2 DEF L!RejectedMeansUntouched, L!OrphansOnlyInWindow
    <3>5. QED
      BY <3>3, <3>4
  <2>3. QED
    BY <2>1, <2>2
<1>5. ASSUME NEW c \in Callers, L!MutateAnswered(c) PROVE RequestsAreFresh' /\ L!RejectedMeansUntouched' /\ L!OrphansOnlyInWindow'
  <2>1. stage[c] = "mutating" /\ c \in L!Sent /\ L!Landed(c) /\ requests[c].report = "sent"
        /\ Sound(requests[c].plan) /\ ~requests[c].landed
    BY <1>5 DEF L!MutateAnswered, RequestsFollowCalls
  <2>2. QED
    BY <2>1, LandingOutcomes
<1>6. ASSUME NEW c \in Callers, NEW e, L!MutateFailed(c, e) PROVE RequestsAreFresh' /\ L!RejectedMeansUntouched' /\ L!OrphansOnlyInWindow'
  <2>1. /\ L!Sent' = L!Sent /\ c \in L!Sent /\ requests[c] \in L!Request
        /\ requests'[c] = [requests[c] EXCEPT !.open = e # "rejected",
                            !.report = IF L!DefiniteRejection(e) THEN "rejected" ELSE "sent"]
        /\ \A d \in Callers : d # c => requests'[d] = requests[d]
    BY <1>6, FailedRequest DEF L!MutateFailed, RequestsFollowCalls, L!Sent, LifecycleTypes
  <2>2. /\ requests'[c].plan = requests[c].plan /\ requests'[c].landed = requests[c].landed
        /\ requests'[c].raced = requests[c].raced /\ requests'[c].orphans = requests[c].orphans
        /\ requests'[c].open = (e # "rejected")
        /\ requests'[c].report = IF L!DefiniteRejection(e) THEN "rejected" ELSE "sent"
    BY <2>1 DEF L!Request
  <2>3. order' = order /\ requests[c].report = "sent" /\ ~requests[c].landed
    BY <1>6 DEF L!MutateFailed, RequestsFollowCalls
  <2>4. RequestsAreFresh'
    <3>1. ~requests'[c].raced => order' = requests'[c].plan.order
      BY <2>1, <2>2, <2>3 DEF RequestsAreFresh
    <3>2. QED
      BY <2>1, <2>3, <3>1 DEF RequestsAreFresh, L!Sent
  <2>5. L!RejectedMeansUntouched'
    BY <2>1, <2>2, <2>3 DEF L!RejectedMeansUntouched, L!Sent, L!DefiniteRejection
  <2>6. L!OrphansOnlyInWindow'
    BY <2>1, <2>2 DEF L!OrphansOnlyInWindow, L!Sent
  <2>7. QED
    BY <2>4, <2>5, <2>6
<1>7. ASSUME NEW c \in Callers, L!LandsLate(c) PROVE RequestsAreFresh' /\ L!RejectedMeansUntouched' /\ L!OrphansOnlyInWindow'
  <2>1. c \in L!Sent /\ L!Landed(c) /\ requests[c].open /\ Sound(requests[c].plan) /\ ~requests[c].landed
    BY <1>7 DEF L!LandsLate, L!Sent, RequestsFollowCalls
  <2>2. QED
    BY <2>1, LandingOutcomes
<1>8. ASSUME NEW c \in Callers, L!Refresh(c) PROVE RequestsAreFresh' /\ L!RejectedMeansUntouched' /\ L!OrphansOnlyInWindow'
  <2>1. /\ L!Sent' = L!Sent /\ c \in L!Sent /\ requests[c] \in L!Request
        /\ \E x \in {"unknown", "ok", "recovered"} : requests'[c] = [requests[c] EXCEPT !.report = x]
        /\ \A d \in Callers : d # c => requests'[d] = requests[d]
    BY <1>8, RefreshedRequest DEF L!Refresh, RequestsFollowCalls, L!Sent, LifecycleTypes
  <2>2. /\ requests'[c].plan = requests[c].plan /\ requests'[c].landed = requests[c].landed
        /\ requests'[c].raced = requests[c].raced /\ requests'[c].orphans = requests[c].orphans
        /\ requests'[c].open = requests[c].open /\ requests'[c].report # "rejected"
        /\ requests'[c].report # "sent"
    BY <2>1 DEF L!Request
  <2>3. order' = order
    BY <1>8 DEF L!Refresh
  <2>4. RequestsAreFresh'
    BY <2>1, <2>2, <2>3, ZenonT(40) DEF RequestsAreFresh, L!Sent
  <2>5. \A d \in L!Sent : d # c => requests'[d] = requests[d]
    BY <2>1 DEF L!Sent
  <2>6. L!RejectedMeansUntouched' /\ L!OrphansOnlyInWindow'
    BY <2>1, <2>2, <2>5 DEF L!RejectedMeansUntouched, L!OrphansOnlyInWindow
  <2>7. QED
    BY <2>4, <2>6
<1>9. ASSUME NEW a \in L!Actions, L!Void(a) PROVE RequestsAreFresh' /\ L!RejectedMeansUntouched' /\ L!OrphansOnlyInWindow'
  <2>1. L!Sent' = L!Sent /\ requests' = requests /\ order' = order
    BY <1>9 DEF L!Void, L!Sent
  <2>2. QED
    BY <2>1 DEF RequestsAreFresh, L!RejectedMeansUntouched, L!OrphansOnlyInWindow
<1>10. ASSUME L!ForeignStep PROVE RequestsAreFresh' /\ L!RejectedMeansUntouched' /\ L!OrphansOnlyInWindow'
  <2>1. \A d \in L!Sent' : d \in L!Sent /\ requests'[d] = L!Races(requests[d])
    BY <1>10, ForeignTypes DEF L!Sent
  <2>2. QED
    BY <2>1, OvertakenOutcomes DEF RequestsAreFresh, L!RejectedMeansUntouched, L!OrphansOnlyInWindow
<1>11. QED
  BY <1>1, <1>2, <1>3, <1>4, <1>5, <1>6, <1>7, <1>8, <1>9, <1>10 DEF L!Next

\* A transition that a tool or somebody else brings about.  A tool's plan remembers the
\* order, and its warning was given.
LEMMA LandsHistory ==
  ASSUME LifecycleTypes, OrderHistory, L!PlacedKnowingly, warned' = warned,
         NEW p, p.action \in L!Actions, NEW by \in {"a tool", "others"}, L!Lands(p, by),
         by = "a tool" => /\ p.order.status \in L!Plannable[p.action]
                          /\ Remembers(p) /\ (L!Warns(p) => warned)
  PROVE  /\ OrderHistory' /\ L!PlacedKnowingly'
         /\ placed # "nobody" => placed' # "nobody"
         /\ held # "nobody" => held' # "nobody"
<1>1. /\ order.status \in L!Allowed[p.action]
      /\ order'.status = L!Target[p.action]
      /\ held' = IF p.action = "hold" /\ order.status = "pending" THEN by ELSE held
      /\ placed' = IF p.action = "resume" /\ placed = "nobody" THEN by ELSE placed
  BY DEF L!Lands, L!Applicable, LifecycleTypes, L!Order
<1>2. CASE p.action = "hold"
  <2>1. /\ order.status \in {"pending", "placed"} /\ order'.status = "on_hold" /\ placed' = placed
        /\ held' = IF order.status = "pending" THEN by ELSE held
    BY <1>1, <1>2, Transitions
  <2>2. by = "a tool" => p.order.status \in {"pending", "placed"}
    BY <1>2, Transitions
  <2>3. by = "a tool" /\ order.status = "pending" => warned
    BY <1>2, <2>1, <2>2 DEF Remembers, OrderHistory, L!Warns
  <2>4. OrderHistory'
    BY <2>1, <2>3 DEF OrderHistory, Remembers
  <2>5. L!PlacedKnowingly'
    BY <2>1, <2>3 DEF OrderHistory, L!PlacedKnowingly
  <2>6. QED
    BY <2>1, <2>4, <2>5
<1>3. CASE p.action = "resume"
  <2>1. /\ order'.status = "placed" /\ placed' = IF placed = "nobody" THEN by ELSE placed
        /\ held' = held
    BY <1>1, <1>3, Transitions
  <2>2. by = "a tool" /\ placed = "nobody" => held # "nobody"
    BY <1>3, Transitions DEF Remembers
  <2>3. L!PlacedKnowingly'
    BY <2>1, <2>2 DEF OrderHistory, L!PlacedKnowingly, LifecycleTypes
  <2>4. OrderHistory'
    BY <2>1 DEF OrderHistory, Remembers
  <2>5. QED
    BY <2>1, <2>3, <2>4
<1>4. CASE p.action = "cancel"
  BY <1>1, <1>4, Transitions DEF OrderHistory, Remembers, L!PlacedKnowingly
<1>5. QED
  BY <1>2, <1>3, <1>4 DEF L!Actions

\* The order's past, and what is remembered of it.
LEMMA HistoryStep ==
  ASSUME LifecycleTypes, RequestsFollowCalls, OrderHistory, PlanHistory,
         L!PlacedKnowingly, L!Next
  PROVE  OrderHistory' /\ PlanHistory' /\ L!PlacedKnowingly'
<1>1. ASSUME NEW c \in Callers, NEW m, NEW a \in L!Actions, L!ReadOrder(c, m, a) PROVE OrderHistory' /\ PlanHistory' /\ L!PlacedKnowingly'
  <2>1. UNCHANGED <<order, held, placed>> /\ UNCHANGED <<requests, offers, warned>>
    BY <1>1 DEF L!ReadOrder
  <2>2. OrderHistory' /\ L!PlacedKnowingly'
    BY <2>1 DEF OrderHistory, L!PlacedKnowingly, Remembers
  <2>3. /\ Remembers(plan'[c]) /\ \A d \in Callers : d # c => plan'[d] = plan[d] /\ stage'[d] = stage[d]
    BY <1>1 DEF L!ReadOrder, LifecycleTypes, L!Goto, OrderHistory, Remembers
  <2>4. PlanHistory'
    BY <2>1, <2>3 DEF PlanHistory, Remembers, Outstanding, L!Sent, L!Warns
  <2>5. QED
    BY <2>2, <2>4
<1>2. ASSUME NEW c \in Callers, L!ReadLines(c) PROVE OrderHistory' /\ PlanHistory' /\ L!PlacedKnowingly'
  <2>1. UNCHANGED <<order, held, placed>> /\ UNCHANGED <<requests, offers, warned>>
    BY <1>2 DEF L!ReadLines
  <2>2. OrderHistory' /\ L!PlacedKnowingly'
    BY <2>1 DEF OrderHistory, L!PlacedKnowingly, Remembers
  <2>3. stage[c] # "idle" /\ plan[c] \in L!Plan
    BY <1>2 DEF L!ReadLines, LifecycleTypes
  <2>4. [plan[c] EXCEPT !.order.received = order.received].order.status = plan[c].order.status
    BY <2>3 DEF L!Plan, L!Order
  <2>5. stage'[c] # "idle" => plan'[c].order.status = plan[c].order.status
    BY <1>2, <2>4 DEF L!ReadLines, LifecycleTypes, L!Return, L!Goto
  <2>6. \A d \in Callers : d # c => plan'[d] = plan[d] /\ stage'[d] = stage[d]
    BY <1>2 DEF L!ReadLines, LifecycleTypes, L!Return, L!Goto
  <2>7. PlanHistory'
    BY <2>1, <2>3, <2>5, <2>6 DEF PlanHistory, Remembers, Outstanding, L!Sent, L!Warns
  <2>8. QED
    BY <2>2, <2>7
<1>3. ASSUME NEW c \in Callers, L!Issue(c) PROVE OrderHistory' /\ PlanHistory' /\ L!PlacedKnowingly'
  <2>1. UNCHANGED <<order, held, placed, requests>> /\ warned' = (warned \/ L!Warns(plan[c]))
    BY <1>3 DEF L!Issue
  <2>2. OrderHistory' /\ L!PlacedKnowingly'
    BY <2>1 DEF OrderHistory, L!PlacedKnowingly, Remembers
  <2>3. /\ offers' = [offers EXCEPT ![plan[c].action] = plan[c]]
        /\ \A d \in Callers : d # c => plan'[d] = plan[d] /\ stage'[d] = stage[d]
        /\ stage'[c] = "idle"
    BY <1>3 DEF L!Issue, L!OfferedFor, L!Return, L!Goto, LifecycleTypes
  <2>4. \A a \in Outstanding' : (a \in Outstanding /\ offers'[a] = offers[a]) \/ offers'[a] = plan[c]
    BY <2>3 DEF Outstanding, LifecycleTypes
  <2>5. \A a \in Outstanding' : L!Warns(offers'[a]) => warned'
    BY <2>1, <2>4 DEF PlanHistory, L!Warns
  <2>6. PlanHistory'
    BY <2>1, <2>3, <2>5 DEF PlanHistory, Remembers, L!Sent, L!Warns
  <2>7. QED
    BY <2>2, <2>6
<1>4. ASSUME NEW c \in Callers, L!Consume(c) PROVE OrderHistory' /\ PlanHistory' /\ L!PlacedKnowingly'
  <2>1. UNCHANGED <<order, held, placed>> /\ UNCHANGED warned
    BY <1>4 DEF L!Consume
  <2>2. OrderHistory' /\ L!PlacedKnowingly'
    BY <2>1 DEF OrderHistory, L!PlacedKnowingly, Remembers
  <2>3. /\ \A d \in Callers : stage'[d] # "idle" => stage[d] # "idle" /\ plan'[d] = plan[d]
        /\ \A a \in L!Actions : offers'[a] \in {offers[a], L!NoPlan}
    BY <1>4 DEF L!Consume, L!Return, L!Goto, L!Spent, LifecycleTypes
  <2>4. stage[c] # "idle" /\ plan[c] \in L!Plan
    BY <1>4 DEF L!Consume, LifecycleTypes
  <2>5. plan[c].action \in L!Actions /\ plan[c] # L!NoPlan
    BY <2>4, LifecycleRecords DEF L!Plan
  <2>6. \A d \in L!Sent' : \/ d \in L!Sent /\ requests'[d] = requests[d]
                          \/ /\ requests'[d].plan = plan[c]
                             /\ L!Warns(plan[c]) => warned
    <3>1. CASE UNCHANGED <<offers, requests>>
      BY <3>1 DEF L!Sent
    <3>2. CASE ~UNCHANGED <<offers, requests>>
      <4>1. /\ offers[plan[c].action] = plan[c] /\ requests'[c].plan = plan[c]
            /\ \A d \in Callers : d # c => requests'[d] = requests[d]
        BY <1>4, <3>2, Accepting
      <4>2. plan[c].action \in Outstanding
        BY <2>5, <4>1 DEF Outstanding
      <4>3. L!Warns(plan[c]) => warned
        BY <4>1, <4>2 DEF PlanHistory
      <4>4. QED
        BY <4>1, <4>3 DEF L!Sent
    <3>3. QED
      BY <3>1, <3>2
  <2>7. PlanHistory'
    BY <2>1, <2>3, <2>4, <2>6 DEF PlanHistory, Remembers, Outstanding, L!Warns
  <2>8. QED
    BY <2>2, <2>7
<1>5. ASSUME NEW c \in Callers, L!MutateAnswered(c) PROVE OrderHistory' /\ PlanHistory' /\ L!PlacedKnowingly'
  <2>1. stage[c] = "mutating" /\ c \in L!Sent /\ requests[c].plan = plan[c] /\ plan[c] \in L!Plan
        /\ plan[c].order.status \in L!Plannable[plan[c].action]
    BY <1>5 DEF L!MutateAnswered, RequestsFollowCalls, LifecycleTypes
  <2>2. UNCHANGED <<plan, offers, warned>> /\ \A d \in Callers : stage'[d] # "idle" => stage[d] # "idle"
    BY <1>5, <2>1 DEF L!MutateAnswered, L!Goto, LifecycleTypes
  <2>3. L!Sent' = L!Sent /\ \A d \in L!Sent : requests'[d].plan = requests[d].plan
    BY <1>5, <2>1, LandingTypes, LandingFields, UntouchedRequests DEF L!MutateAnswered
  <2>4. Remembers(plan[c]) /\ (L!Warns(plan[c]) => warned) /\ plan[c].action \in L!Actions
    BY <2>1 DEF PlanHistory, L!Plan
  <2>5. /\ OrderHistory' /\ L!PlacedKnowingly'
        /\ placed # "nobody" => placed' # "nobody"
        /\ held # "nobody" => held' # "nobody"
    BY <1>5, <2>1, <2>2, <2>4, LandsHistory DEF L!MutateAnswered
  <2>6. PlanHistory'
    BY <2>2, <2>3, <2>5 DEF PlanHistory, Remembers, Outstanding, L!Warns
  <2>7. QED
    BY <2>5, <2>6
<1>6. ASSUME NEW c \in Callers, NEW e, L!MutateFailed(c, e) PROVE OrderHistory' /\ PlanHistory' /\ L!PlacedKnowingly'
  <2>1. UNCHANGED <<order, held, placed>> /\ UNCHANGED <<offers, warned>>
    BY <1>6 DEF L!MutateFailed
  <2>2. OrderHistory' /\ L!PlacedKnowingly'
    BY <2>1 DEF OrderHistory, L!PlacedKnowingly, Remembers
  <2>3. /\ L!Sent' = L!Sent /\ c \in L!Sent /\ requests[c] \in L!Request
        /\ requests'[c] = [requests[c] EXCEPT !.open = e # "rejected",
                            !.report = IF L!DefiniteRejection(e) THEN "rejected" ELSE "sent"]
        /\ \A d \in Callers : d # c => requests'[d] = requests[d]
    BY <1>6, FailedRequest DEF L!MutateFailed, RequestsFollowCalls, L!Sent, LifecycleTypes
  <2>4. \A d \in L!Sent : requests'[d].plan = requests[d].plan
    BY <2>3 DEF L!Request, L!Sent
  <2>5. \A d \in Callers : stage'[d] # "idle" => stage[d] # "idle" /\ plan'[d] = plan[d]
    BY <1>6 DEF L!MutateFailed, L!Return, L!Goto, LifecycleTypes
  <2>6. PlanHistory'
    BY <2>1, <2>3, <2>4, <2>5 DEF PlanHistory, Remembers, Outstanding, L!Warns
  <2>7. QED
    BY <2>2, <2>6
<1>7. ASSUME NEW c \in Callers, L!LandsLate(c) PROVE OrderHistory' /\ PlanHistory' /\ L!PlacedKnowingly'
  <2>1. c \in L!Sent /\ requests[c] \in L!Request /\ Sound(requests[c].plan)
    BY <1>7 DEF L!LandsLate, RequestsFollowCalls, LifecycleTypes, L!Sent
  <2>2. UNCHANGED <<plan, stage, offers, warned>>
    BY <1>7 DEF L!LandsLate, L!call
  <2>3. L!Sent' = L!Sent /\ \A d \in L!Sent : requests'[d].plan = requests[d].plan
    BY <1>7, <2>1, LandingTypes, LandingFields, UntouchedRequests DEF L!LandsLate
  <2>4. /\ Remembers(requests[c].plan) /\ (L!Warns(requests[c].plan) => warned)
        /\ requests[c].plan.action \in L!Actions
    BY <2>1 DEF PlanHistory, L!Plan, L!Request
  <2>5. /\ OrderHistory' /\ L!PlacedKnowingly'
        /\ placed # "nobody" => placed' # "nobody"
        /\ held # "nobody" => held' # "nobody"
    BY <1>7, <2>1, <2>2, <2>4, LandsHistory DEF L!LandsLate, Sound
  <2>6. PlanHistory'
    BY <2>2, <2>3, <2>5 DEF PlanHistory, Remembers, Outstanding, L!Warns
  <2>7. QED
    BY <2>5, <2>6
<1>8. ASSUME NEW c \in Callers, L!Refresh(c) PROVE OrderHistory' /\ PlanHistory' /\ L!PlacedKnowingly'
  <2>1. UNCHANGED <<order, held, placed>> /\ UNCHANGED <<offers, warned>>
    BY <1>8 DEF L!Refresh
  <2>2. OrderHistory' /\ L!PlacedKnowingly'
    BY <2>1 DEF OrderHistory, L!PlacedKnowingly, Remembers
  <2>3. /\ L!Sent' = L!Sent /\ c \in L!Sent /\ requests[c] \in L!Request
        /\ \E x \in {"unknown", "ok", "recovered"} : requests'[c] = [requests[c] EXCEPT !.report = x]
        /\ \A d \in Callers : d # c => requests'[d] = requests[d]
    BY <1>8, RefreshedRequest DEF L!Refresh, RequestsFollowCalls, L!Sent, LifecycleTypes
  <2>4. \A d \in L!Sent : requests'[d].plan = requests[d].plan
    BY <2>3 DEF L!Request, L!Sent
  <2>5. \A d \in Callers : stage'[d] # "idle" => stage[d] # "idle" /\ plan'[d] = plan[d]
    BY <1>8 DEF L!Refresh, L!Return, L!Goto, LifecycleTypes
  <2>6. PlanHistory'
    BY <2>1, <2>3, <2>4, <2>5 DEF PlanHistory, Remembers, Outstanding, L!Warns
  <2>7. QED
    BY <2>2, <2>6
<1>9. ASSUME NEW a \in L!Actions, L!Void(a) PROVE OrderHistory' /\ PlanHistory' /\ L!PlacedKnowingly'
  <2>1. UNCHANGED <<order, held, placed>> /\ UNCHANGED <<requests, stage, plan, warned>>
    BY <1>9 DEF L!Void, L!call
  <2>2. OrderHistory' /\ L!PlacedKnowingly'
    BY <2>1 DEF OrderHistory, L!PlacedKnowingly, Remembers
  <2>3. \A x \in L!Actions : offers'[x] \in {offers[x], L!NoPlan}
    BY <1>9 DEF L!Void, LifecycleTypes
  <2>4. PlanHistory'
    BY <2>1, <2>3 DEF PlanHistory, Remembers, Outstanding, L!Warns, L!Sent
  <2>5. QED
    BY <2>2, <2>4
<1>10. ASSUME L!ForeignStep PROVE OrderHistory' /\ PlanHistory' /\ L!PlacedKnowingly'
  <2>1. UNCHANGED <<plan, stage, offers, warned>>
    BY <1>10 DEF L!ForeignStep, L!call
  <2>2. L!Sent' = L!Sent /\ \A d \in L!Sent : requests'[d].plan = requests[d].plan
    BY <1>10, ForeignTypes, UntouchedRequests DEF L!Sent
  <2>3. /\ OrderHistory' /\ L!PlacedKnowingly'
        /\ placed # "nobody" => placed' # "nobody"
        /\ held # "nobody" => held' # "nobody"
    <3>1. ASSUME NEW a \in L!Actions, L!Lands([action |-> a], "others")
          PROVE  /\ OrderHistory' /\ L!PlacedKnowingly'
                 /\ placed # "nobody" => placed' # "nobody"
                 /\ held # "nobody" => held' # "nobody"
      BY <2>1, <3>1, LandsHistory
    <3>2. CASE /\ order.status = "placed" /\ UNCHANGED <<held, placed>>
               /\ order' \in {[order EXCEPT !.received = TRUE], [order EXCEPT !.status = "complete"]}
      <4>1. order'.status \in {"placed", "complete"}
        BY <3>2 DEF LifecycleTypes, L!Order
      <4>2. QED
        BY <2>1, <3>2, <4>1 DEF OrderHistory, Remembers, L!PlacedKnowingly
    <3>3. QED
      BY <1>10, <3>1, <3>2 DEF L!ForeignStep
  <2>4. PlanHistory'
    BY <2>1, <2>2, <2>3 DEF PlanHistory, Remembers, Outstanding, L!Warns
  <2>5. QED
    BY <2>3, <2>4
<1>11. QED
  BY <1>1, <1>2, <1>3, <1>4, <1>5, <1>6, <1>7, <1>8, <1>9, <1>10 DEF L!Next

\* Together, and from the start.
LEMMA LifecycleStep ==
  ASSUME LifecycleInv, L!Next
  PROVE  LifecycleInv'
BY LifecycleTypesStep, LifecycleLedgerStep, RequestsFollowStep, OutcomesStep, HistoryStep DEF LifecycleInv

LEMMA LifecycleStart ==
  ASSUME L!Init
  PROVE  LifecycleInv
<1>1. LifecycleTypes
  <2>1. order \in L!Order
    <3>1. PICK x \in {"pending", "placed"} : order = [status |-> x, received |-> FALSE]
      BY DEF L!Init
    <3>2. QED
      BY <3>1 DEF L!Order, L!Statuses
  <2>2. {held, placed} \subseteq {"nobody", "a tool", "others"} /\ warned \in BOOLEAN
    BY DEF L!Init
  <2>3. QED
    BY <2>1, <2>2 DEF L!Init, LifecycleTypes
<1>2. L!Sent = {} /\ Outstanding = {}
  BY DEF L!Init, L!Sent, Outstanding
<1>3. LifecycleLedger
  BY <1>2, FS_EmptySet DEF LifecycleLedger, L!Init
<1>4. RequestsFollowCalls /\ RequestsAreFresh
  BY <1>2 DEF L!Init, RequestsFollowCalls, RequestsAreFresh
<1>5. OrderHistory
  BY DEF L!Init, OrderHistory, Remembers
<1>6. PlanHistory /\ L!RejectedMeansUntouched /\ L!OrphansOnlyInWindow /\ L!PlacedKnowingly
  BY <1>2 DEF L!Init, PlanHistory, L!RejectedMeansUntouched, L!OrphansOnlyInWindow, L!PlacedKnowingly
<1>7. QED
  BY <1>1, <1>3, <1>4, <1>5, <1>6 DEF LifecycleInv

-----------------------------------------------------------------------------
(* The receipt of a purchase order.                                         *)

\* What may become of an order.
Grown == \A l \in Lines : order'.lines[l].received >= order.lines[l].received
StaysComplete == order.status = "complete" => order'.status = "complete"

LEMMA OrderFields ==
  ASSUME order \in R!Order
  PROVE  /\ order.status \in {"placed", "complete", "closed"}
         /\ order.lines \in [Lines -> R!Line]
         /\ \A l \in Lines : /\ order.lines[l] \in R!Line
                             /\ order.lines[l].ordered \in Nat /\ order.lines[l].received \in Nat
<1>1. order.status \in {"placed", "complete", "closed"} /\ order.lines \in [Lines -> R!Line]
  BY DEF R!Order
<1>2. \A l \in Lines : order.lines[l] \in R!Line
  BY <1>1
<1>3. \A l \in Lines : order.lines[l].ordered \in Nat /\ order.lines[l].received \in Nat
  BY <1>2, SMTT(30) DEF R!Line
<1>4. QED
  BY <1>1, <1>2, <1>3

\* A receipt adds to its lines what it is for, and is recorded with what had changed.
LEMMA Receipt ==
  ASSUME order \in R!Order, DOMAIN requests = Callers, NEW c \in Callers, R!Lands(c),
         IsRequest(requests[c]), Planned(requests[c].plan)
  PROVE  /\ order' \in R!Order /\ Grown /\ order.status = "placed"
         /\ \A l \in DOMAIN requests[c].plan.items :
              order'.lines[l].received = order.lines[l].received + requests[c].plan.items[l]
         /\ IsRequest(requests'[c]) /\ DOMAIN requests' = Callers
         /\ requests'[c].plan = requests[c].plan /\ requests'[c].report = requests[c].report
         /\ requests'[c].landed
         /\ requests'[c].raced = (\E l \in DOMAIN requests[c].plan.items :
              order.lines[l] # requests[c].plan.seen[l])
         /\ requests'[c].over = (\E l \in DOMAIN requests[c].plan.items :
              order.lines[l].received + requests[c].plan.items[l] > order.lines[l].ordered)
         /\ \A d \in Callers : d # c => requests'[d] = requests[d]
<1> DEFINE p == requests[c].plan
           n(l) == IF l \in DOMAIN p.items THEN p.items[l] ELSE 0
           lines == [l \in Lines |-> [order.lines[l] EXCEPT !.received = @ + n(l)]]
           raced == \E l \in DOMAIN p.items : order.lines[l] # p.seen[l]
           over == \E l \in DOMAIN p.items : lines[l].received > lines[l].ordered
<1>1. /\ order.status = "placed"
      /\ order' \in {[status |-> x, lines |-> lines] : x \in {"placed", "complete"}}
      /\ requests' = [requests EXCEPT ![c].landed = TRUE, ![c].open = FALSE,
                                      ![c].raced = raced, ![c].over = over]
  BY DEF R!Lands
<1>2. \A l \in Lines : n(l) \in Nat
  BY DEF Planned
<1>3. \A l \in Lines : /\ lines[l] \in R!Line /\ lines[l].ordered = order.lines[l].ordered
                       /\ lines[l].received = order.lines[l].received + n(l)
  BY <1>2, OrderFields DEF R!Line
<1>4. order'.lines = lines /\ order' \in R!Order
  <2>1. lines \in [Lines -> R!Line]
    BY <1>3, SMTT(30)
  <2>2. PICK x \in {"placed", "complete"} : order' = [status |-> x, lines |-> lines]
    BY <1>1
  <2> HIDE DEF lines
  <2>3. QED
    BY <2>1, <2>2 DEF R!Order
<1>5. Grown
  BY <1>2, <1>3, <1>4, OrderFields DEF Grown
<1>6. DOMAIN p.items \subseteq Lines
  BY DEF Planned
<1>7. over = (\E l \in DOMAIN p.items : order.lines[l].received + p.items[l] > order.lines[l].ordered)
  <2>1. \A l \in DOMAIN p.items : /\ lines[l].ordered = order.lines[l].ordered
                                  /\ lines[l].received = order.lines[l].received + p.items[l]
    BY <1>3, <1>6
  <2> HIDE DEF lines
  <2>2. QED
    BY <2>1
<1>8. \A l \in DOMAIN p.items : order'.lines[l].received = order.lines[l].received + p.items[l]
  BY <1>3, <1>4, <1>6
<1>9. raced \in BOOLEAN /\ over \in BOOLEAN
  OBVIOUS
<1> HIDE DEF raced, over, lines
<1>10. /\ requests'[c] = [requests[c] EXCEPT !.landed = TRUE, !.open = FALSE, !.raced = raced, !.over = over]
       /\ DOMAIN requests' = Callers
       /\ \A d \in Callers : d # c => requests'[d] = requests[d]
  BY <1>1
<1>11. requests'[c] = [plan |-> requests[c].plan, landed |-> TRUE, open |-> FALSE, raced |-> raced,
                       over |-> over, report |-> requests[c].report]
  BY <1>10 DEF IsRequest
<1>12. IsRequest(requests'[c])
  BY <1>9, <1>11 DEF IsRequest
<1>13. /\ requests'[c].plan = requests[c].plan /\ requests'[c].report = requests[c].report
       /\ requests'[c].landed /\ requests'[c].raced = raced /\ requests'[c].over = over
  BY <1>11
<1>14. QED
  BY <1>1, <1>4, <1>5, <1>7, <1>8, <1>10, <1>12, <1>13 DEF raced

\* Filling in what was read leaves a plan what it was.
LEMMA PlanChanges ==
  ASSUME NEW p, Planned(p), NEW x
  PROVE  /\ Planned([p EXCEPT !.all = x]) /\ [p EXCEPT !.all = x].items = p.items
         /\ [p EXCEPT !.all = x].seen = p.seen /\ [p EXCEPT !.all = x].complete = p.complete
         /\ [p EXCEPT !.seen = x] = R!Plan(p.items, p.complete, x, p.all)
<1>1. p = [items |-> p.items, complete |-> p.complete, seen |-> p.seen, all |-> p.all]
  BY DEF Planned, R!Plan
<1> DEFINE q == [items |-> p.items, complete |-> p.complete, seen |-> p.seen, all |-> x]
<1>2. [p EXCEPT !.all = x] = q
  BY <1>1
<1>3. q.items = p.items /\ q.seen = p.seen /\ q.complete = p.complete /\ q.all = x
  OBVIOUS
<1>4. q = R!Plan(q.items, q.complete, q.seen, q.all)
  BY DEF R!Plan
<1>5. [p EXCEPT !.seen = x] = R!Plan(p.items, p.complete, x, p.all)
  BY <1>1 DEF R!Plan
<1> HIDE DEF q
<1>6. QED
  BY <1>2, <1>3, <1>4, <1>5 DEF Planned

\* A call that returns has no plan any more.
LEMMA ReceiptReturns ==
  ASSUME ReceiptTypes, NEW c \in Callers, R!Return(c)
  PROVE  /\ DOMAIN stage' = Callers /\ DOMAIN mode' = Callers /\ DOMAIN plan' = Callers
         /\ stage'[c] = "idle"
         /\ \A d \in Callers : d # c => stage'[d] = stage[d] /\ plan'[d] = plan[d]
BY DEF ReceiptTypes, R!Return, R!Goto

\* One that goes on has the plan it goes on with.
LEMMA ReceiptGoesOn ==
  ASSUME ReceiptTypes, NEW c \in Callers, NEW x, NEW p, R!Goto(c, x),
         plan' = plan \/ plan' = [plan EXCEPT ![c] = p]
  PROVE  /\ DOMAIN stage' = Callers /\ DOMAIN plan' = Callers
         /\ stage'[c] = x /\ plan'[c] \in {plan[c], p}
         /\ \A d \in Callers : d # c => stage'[d] = stage[d] /\ plan'[d] = plan[d]
BY DEF ReceiptTypes, R!Goto

\* An order grows, and once complete stays so.
LEMMA OrderStep ==
  ASSUME ReceiptTypes, ReceiptsFollowCalls, R!Next
  PROVE  order' \in R!Order /\ Grown /\ StaysComplete
<1>1. ASSUME NEW c \in Callers, NEW m, NEW i \in Inputs, R!ReadOrder(c, m, i) PROVE order' \in R!Order /\ Grown /\ StaysComplete
  <2>1. order' = order
    BY <1>1 DEF R!ReadOrder
  <2>2. QED
    BY <2>1, OrderFields DEF ReceiptTypes, Grown, StaysComplete
<1>2. ASSUME NEW c \in Callers, NEW l \in Lines, R!ReadLine(c, l) PROVE order' \in R!Order /\ Grown /\ StaysComplete
  <2>1. order' = order
    BY <1>2 DEF R!ReadLine
  <2>2. QED
    BY <2>1, OrderFields DEF ReceiptTypes, Grown, StaysComplete
<1>3. ASSUME NEW c \in Callers, R!ScanLines(c) PROVE order' \in R!Order /\ Grown /\ StaysComplete
  <2>1. order' = order
    BY <1>3 DEF R!ScanLines
  <2>2. QED
    BY <2>1, OrderFields DEF ReceiptTypes, Grown, StaysComplete
<1>4. ASSUME NEW c \in Callers, R!Issue(c) PROVE order' \in R!Order /\ Grown /\ StaysComplete
  <2>1. order' = order
    BY <1>4 DEF R!Issue
  <2>2. QED
    BY <2>1, OrderFields DEF ReceiptTypes, Grown, StaysComplete
<1>5. ASSUME NEW c \in Callers, R!Confirm(c) PROVE order' \in R!Order /\ Grown /\ StaysComplete
  <2>1. order' = order
    BY <1>5 DEF R!Confirm
  <2>2. QED
    BY <2>1, OrderFields DEF ReceiptTypes, Grown, StaysComplete
<1>6. ASSUME NEW c \in Callers, R!ReceiveAnswered(c) PROVE order' \in R!Order /\ Grown /\ StaysComplete
  <2>1. c \in R!Sent /\ R!Lands(c)
    BY <1>6 DEF R!ReceiveAnswered, ReceiptsFollowCalls
  <2>2. QED
    BY <2>1, Receipt DEF ReceiptsFollowCalls, ReceiptTypes, StaysComplete, R!Sent
<1>7. ASSUME NEW c \in Callers, NEW e, R!ReceiveFailed(c, e) PROVE order' \in R!Order /\ Grown /\ StaysComplete
  <2>1. order' = order
    BY <1>7 DEF R!ReceiveFailed
  <2>2. QED
    BY <2>1, OrderFields DEF ReceiptTypes, Grown, StaysComplete
<1>8. ASSUME NEW c \in Callers, R!LandsLate(c) PROVE order' \in R!Order /\ Grown /\ StaysComplete
  <2>1. c \in R!Sent /\ R!Lands(c)
    BY <1>8 DEF R!LandsLate, R!Sent
  <2>2. QED
    BY <2>1, Receipt DEF ReceiptsFollowCalls, ReceiptTypes, StaysComplete, R!Sent
<1>9. ASSUME NEW c \in Callers, R!Refresh(c) PROVE order' \in R!Order /\ Grown /\ StaysComplete
  <2>1. order' = order
    BY <1>9 DEF R!Refresh
  <2>2. QED
    BY <2>1, OrderFields DEF ReceiptTypes, Grown, StaysComplete
<1>10. ASSUME NEW c \in Callers, R!CompleteOrder(c) PROVE order' \in R!Order /\ Grown /\ StaysComplete
  <2>1. order' = order \/ order' = [order EXCEPT !.status = "complete"]
    BY <1>10 DEF R!CompleteOrder
  <2>2. order \in R!Order
    BY DEF ReceiptTypes
  <2>3. order' \in R!Order /\ order'.lines = order.lines
        /\ (order'.status = order.status \/ order'.status = "complete")
    BY <2>1, <2>2 DEF R!Order
  <2>4. QED
    BY <2>2, <2>3, OrderFields DEF Grown, StaysComplete
<1>11. ASSUME NEW c \in Callers, R!ReadBack(c) PROVE order' \in R!Order /\ Grown /\ StaysComplete
  <2>1. order' = order
    BY <1>11 DEF R!ReadBack
  <2>2. QED
    BY <2>1, OrderFields DEF ReceiptTypes, Grown, StaysComplete
<1>12. ASSUME R!ForeignStep PROVE order' \in R!Order /\ Grown /\ StaysComplete
  <2>1. order \in R!Order /\ order.status = "placed"
    BY <1>12 DEF R!ForeignStep, ReceiptTypes
  <2>2. ASSUME NEW l \in Lines, order' = [order EXCEPT !.lines[l].received = @ + 1]
        PROVE  order' \in R!Order /\ Grown
    <3> DEFINE x == [order.lines[l] EXCEPT !.received = @ + 1]
    <3>1. x \in R!Line /\ x.received = order.lines[l].received + 1
      BY <2>1, OrderFields DEF R!Line
    <3>2. order' = [order EXCEPT !.lines = [order.lines EXCEPT ![l] = x]]
      BY <2>1, <2>2 DEF R!Order
    <3> HIDE DEF x
    <3>3. order'.lines = [order.lines EXCEPT ![l] = x] /\ order'.status = order.status
          /\ order' = [status |-> order'.status, lines |-> order'.lines]
      BY <2>1, <3>2 DEF R!Order
    <3>4. order'.lines \in [Lines -> R!Line]
      BY <2>1, <3>1, <3>3, OrderFields
    <3>5. order' \in R!Order
      BY <2>1, <3>3, <3>4 DEF R!Order
    <3>6. QED
      BY <2>1, <3>1, <3>3, <3>5, OrderFields DEF Grown
  <2>3. ASSUME NEW l \in Lines, order.lines[l].ordered > 1,
               order' = [order EXCEPT !.lines[l].ordered = @ - 1]
        PROVE  order' \in R!Order /\ Grown
    <3> DEFINE x == [order.lines[l] EXCEPT !.ordered = @ - 1]
    <3>1. x \in R!Line /\ x.received = order.lines[l].received
      BY <2>1, <2>3, OrderFields DEF R!Line
    <3>2. order' = [order EXCEPT !.lines = [order.lines EXCEPT ![l] = x]]
      BY <2>1, <2>3 DEF R!Order
    <3> HIDE DEF x
    <3>3. order'.lines = [order.lines EXCEPT ![l] = x] /\ order'.status = order.status
          /\ order' = [status |-> order'.status, lines |-> order'.lines]
      BY <2>1, <3>2 DEF R!Order
    <3>4. order'.lines \in [Lines -> R!Line]
      BY <2>1, <3>1, <3>3, OrderFields
    <3>5. order' \in R!Order
      BY <2>1, <3>3, <3>4 DEF R!Order
    <3>6. QED
      BY <2>1, <3>1, <3>3, <3>5, OrderFields DEF Grown
  <2>4. ASSUME NEW x \in {"complete", "closed"}, order' = [order EXCEPT !.status = x]
        PROVE  order' \in R!Order /\ Grown
    <3>1. order' \in R!Order /\ order'.lines = order.lines
      BY <2>1, <2>4 DEF R!Order
    <3>2. QED
      BY <2>1, <3>1, OrderFields DEF Grown
  <2>5. StaysComplete
    BY <2>1 DEF StaysComplete
  <2>6. QED
    BY <1>12, <2>2, <2>3, <2>4, <2>5 DEF R!ForeignStep
<1>13. QED
  BY <1>1, <1>2, <1>3, <1>4, <1>5, <1>6, <1>7, <1>8, <1>9, <1>10, <1>11, <1>12 DEF R!Next

\* A call's plan is what it read so far.
PlansStay ==
  /\ DOMAIN stage' = Callers /\ DOMAIN plan' = Callers
  /\ \A d \in Callers : stage'[d] # "idle" => Planned(plan'[d])
  /\ \A d \in Callers : stage'[d] \notin {"idle", "lines"} => ReadOut(plan'[d])

\* So it is after every step.
LEMMA PlansStep ==
  ASSUME ReceiptTypes, R!Next
  PROVE  PlansStay
<1>1. ASSUME NEW c \in Callers, NEW m, NEW i \in Inputs, R!ReadOrder(c, m, i) PROVE PlansStay
  <2> DEFINE p == R!Plan(i.items, i.complete, <<>>, <<>>)
  <2>1. R!Goto(c, "lines") /\ plan' = [plan EXCEPT ![c] = p]
    BY <1>1 DEF R!ReadOrder
  <2>2. p.items = i.items /\ p.complete = i.complete /\ p.seen = <<>> /\ p.all = <<>>
    BY DEF R!Plan
  <2>3. i.complete \in BOOLEAN /\ \E k \in (SUBSET Lines) \ {{}} : i.items \in [k -> Nat \ {0}]
    BY ReceiptAssumption DEF R!IsInput
  <2>4. DOMAIN i.items \in (SUBSET Lines) \ {{}} /\ \A l \in DOMAIN i.items : i.items[l] \in Nat \ {0}
    BY <2>3
  <2>5. p = R!Plan(p.items, p.complete, p.seen, p.all)
    BY <2>2
  <2> HIDE DEF p
  <2>6. Planned(p)
    BY <2>2, <2>3, <2>4, <2>5 DEF Planned
  <2>7. plan'[c] = p
    BY <2>1 DEF ReceiptTypes
  <2>8. QED
    BY <2>1, <2>6, <2>7, ReceiptGoesOn DEF PlansStay, ReceiptTypes
<1>2. ASSUME NEW c \in Callers, NEW l \in Lines, R!ReadLine(c, l) PROVE PlansStay
  <2> DEFINE p == plan[c]
             seen == [k \in DOMAIN p.seen \cup {l} |-> IF k = l THEN order.lines[l] ELSE p.seen[k]]
             q == [p EXCEPT !.seen = seen]
  <2>1. stage[c] = "lines" /\ l \in DOMAIN p.items /\ Planned(p)
    BY <1>2 DEF R!ReadLine, ReceiptTypes
  <2>2. CASE R!Return(c)
    BY <2>2, ReceiptReturns DEF PlansStay, ReceiptTypes
  <2>3. CASE ~R!Return(c)
    <3>1. /\ ~R!Excessive(order.lines[l], p.items[l])
          /\ plan' = [plan EXCEPT ![c].seen = seen]
          /\ R!Goto(c, IF DOMAIN seen # DOMAIN p.items THEN "lines"
                       ELSE IF p.complete THEN "scan" ELSE "planned")
      BY <1>2, <2>3 DEF R!ReadLine
    <3>2. plan' = [plan EXCEPT ![c] = q]
      BY <3>1 DEF ReceiptTypes
    <3>3. q = R!Plan(p.items, p.complete, seen, p.all)
      BY <2>1, PlanChanges
    <3>4. /\ DOMAIN seen \subseteq DOMAIN p.items
          /\ \A k \in DOMAIN seen : seen[k] \in R!Line /\ ~R!Excessive(seen[k], p.items[k])
      BY <2>1, <3>1, OrderFields DEF Planned, ReceiptTypes
    <3> HIDE DEF q, seen
    <3>5. q.items = p.items /\ q.complete = p.complete /\ q.seen = seen /\ q.all = p.all
      BY <3>3 DEF R!Plan
    <3>6. Planned(q)
      BY <2>1, <3>3, <3>4, <3>5 DEF Planned
    <3>7. plan'[c] = q /\ DOMAIN plan' = Callers /\ DOMAIN stage' = Callers
          /\ \A d \in Callers : d # c => plan'[d] = plan[d] /\ stage'[d] = stage[d]
      BY <3>1, <3>2 DEF ReceiptTypes, R!Goto
    <3>8. stage'[c] \notin {"idle", "lines"} => DOMAIN seen = DOMAIN p.items
      BY <3>1 DEF ReceiptTypes, R!Goto
    <3>9. QED
      BY <3>5, <3>6, <3>7, <3>8 DEF PlansStay, ReceiptTypes, ReadOut
  <2>4. QED
    BY <2>2, <2>3
<1>3. ASSUME NEW c \in Callers, R!ScanLines(c) PROVE PlansStay
  <2> DEFINE q == [plan[c] EXCEPT !.all = order.lines]
  <2>1. stage[c] = "scan" /\ Planned(plan[c]) /\ ReadOut(plan[c])
    BY <1>3 DEF R!ScanLines, ReceiptTypes
  <2>2. Planned(q) /\ ReadOut(q)
    BY <2>1, PlanChanges DEF ReadOut
  <2>3. CASE R!Return(c)
    BY <2>3, ReceiptReturns DEF PlansStay, ReceiptTypes
  <2>4. CASE ~R!Return(c)
    <3>1. R!Goto(c, "planned") /\ plan' = [plan EXCEPT ![c].all = order.lines]
      BY <1>3, <2>4 DEF R!ScanLines
    <3>2. plan' = [plan EXCEPT ![c] = q]
      BY <3>1 DEF ReceiptTypes
    <3> HIDE DEF q
    <3>3. plan'[c] = q
      BY <3>2 DEF ReceiptTypes
    <3>4. QED
      BY <2>2, <3>1, <3>2, <3>3, ReceiptGoesOn DEF PlansStay, ReceiptTypes
  <2>5. QED
    BY <2>3, <2>4
<1>4. ASSUME NEW c \in Callers, R!Issue(c) PROVE PlansStay
  <2>1. R!Return(c)
    BY <1>4 DEF R!Issue
  <2>2. QED
    BY <2>1, ReceiptReturns DEF PlansStay, ReceiptTypes
<1>5. ASSUME NEW c \in Callers, R!Confirm(c) PROVE PlansStay
  <2>1. \/ R!Return(c)
        \/ R!Goto(c, "receiving") /\ plan' = plan
    BY <1>5 DEF R!Confirm
  <2>2. stage[c] \notin {"idle", "lines"}
    BY <1>5 DEF R!Confirm
  <2>3. CASE R!Return(c)
    BY <2>3, ReceiptReturns DEF PlansStay, ReceiptTypes
  <2>4. CASE R!Goto(c, "receiving") /\ plan' = plan
    BY <2>2, <2>4, ReceiptGoesOn DEF PlansStay, ReceiptTypes
  <2>5. QED
    BY <2>1, <2>3, <2>4
<1>6. ASSUME NEW c \in Callers, R!ReceiveAnswered(c) PROVE PlansStay
  <2>1. \/ R!Return(c)
        \/ R!Goto(c, "refreshing") /\ plan' = plan
    BY <1>6 DEF R!ReceiveAnswered
  <2>2. stage[c] \notin {"idle", "lines"}
    BY <1>6 DEF R!ReceiveAnswered
  <2>3. CASE R!Return(c)
    BY <2>3, ReceiptReturns DEF PlansStay, ReceiptTypes
  <2>4. CASE R!Goto(c, "refreshing") /\ plan' = plan
    BY <2>2, <2>4, ReceiptGoesOn DEF PlansStay, ReceiptTypes
  <2>5. QED
    BY <2>1, <2>3, <2>4
<1>7. ASSUME NEW c \in Callers, NEW e, R!ReceiveFailed(c, e) PROVE PlansStay
  <2>1. R!Return(c)
    BY <1>7 DEF R!ReceiveFailed
  <2>2. QED
    BY <2>1, ReceiptReturns DEF PlansStay, ReceiptTypes
<1>8. ASSUME NEW c \in Callers, R!LandsLate(c) PROVE PlansStay
  <2>1. UNCHANGED <<stage, plan>>
    BY <1>8 DEF R!LandsLate, R!call
  <2>2. QED
    BY <2>1 DEF PlansStay, ReceiptTypes
<1>9. ASSUME NEW c \in Callers, R!Refresh(c) PROVE PlansStay
  <2>1. \/ R!Return(c)
        \/ R!Goto(c, "completing") /\ plan' = plan
    BY <1>9 DEF R!Refresh
  <2>2. stage[c] \notin {"idle", "lines"}
    BY <1>9 DEF R!Refresh
  <2>3. CASE R!Return(c)
    BY <2>3, ReceiptReturns DEF PlansStay, ReceiptTypes
  <2>4. CASE R!Goto(c, "completing") /\ plan' = plan
    BY <2>2, <2>4, ReceiptGoesOn DEF PlansStay, ReceiptTypes
  <2>5. QED
    BY <2>1, <2>3, <2>4
<1>10. ASSUME NEW c \in Callers, R!CompleteOrder(c) PROVE PlansStay
  <2>1. \/ R!Return(c)
        \/ R!Goto(c, "reading") /\ plan' = plan
    BY <1>10 DEF R!CompleteOrder
  <2>2. stage[c] \notin {"idle", "lines"}
    BY <1>10 DEF R!CompleteOrder
  <2>3. CASE R!Return(c)
    BY <2>3, ReceiptReturns DEF PlansStay, ReceiptTypes
  <2>4. CASE R!Goto(c, "reading") /\ plan' = plan
    BY <2>2, <2>4, ReceiptGoesOn DEF PlansStay, ReceiptTypes
  <2>5. QED
    BY <2>1, <2>3, <2>4
<1>11. ASSUME NEW c \in Callers, R!ReadBack(c) PROVE PlansStay
  <2>1. R!Return(c)
    BY <1>11 DEF R!ReadBack
  <2>2. QED
    BY <2>1, ReceiptReturns DEF PlansStay, ReceiptTypes
<1>12. ASSUME R!ForeignStep PROVE PlansStay
  <2>1. UNCHANGED <<stage, plan>>
    BY <1>12 DEF R!ForeignStep, R!call
  <2>2. QED
    BY <2>1 DEF PlansStay, ReceiptTypes
<1>13. QED
  BY <1>1, <1>2, <1>3, <1>4, <1>5, <1>6, <1>7, <1>8, <1>9, <1>10, <1>11, <1>12 DEF R!Next

\* A report changes nothing else of a request.
SameBut(r, q, x) ==
  /\ r # R!NoPlan /\ q # R!NoPlan /\ IsRequest(q)
  /\ q.plan = r.plan /\ q.landed = r.landed /\ q.raced = r.raced /\ q.over = r.over
  /\ q.report = x

LEMMA ReportFields ==
  ASSUME NEW r, IsRequest(r), NEW x, NEW b,
         NEW q, q = [r EXCEPT !.report = x] \/ q = [r EXCEPT !.open = b, !.report = x]
  PROVE  SameBut(r, q, x)
<1>1. r = [plan |-> r.plan, landed |-> r.landed, open |-> r.open, raced |-> r.raced,
           over |-> r.over, report |-> r.report]
      /\ r.landed \in BOOLEAN /\ r.raced \in BOOLEAN /\ r.over \in BOOLEAN
  BY DEF IsRequest
<1>2. DOMAIN q = DOMAIN r /\ q.plan = r.plan /\ q.landed = r.landed /\ q.raced = r.raced
      /\ q.over = r.over /\ q.report = x
  BY <1>1
<1>3. q = [plan |-> q.plan, landed |-> q.landed, open |-> q.open, raced |-> q.raced,
           over |-> q.over, report |-> q.report]
  BY <1>1, <1>2
<1>4. r # R!NoPlan /\ q # R!NoPlan
  BY <1>1, <1>3 DEF R!NoPlan
<1>5. QED
  BY <1>1, <1>2, <1>3, <1>4 DEF IsRequest, SameBut

\* A confirmation that is accepted sends what a dry run answered.
LEMMA Confirming ==
  ASSUME ReceiptTypes, NEW c \in Callers, R!Confirm(c), ~R!Return(c)
  PROVE  /\ stage[c] = "planned" /\ plan[c] \in offers /\ R!Goto(c, "receiving") /\ plan' = plan
         /\ requests'[c].plan = plan[c] /\ requests'[c].report = "sent" /\ ~requests'[c].landed
         /\ IsRequest(requests'[c]) /\ requests'[c] # R!NoPlan
         /\ DOMAIN requests' = Callers /\ \A d \in Callers : d # c => requests'[d] = requests[d]
<1> DEFINE r == [plan |-> plan[c], landed |-> FALSE, open |-> FALSE, raced |-> FALSE,
                 over |-> FALSE, report |-> "sent"]
<1>1. /\ stage[c] = "planned" /\ plan[c] \in offers /\ R!Goto(c, "receiving") /\ plan' = plan
      /\ requests' = [requests EXCEPT ![c] = r]
  BY DEF R!Confirm, R!receivePlanHash
<1>2. r.plan = plan[c] /\ r.report = "sent" /\ ~r.landed /\ IsRequest(r) /\ r # R!NoPlan
  BY DEF IsRequest, R!NoPlan
<1> HIDE DEF r
<1>3. /\ requests'[c] = r /\ DOMAIN requests' = Callers
      /\ \A d \in Callers : d # c => requests'[d] = requests[d]
  BY <1>1 DEF ReceiptTypes
<1>4. QED
  BY <1>1, <1>2, <1>3

\* What a step other than a confirmation makes of the requests.
RequestKept(d) ==
  \/ requests'[d] = requests[d]
  \/ /\ IsRequest(requests[d]) /\ IsRequest(requests'[d]) /\ requests'[d].plan = requests[d].plan
     /\ requests[d].landed => requests'[d].landed

\* A request on record keeps its plan.
LEMMA RequestsKept ==
  ASSUME ReceiptTypes, ReceiptsFollowCalls, R!Next,
         \A c \in Callers : ~R!Confirm(c)
  PROVE  DOMAIN requests' = Callers /\ \A d \in Callers : RequestKept(d)
<1>1. ASSUME NEW c \in Callers, NEW m, NEW i \in Inputs, R!ReadOrder(c, m, i) PROVE DOMAIN requests' = Callers /\ \A d \in Callers : RequestKept(d)
  <2>1. requests' = requests
    BY <1>1 DEF R!ReadOrder
  <2>2. QED
    BY <2>1 DEF RequestKept, ReceiptTypes
<1>2. ASSUME NEW c \in Callers, NEW l \in Lines, R!ReadLine(c, l) PROVE DOMAIN requests' = Callers /\ \A d \in Callers : RequestKept(d)
  <2>1. requests' = requests
    BY <1>2 DEF R!ReadLine
  <2>2. QED
    BY <2>1 DEF RequestKept, ReceiptTypes
<1>3. ASSUME NEW c \in Callers, R!ScanLines(c) PROVE DOMAIN requests' = Callers /\ \A d \in Callers : RequestKept(d)
  <2>1. requests' = requests
    BY <1>3 DEF R!ScanLines
  <2>2. QED
    BY <2>1 DEF RequestKept, ReceiptTypes
<1>4. ASSUME NEW c \in Callers, R!Issue(c) PROVE DOMAIN requests' = Callers /\ \A d \in Callers : RequestKept(d)
  <2>1. requests' = requests
    BY <1>4 DEF R!Issue
  <2>2. QED
    BY <2>1 DEF RequestKept, ReceiptTypes
<1>5. ASSUME NEW c \in Callers, R!Confirm(c) PROVE DOMAIN requests' = Callers /\ \A d \in Callers : RequestKept(d)
  BY <1>5
<1>6. ASSUME NEW c \in Callers, R!ReceiveAnswered(c) PROVE DOMAIN requests' = Callers /\ \A d \in Callers : RequestKept(d)
  <2>1. c \in R!Sent /\ R!Lands(c)
    BY <1>6 DEF R!ReceiveAnswered, ReceiptsFollowCalls, R!Sent
  <2>2. QED
    BY <2>1, Receipt DEF ReceiptsFollowCalls, ReceiptTypes, RequestKept
<1>7. ASSUME NEW c \in Callers, NEW e, R!ReceiveFailed(c, e) PROVE DOMAIN requests' = Callers /\ \A d \in Callers : RequestKept(d)
  <2>1. c \in R!Sent /\ IsRequest(requests[c])
    BY <1>7 DEF R!ReceiveFailed, ReceiptsFollowCalls
  <2>2. PICK b, x : requests' = [requests EXCEPT ![c].open = b, ![c].report = x]
    BY <1>7 DEF R!ReceiveFailed
  <2>3. /\ requests'[c] = [requests[c] EXCEPT !.open = b, !.report = x] /\ DOMAIN requests' = Callers
        /\ \A d \in Callers : d # c => requests'[d] = requests[d]
    BY <2>2 DEF ReceiptTypes
  <2>4. RequestKept(c)
    <3>1. SameBut(requests[c], requests'[c], x)
      BY <2>1, <2>3, ReportFields
    <3>2. QED
      BY <2>1, <3>1 DEF RequestKept, SameBut
  <2>5. QED
    BY <2>3, <2>4 DEF RequestKept
<1>8. ASSUME NEW c \in Callers, R!LandsLate(c) PROVE DOMAIN requests' = Callers /\ \A d \in Callers : RequestKept(d)
  <2>1. c \in R!Sent /\ R!Lands(c)
    BY <1>8 DEF R!LandsLate, ReceiptsFollowCalls, R!Sent
  <2>2. QED
    BY <2>1, Receipt DEF ReceiptsFollowCalls, ReceiptTypes, RequestKept
<1>9. ASSUME NEW c \in Callers, R!Refresh(c) PROVE DOMAIN requests' = Callers /\ \A d \in Callers : RequestKept(d)
  <2>1. c \in R!Sent /\ IsRequest(requests[c])
    BY <1>9 DEF R!Refresh, ReceiptsFollowCalls
  <2>2. CASE requests' = requests
    BY <2>2 DEF RequestKept, ReceiptTypes
  <2>3. ASSUME NEW x, requests' = [requests EXCEPT ![c].report = x]
        PROVE  DOMAIN requests' = Callers /\ \A d \in Callers : RequestKept(d)
    <3>1. /\ requests'[c] = [requests[c] EXCEPT !.report = x] /\ DOMAIN requests' = Callers
          /\ \A d \in Callers : d # c => requests'[d] = requests[d]
      BY <2>3 DEF ReceiptTypes
    <3>2. RequestKept(c)
      <4>1. SameBut(requests[c], requests'[c], x)
        BY <2>1, <3>1, ReportFields
      <4>2. QED
        BY <2>1, <4>1 DEF RequestKept, SameBut
    <3>3. QED
      BY <3>1, <3>2 DEF RequestKept
  <2>4. QED
    BY <1>9, <2>2, <2>3 DEF R!Refresh, R!Reports
<1>10. ASSUME NEW c \in Callers, R!CompleteOrder(c) PROVE DOMAIN requests' = Callers /\ \A d \in Callers : RequestKept(d)
  <2>1. requests' = requests
    BY <1>10 DEF R!CompleteOrder
  <2>2. QED
    BY <2>1 DEF RequestKept, ReceiptTypes
<1>11. ASSUME NEW c \in Callers, R!ReadBack(c) PROVE DOMAIN requests' = Callers /\ \A d \in Callers : RequestKept(d)
  <2>1. c \in R!Sent /\ IsRequest(requests[c])
    BY <1>11 DEF R!ReadBack, ReceiptsFollowCalls
  <2>2. CASE requests' = requests
    BY <2>2 DEF RequestKept, ReceiptTypes
  <2>3. ASSUME NEW x, requests' = [requests EXCEPT ![c].report = x]
        PROVE  DOMAIN requests' = Callers /\ \A d \in Callers : RequestKept(d)
    <3>1. /\ requests'[c] = [requests[c] EXCEPT !.report = x] /\ DOMAIN requests' = Callers
          /\ \A d \in Callers : d # c => requests'[d] = requests[d]
      BY <2>3 DEF ReceiptTypes
    <3>2. RequestKept(c)
      <4>1. SameBut(requests[c], requests'[c], x)
        BY <2>1, <3>1, ReportFields
      <4>2. QED
        BY <2>1, <4>1 DEF RequestKept, SameBut
    <3>3. QED
      BY <3>1, <3>2 DEF RequestKept
  <2>4. QED
    BY <1>11, <2>2, <2>3 DEF R!ReadBack, R!Reports
<1>12. ASSUME R!ForeignStep PROVE DOMAIN requests' = Callers /\ \A d \in Callers : RequestKept(d)
  <2>1. requests' = requests
    BY <1>12 DEF R!ForeignStep
  <2>2. QED
    BY <2>1 DEF RequestKept, ReceiptTypes
<1>13. QED
  BY <1>1, <1>2, <1>3, <1>4, <1>5, <1>6, <1>7, <1>8, <1>9, <1>10, <1>11, <1>12 DEF R!Next

\* Only a confirmation puts a request on record.
LEMMA SentKept ==
  ASSUME \A d \in Callers : RequestKept(d)
  PROVE  R!Sent' = R!Sent
<1>1. ASSUME NEW d \in Callers PROVE requests'[d] = R!NoPlan <=> requests[d] = R!NoPlan
  <2>1. RequestKept(d)
    OBVIOUS
  <2>2. \A r : IsRequest(r) => r # R!NoPlan
    BY DEF IsRequest, R!NoPlan
  <2>3. QED
    BY <2>1, <2>2 DEF RequestKept
<1>2. QED
  BY <1>1 DEF R!Sent

\* The requests on record were reviewed.
AllReviewed ==
  \A c \in R!Sent : IsRequest(requests[c]) /\ Planned(requests[c].plan)
                    /\ ReadOut(requests[c].plan) /\ requests[c].plan \in offers

LEMMA ReviewedStep ==
  ASSUME ReceiptTypes, ReceiptsFollowCalls, R!Next
  PROVE  /\ DOMAIN requests' = Callers /\ AllReviewed' /\ offers \subseteq offers'
         /\ \A d \in Callers : RequestKept(d) \/ (d \in R!Sent' /\ ~requests'[d].landed)
<1>1. offers \subseteq offers'
  BY DEF R!Next, R!ReadOrder, R!ReadLine, R!ScanLines, R!Issue, R!Confirm, R!ReceiveAnswered,
         R!ReceiveFailed, R!LandsLate, R!Refresh, R!CompleteOrder, R!ReadBack, R!ForeignStep
<1>2. CASE \A d \in Callers : RequestKept(d) /\ DOMAIN requests' = Callers
  <2>1. R!Sent' = R!Sent
    BY <1>2, SentKept
  <2>2. ASSUME NEW d \in R!Sent
        PROVE  IsRequest(requests'[d]) /\ requests'[d].plan = requests[d].plan
    BY <1>2 DEF RequestKept, ReceiptsFollowCalls, R!Sent
  <2>3. AllReviewed'
    BY <1>1, <2>1, <2>2 DEF AllReviewed, ReceiptsFollowCalls
  <2>4. DOMAIN requests' = Callers
    <3>1. CASE Callers = {}
      BY <3>1, RequestsKept
    <3>2. CASE Callers # {}
      BY <1>2, <3>2
    <3>3. QED
      BY <3>1, <3>2
  <2>5. QED
    BY <1>1, <1>2, <2>3, <2>4
<1>3. CASE \A c \in Callers : ~R!Confirm(c)
  BY <1>2, <1>3, RequestsKept
<1>4. ASSUME NEW c \in Callers, R!Confirm(c)
      PROVE  /\ DOMAIN requests' = Callers /\ AllReviewed' /\ offers \subseteq offers'
             /\ \A d \in Callers : RequestKept(d) \/ (d \in R!Sent' /\ ~requests'[d].landed)
  <2>1. CASE UNCHANGED requests
    BY <1>2, <2>1 DEF RequestKept, ReceiptTypes
  <2>2. CASE ~UNCHANGED requests
    <3>1. ~R!Return(c)
      BY <1>4, <2>2 DEF R!Confirm, R!Return, R!Goto, ReceiptTypes
    <3>2. /\ stage[c] = "planned" /\ plan[c] \in offers
          /\ requests'[c].plan = plan[c] /\ ~requests'[c].landed
          /\ IsRequest(requests'[c]) /\ requests'[c] # R!NoPlan
          /\ DOMAIN requests' = Callers /\ \A d \in Callers : d # c => requests'[d] = requests[d]
      BY <1>4, <3>1, Confirming
    <3>3. Planned(plan[c]) /\ ReadOut(plan[c])
      BY <3>2 DEF ReceiptTypes
    <3>4. c \in R!Sent' /\ \A d \in R!Sent' : d # c => d \in R!Sent /\ requests'[d] = requests[d]
      BY <3>2 DEF R!Sent
    <3>5. AllReviewed'
      BY <1>1, <3>2, <3>3, <3>4 DEF AllReviewed, ReceiptsFollowCalls
    <3>6. QED
      BY <1>1, <3>2, <3>4, <3>5 DEF RequestKept
  <2>3. QED
    BY <2>1, <2>2
<1>5. QED
  BY <1>3, <1>4

\* Calls in the middle of their requests.
CallsOnRecord ==
  \A c \in Callers :
    /\ stage[c] \in {"receiving", "refreshing", "completing", "reading"} =>
         c \in R!Sent /\ requests[c].plan = plan[c]
    /\ stage[c] \in {"refreshing", "completing", "reading"} => requests[c].landed
    /\ stage[c] \in {"completing", "reading"} => plan[c].complete

\* A call that is as it was, or idle, or reads, stays on record.
LEMMA OnRecord ==
  ASSUME ReceiptTypes, ReceiptsFollowCalls, \A d \in Callers : RequestKept(d), NEW d \in Callers,
         \/ stage'[d] = stage[d] /\ plan'[d] = plan[d]
         \/ stage'[d] \in {"idle", "lines", "scan", "planned"}
  PROVE  /\ stage'[d] \in {"receiving", "refreshing", "completing", "reading"} =>
              d \in R!Sent' /\ requests'[d].plan = plan'[d]
         /\ stage'[d] \in {"refreshing", "completing", "reading"} => requests'[d].landed
         /\ stage'[d] \in {"completing", "reading"} => plan'[d].complete
<1>1. R!Sent' = R!Sent
  BY SentKept
<1>2. RequestKept(d)
  OBVIOUS
<1>3. requests'[d].plan = requests[d].plan /\ (requests[d].landed => requests'[d].landed)
  BY <1>2 DEF RequestKept
<1>4. QED
  BY <1>1, <1>3 DEF ReceiptsFollowCalls

\* So do all, whatever the step.
LEMMA CallsStep ==
  ASSUME ReceiptTypes, ReceiptsFollowCalls, R!Next,
         \A c \in Callers : ~R!Confirm(c)
  PROVE  CallsOnRecord'
<1>1. \A d \in Callers : RequestKept(d)
  BY RequestsKept
<1>2. ASSUME NEW c \in Callers, NEW m, NEW i \in Inputs, R!ReadOrder(c, m, i) PROVE CallsOnRecord'
  <2>1. \A d \in Callers : RequestKept(d)
    BY <1>2 DEF R!ReadOrder, RequestKept
  <2>2. \A d \in Callers : \/ stage'[d] = stage[d] /\ plan'[d] = plan[d]
                          \/ stage'[d] \in {"idle", "lines", "scan", "planned"}
    BY <1>2 DEF R!ReadOrder, ReceiptTypes, R!Return, R!Goto, R!call
  <2>3. QED
    BY <2>1, <2>2, OnRecord DEF CallsOnRecord
<1>3. ASSUME NEW c \in Callers, NEW l \in Lines, R!ReadLine(c, l) PROVE CallsOnRecord'
  <2>1. \A d \in Callers : RequestKept(d)
    BY <1>3 DEF R!ReadLine, RequestKept
  <2>2. \A d \in Callers : \/ stage'[d] = stage[d] /\ plan'[d] = plan[d]
                          \/ stage'[d] \in {"idle", "lines", "scan", "planned"}
    BY <1>3 DEF R!ReadLine, ReceiptTypes, R!Return, R!Goto
  <2>3. QED
    BY <2>1, <2>2, OnRecord DEF CallsOnRecord
<1>4. ASSUME NEW c \in Callers, R!ScanLines(c) PROVE CallsOnRecord'
  <2>1. \A d \in Callers : RequestKept(d)
    BY <1>4 DEF R!ScanLines, RequestKept
  <2>2. \A d \in Callers : \/ stage'[d] = stage[d] /\ plan'[d] = plan[d]
                          \/ stage'[d] \in {"idle", "lines", "scan", "planned"}
    BY <1>4 DEF R!ScanLines, ReceiptTypes, R!Return, R!Goto, R!call
  <2>3. QED
    BY <2>1, <2>2, OnRecord DEF CallsOnRecord
<1>5. ASSUME NEW c \in Callers, R!Issue(c) PROVE CallsOnRecord'
  <2>1. \A d \in Callers : RequestKept(d)
    BY <1>5 DEF R!Issue, RequestKept
  <2>2. \A d \in Callers : \/ stage'[d] = stage[d] /\ plan'[d] = plan[d]
                          \/ stage'[d] \in {"idle", "lines", "scan", "planned"}
    BY <1>5 DEF R!Issue, ReceiptTypes, R!Return, R!Goto, R!call
  <2>3. QED
    BY <2>1, <2>2, OnRecord DEF CallsOnRecord
<1>6. ASSUME NEW c \in Callers, R!ReceiveAnswered(c) PROVE CallsOnRecord'
  <2>1. /\ c \in R!Sent /\ requests[c].plan = plan[c] /\ R!Lands(c)
        /\ plan' = plan /\ stage' = [stage EXCEPT ![c] = "refreshing"]
    BY <1>6 DEF R!ReceiveAnswered, R!Goto, ReceiptsFollowCalls
  <2>2. requests'[c].landed /\ requests'[c].plan = requests[c].plan /\ R!Sent' = R!Sent
    BY <1>1, <2>1, Receipt, SentKept DEF ReceiptsFollowCalls, ReceiptTypes
  <2>3. \A d \in Callers : d # c => stage'[d] = stage[d] /\ plan'[d] = plan[d]
    BY <2>1 DEF ReceiptTypes
  <2>4. stage'[c] = "refreshing"
    BY <2>1 DEF ReceiptTypes
  <2>5. QED
    BY <1>1, <2>1, <2>2, <2>3, <2>4, OnRecord DEF CallsOnRecord
<1>7. ASSUME NEW c \in Callers, NEW e, R!ReceiveFailed(c, e) PROVE CallsOnRecord'
  <2>1. R!Return(c)
    BY <1>7 DEF R!ReceiveFailed
  <2>2. QED
    BY <1>1, <2>1, ReceiptReturns, OnRecord DEF CallsOnRecord
<1>8. ASSUME NEW c \in Callers, R!LandsLate(c) PROVE CallsOnRecord'
  <2>1. UNCHANGED <<stage, plan>>
    BY <1>8 DEF R!LandsLate, R!call
  <2>2. QED
    BY <1>1, <2>1, OnRecord DEF CallsOnRecord
<1>9. ASSUME NEW c \in Callers, R!Refresh(c) PROVE CallsOnRecord'
  <2>1. CASE R!Return(c)
    BY <1>1, <2>1, ReceiptReturns, OnRecord DEF CallsOnRecord
  <2>2. CASE ~R!Return(c)
    <3>1. /\ stage[c] = "refreshing" /\ plan[c].complete /\ requests' = requests /\ plan' = plan
          /\ stage' = [stage EXCEPT ![c] = "completing"]
      BY <1>9, <2>2 DEF R!Refresh, R!Goto
    <3>2. stage'[c] = "completing" /\ \A d \in Callers : d # c => stage'[d] = stage[d]
      BY <3>1 DEF ReceiptTypes
    <3>3. R!Sent' = R!Sent
      BY <3>1 DEF R!Sent
    <3>4. QED
      BY <3>1, <3>2, <3>3 DEF CallsOnRecord, ReceiptsFollowCalls
  <2>3. QED
    BY <2>1, <2>2
<1>10. ASSUME NEW c \in Callers, R!CompleteOrder(c) PROVE CallsOnRecord'
  <2>1. /\ stage[c] = "completing" /\ requests' = requests /\ plan' = plan
        /\ stage' = [stage EXCEPT ![c] = "reading"]
    BY <1>10 DEF R!CompleteOrder, R!Goto
  <2>2. stage'[c] = "reading" /\ \A d \in Callers : d # c => stage'[d] = stage[d]
    BY <2>1 DEF ReceiptTypes
  <2>3. R!Sent' = R!Sent
    BY <2>1 DEF R!Sent
  <2>4. QED
    BY <2>1, <2>2, <2>3 DEF CallsOnRecord, ReceiptsFollowCalls
<1>11. ASSUME NEW c \in Callers, R!ReadBack(c) PROVE CallsOnRecord'
  <2>1. R!Return(c)
    BY <1>11 DEF R!ReadBack
  <2>2. QED
    BY <1>1, <2>1, ReceiptReturns, OnRecord DEF CallsOnRecord
<1>12. ASSUME R!ForeignStep PROVE CallsOnRecord'
  <2>1. \A d \in Callers : RequestKept(d)
    BY <1>12 DEF R!ForeignStep, RequestKept
  <2>2. \A d \in Callers : \/ stage'[d] = stage[d] /\ plan'[d] = plan[d]
                          \/ stage'[d] \in {"idle", "lines", "scan", "planned"}
    BY <1>12 DEF R!ForeignStep, ReceiptTypes, R!Return, R!Goto, R!call
  <2>3. QED
    BY <2>1, <2>2, OnRecord DEF CallsOnRecord
<1>13. QED
  BY <1>2, <1>3, <1>4, <1>5, <1>6, <1>7, <1>8, <1>9, <1>10, <1>11, <1>12 DEF R!Next

LEMMA FollowStep ==
  ASSUME ReceiptTypes, ReceiptsFollowCalls, R!Next
  PROVE  ReceiptsFollowCalls'
<1>1. AllReviewed' /\ DOMAIN requests' = Callers
  BY ReviewedStep
<1>2. CallsOnRecord'
  <2>1. CASE \A c \in Callers : ~R!Confirm(c)
    BY <2>1, CallsStep
  <2>2. ASSUME NEW c \in Callers, R!Confirm(c), R!Return(c)
        PROVE  CallsOnRecord'
    <3>1. requests' = requests
      BY <2>2 DEF R!Confirm, R!Return, R!Goto, ReceiptTypes
    <3>2. \A d \in Callers : RequestKept(d)
      BY <3>1 DEF RequestKept
    <3>3. QED
      BY <2>2, <3>2, ReceiptReturns, OnRecord DEF CallsOnRecord
  <2>3. ASSUME NEW c \in Callers, R!Confirm(c), ~R!Return(c)
        PROVE  CallsOnRecord'
    <3>1. /\ R!Goto(c, "receiving") /\ plan' = plan
          /\ requests'[c].plan = plan[c] /\ requests'[c] # R!NoPlan
          /\ \A d \in Callers : d # c => requests'[d] = requests[d]
      BY <2>3, Confirming
    <3>2. c \in R!Sent' /\ \A d \in Callers : d # c => (d \in R!Sent' <=> d \in R!Sent)
      BY <3>1 DEF R!Sent
    <3>3. stage'[c] = "receiving" /\ \A d \in Callers : d # c => stage'[d] = stage[d]
      BY <3>1 DEF ReceiptTypes, R!Goto
    <3>4. QED
      BY <3>1, <3>2, <3>3 DEF CallsOnRecord, ReceiptsFollowCalls
  <2>4. QED
    BY <2>1, <2>2, <2>3
<1>3. QED
  BY <1>1, <1>2 DEF AllReviewed, CallsOnRecord, ReceiptsFollowCalls

\* A dry run answered is counted.
LEMMA ModeStep ==
  ASSUME ReceiptTypes, R!Next
  PROVE  DOMAIN mode' = Callers /\ issued' \in Nat
<1>1. ASSUME NEW c \in Callers, NEW m, NEW i \in Inputs, R!ReadOrder(c, m, i) PROVE DOMAIN mode' = Callers /\ issued' \in Nat
  BY <1>1 DEF R!ReadOrder, R!Return, R!call, ReceiptTypes
<1>2. ASSUME NEW c \in Callers, NEW l \in Lines, R!ReadLine(c, l) PROVE DOMAIN mode' = Callers /\ issued' \in Nat
  BY <1>2 DEF R!ReadLine, R!Return, R!call, ReceiptTypes
<1>3. ASSUME NEW c \in Callers, R!ScanLines(c) PROVE DOMAIN mode' = Callers /\ issued' \in Nat
  BY <1>3 DEF R!ScanLines, R!Return, R!call, ReceiptTypes
<1>4. ASSUME NEW c \in Callers, R!Issue(c) PROVE DOMAIN mode' = Callers /\ issued' \in Nat
  BY <1>4 DEF R!Issue, R!Return, R!call, ReceiptTypes
<1>5. ASSUME NEW c \in Callers, R!Confirm(c) PROVE DOMAIN mode' = Callers /\ issued' \in Nat
  BY <1>5 DEF R!Confirm, R!Return, R!call, ReceiptTypes
<1>6. ASSUME NEW c \in Callers, R!ReceiveAnswered(c) PROVE DOMAIN mode' = Callers /\ issued' \in Nat
  BY <1>6 DEF R!ReceiveAnswered, R!Return, R!call, ReceiptTypes
<1>7. ASSUME NEW c \in Callers, NEW e, R!ReceiveFailed(c, e) PROVE DOMAIN mode' = Callers /\ issued' \in Nat
  BY <1>7 DEF R!ReceiveFailed, R!Return, R!call, ReceiptTypes
<1>8. ASSUME NEW c \in Callers, R!LandsLate(c) PROVE DOMAIN mode' = Callers /\ issued' \in Nat
  BY <1>8 DEF R!LandsLate, R!Return, R!call, ReceiptTypes
<1>9. ASSUME NEW c \in Callers, R!Refresh(c) PROVE DOMAIN mode' = Callers /\ issued' \in Nat
  BY <1>9 DEF R!Refresh, R!Return, R!call, ReceiptTypes
<1>10. ASSUME NEW c \in Callers, R!CompleteOrder(c) PROVE DOMAIN mode' = Callers /\ issued' \in Nat
  BY <1>10 DEF R!CompleteOrder, R!Return, R!call, ReceiptTypes
<1>11. ASSUME NEW c \in Callers, R!ReadBack(c) PROVE DOMAIN mode' = Callers /\ issued' \in Nat
  BY <1>11 DEF R!ReadBack, R!Return, R!call, ReceiptTypes
<1>12. ASSUME R!ForeignStep PROVE DOMAIN mode' = Callers /\ issued' \in Nat
  BY <1>12 DEF R!ForeignStep, R!Return, R!call, ReceiptTypes
<1>13. QED
  BY <1>1, <1>2, <1>3, <1>4, <1>5, <1>6, <1>7, <1>8, <1>9, <1>10, <1>11, <1>12 DEF R!Next

LEMMA ReceiptTypesStep ==
  ASSUME ReceiptTypes, ReceiptsFollowCalls, R!Next
  PROVE  ReceiptTypes'
<1>1. order' \in R!Order
  BY OrderStep
<1>2. PlansStay
  BY PlansStep
<1>3. DOMAIN requests' = Callers
  BY ReviewedStep
<1>4. DOMAIN mode' = Callers /\ issued' \in Nat
  BY ModeStep
<1>5. QED
  BY <1>1, <1>2, <1>3, <1>4 DEF ReceiptTypes, PlansStay

\* Each dry run pays for the hash it answers.
LEMMA ReceiptLedgerStep ==
  ASSUME ReceiptTypes, ReceiptLedger, R!Next
  PROVE  ReceiptLedger'
<1>1. ASSUME NEW c \in Callers, NEW m, NEW i \in Inputs, R!ReadOrder(c, m, i) PROVE ReceiptLedger'
  BY <1>1 DEF R!ReadOrder, ReceiptLedger
<1>2. ASSUME NEW c \in Callers, NEW l \in Lines, R!ReadLine(c, l) PROVE ReceiptLedger'
  BY <1>2 DEF R!ReadLine, ReceiptLedger
<1>3. ASSUME NEW c \in Callers, R!ScanLines(c) PROVE ReceiptLedger'
  BY <1>3 DEF R!ScanLines, ReceiptLedger
<1>4. ASSUME NEW c \in Callers, R!Issue(c) PROVE ReceiptLedger'
  <2>1. offers' = offers \cup {plan[c]} /\ issued' = issued + 1
    BY <1>4 DEF R!Issue, R!receivePlanHash
  <2>2. issued \in Nat
    BY DEF ReceiptTypes
  <2>3. /\ IsFiniteSet(offers \cup {plan[c]}) /\ Cardinality(offers \cup {plan[c]}) \in Nat
        /\ Cardinality(offers) \in Nat
        /\ Cardinality(offers \cup {plan[c]}) <= Cardinality(offers) + 1
    BY Counting DEF ReceiptLedger
  <2>4. QED
    BY <2>1, <2>2, <2>3 DEF ReceiptLedger
<1>5. ASSUME NEW c \in Callers, R!Confirm(c) PROVE ReceiptLedger'
  BY <1>5 DEF R!Confirm, ReceiptLedger
<1>6. ASSUME NEW c \in Callers, R!ReceiveAnswered(c) PROVE ReceiptLedger'
  BY <1>6 DEF R!ReceiveAnswered, ReceiptLedger
<1>7. ASSUME NEW c \in Callers, NEW e, R!ReceiveFailed(c, e) PROVE ReceiptLedger'
  BY <1>7 DEF R!ReceiveFailed, ReceiptLedger
<1>8. ASSUME NEW c \in Callers, R!LandsLate(c) PROVE ReceiptLedger'
  BY <1>8 DEF R!LandsLate, ReceiptLedger
<1>9. ASSUME NEW c \in Callers, R!Refresh(c) PROVE ReceiptLedger'
  BY <1>9 DEF R!Refresh, ReceiptLedger
<1>10. ASSUME NEW c \in Callers, R!CompleteOrder(c) PROVE ReceiptLedger'
  BY <1>10 DEF R!CompleteOrder, ReceiptLedger
<1>11. ASSUME NEW c \in Callers, R!ReadBack(c) PROVE ReceiptLedger'
  BY <1>11 DEF R!ReadBack, ReceiptLedger
<1>12. ASSUME R!ForeignStep PROVE ReceiptLedger'
  BY <1>12 DEF R!ForeignStep, ReceiptLedger
<1>13. QED
  BY <1>1, <1>2, <1>3, <1>4, <1>5, <1>6, <1>7, <1>8, <1>9, <1>10, <1>11, <1>12 DEF R!Next

\* The receipts of before, and no other.
ReceivedAsBefore ==
  \A d \in R!Received' :
    /\ d \in R!Received /\ requests'[d].plan = requests[d].plan
    /\ requests'[d].raced = requests[d].raced /\ requests'[d].over = requests[d].over

LEMMA AsBefore ==
  ASSUME ReceiptTypes, NEW c \in Callers, NEW x, SameBut(requests[c], requests'[c], x),
         \A d \in Callers : d # c => requests'[d] = requests[d]
  PROVE  ReceivedAsBefore
<1>1. ASSUME NEW d \in Callers, d \in R!Received', d # c
      PROVE  /\ d \in R!Received /\ requests'[d].plan = requests[d].plan
             /\ requests'[d].raced = requests[d].raced /\ requests'[d].over = requests[d].over
  BY <1>1 DEF R!Received, R!Sent
<1>2. ASSUME c \in R!Received'
      PROVE  /\ c \in R!Received /\ requests'[c].plan = requests[c].plan
             /\ requests'[c].raced = requests[c].raced /\ requests'[c].over = requests[c].over
  BY <1>2 DEF R!Received, R!Sent, SameBut
<1>3. R!Received' \subseteq Callers
  BY DEF R!Received, R!Sent
<1>4. QED
  BY <1>1, <1>2, <1>3 DEF ReceivedAsBefore

\* What is told of a request.
Told(r) ==
  /\ r.report \in {"ok", "incomplete"} => r.landed
  /\ r.report = "ok" /\ r.plan.complete => order.status = "complete"

\* A step that is no receipt leaves the receipts of before, and tells the truth.
NoReceipt == ReceivedAsBefore /\ \A d \in R!Sent' : Told(requests[d])'

LEMMA Reporting ==
  ASSUME ReceiptTypes, R!ToldTheTruth, order' = order, NEW c \in R!Sent, NEW x,
         SameBut(requests[c], requests'[c], x),
         \A d \in Callers : d # c => requests'[d] = requests[d],
         x \in {"ok", "incomplete"} => requests[c].landed,
         x = "ok" /\ requests[c].plan.complete => order.status = "complete"
  PROVE  NoReceipt
<1>1. ReceivedAsBefore
  BY AsBefore DEF R!Sent
<1>2. Told(requests[c])'
  BY DEF Told, SameBut
<1>3. ASSUME NEW d \in R!Sent', d # c PROVE Told(requests[d])'
  <2>1. d \in R!Sent /\ requests'[d] = requests[d]
    BY <1>3 DEF R!Sent
  <2>2. QED
    BY <2>1 DEF R!ToldTheTruth, Told
<1>4. QED
  BY <1>1, <1>2, <1>3 DEF NoReceipt

\* A step receives once, or not at all.
LEMMA ReceiptOrNot ==
  ASSUME ReceiptTypes, ReceiptsFollowCalls, R!ToldTheTruth, R!Next
  PROVE  (\E c \in R!Sent : R!Lands(c)) \/ NoReceipt
<1>0. StaysComplete
  BY OrderStep
<1>1. ASSUME NEW c \in Callers, NEW m, NEW i \in Inputs, R!ReadOrder(c, m, i) PROVE (\E d \in R!Sent : R!Lands(d)) \/ NoReceipt
  <2>1. requests' = requests
    BY <1>1 DEF R!ReadOrder
  <2>2. ReceivedAsBefore
    BY <2>1 DEF ReceivedAsBefore, R!Received, R!Sent
  <2>3. ASSUME NEW d \in R!Sent' PROVE Told(requests[d])'
    <3>1. d \in R!Sent
      BY <2>1 DEF R!Sent
    <3>2. QED
      BY <1>0, <2>1, <3>1 DEF Told, R!ToldTheTruth, StaysComplete
  <2>4. QED
    BY <2>2, <2>3 DEF NoReceipt
<1>2. ASSUME NEW c \in Callers, NEW l \in Lines, R!ReadLine(c, l) PROVE (\E d \in R!Sent : R!Lands(d)) \/ NoReceipt
  <2>1. requests' = requests
    BY <1>2 DEF R!ReadLine
  <2>2. ReceivedAsBefore
    BY <2>1 DEF ReceivedAsBefore, R!Received, R!Sent
  <2>3. ASSUME NEW d \in R!Sent' PROVE Told(requests[d])'
    <3>1. d \in R!Sent
      BY <2>1 DEF R!Sent
    <3>2. QED
      BY <1>0, <2>1, <3>1 DEF Told, R!ToldTheTruth, StaysComplete
  <2>4. QED
    BY <2>2, <2>3 DEF NoReceipt
<1>3. ASSUME NEW c \in Callers, R!ScanLines(c) PROVE (\E d \in R!Sent : R!Lands(d)) \/ NoReceipt
  <2>1. requests' = requests
    BY <1>3 DEF R!ScanLines
  <2>2. ReceivedAsBefore
    BY <2>1 DEF ReceivedAsBefore, R!Received, R!Sent
  <2>3. ASSUME NEW d \in R!Sent' PROVE Told(requests[d])'
    <3>1. d \in R!Sent
      BY <2>1 DEF R!Sent
    <3>2. QED
      BY <1>0, <2>1, <3>1 DEF Told, R!ToldTheTruth, StaysComplete
  <2>4. QED
    BY <2>2, <2>3 DEF NoReceipt
<1>4. ASSUME NEW c \in Callers, R!Issue(c) PROVE (\E d \in R!Sent : R!Lands(d)) \/ NoReceipt
  <2>1. requests' = requests
    BY <1>4 DEF R!Issue
  <2>2. ReceivedAsBefore
    BY <2>1 DEF ReceivedAsBefore, R!Received, R!Sent
  <2>3. ASSUME NEW d \in R!Sent' PROVE Told(requests[d])'
    <3>1. d \in R!Sent
      BY <2>1 DEF R!Sent
    <3>2. QED
      BY <1>0, <2>1, <3>1 DEF Told, R!ToldTheTruth, StaysComplete
  <2>4. QED
    BY <2>2, <2>3 DEF NoReceipt
<1>5. ASSUME NEW c \in Callers, R!Confirm(c) PROVE (\E d \in R!Sent : R!Lands(d)) \/ NoReceipt
  <2>1. CASE requests' = requests
    <3>1. ReceivedAsBefore
      BY <2>1 DEF ReceivedAsBefore, R!Received, R!Sent
    <3>2. ASSUME NEW d \in R!Sent' PROVE Told(requests[d])'
      <4>1. d \in R!Sent
        BY <2>1 DEF R!Sent
      <4>2. QED
        BY <1>0, <2>1, <4>1 DEF Told, R!ToldTheTruth, StaysComplete
    <3>3. QED
      BY <3>1, <3>2 DEF NoReceipt
  <2>2. CASE requests' # requests
    <3>1. ~R!Return(c)
      BY <1>5, <2>2 DEF R!Confirm, R!Return, R!Goto, ReceiptTypes
    <3>2. /\ requests'[c].report = "sent" /\ ~requests'[c].landed /\ requests'[c] # R!NoPlan
          /\ \A d \in Callers : d # c => requests'[d] = requests[d]
      BY <1>5, <3>1, Confirming
    <3>3. ReceivedAsBefore
      BY <3>2 DEF ReceivedAsBefore, R!Received, R!Sent
    <3>4. ASSUME NEW d \in R!Sent' PROVE Told(requests[d])'
      <4>1. CASE d = c
        BY <3>2, <4>1 DEF Told
      <4>2. CASE d # c
        <5>1. d \in R!Sent /\ requests'[d] = requests[d]
          BY <3>2, <4>2 DEF R!Sent
        <5>2. QED
          BY <1>0, <5>1 DEF Told, R!ToldTheTruth, StaysComplete
      <4>3. QED
        BY <4>1, <4>2
    <3>5. QED
      BY <3>3, <3>4 DEF NoReceipt
  <2>3. QED
    BY <2>1, <2>2
<1>6. ASSUME NEW c \in Callers, R!ReceiveAnswered(c) PROVE (\E d \in R!Sent : R!Lands(d)) \/ NoReceipt
  <2>1. c \in R!Sent /\ R!Lands(c)
    BY <1>6 DEF R!ReceiveAnswered, ReceiptsFollowCalls, R!Sent
  <2>2. QED
    BY <2>1
<1>7. ASSUME NEW c \in Callers, NEW e, R!ReceiveFailed(c, e) PROVE (\E d \in R!Sent : R!Lands(d)) \/ NoReceipt
  <2>1. c \in R!Sent /\ IsRequest(requests[c]) /\ order' = order
    BY <1>7 DEF R!ReceiveFailed, ReceiptsFollowCalls
  <2>2. PICK b, x : /\ x \in {"unknown", "error"}
                    /\ requests' = [requests EXCEPT ![c].open = b, ![c].report = x]
    BY <1>7 DEF R!ReceiveFailed
  <2>3. /\ requests'[c] = [requests[c] EXCEPT !.open = b, !.report = x]
        /\ \A d \in Callers : d # c => requests'[d] = requests[d]
    BY <2>2 DEF ReceiptTypes
  <2>4. SameBut(requests[c], requests'[c], x)
    BY <2>1, <2>3, ReportFields
  <2>5. QED
    BY <2>1, <2>2, <2>3, <2>4, Reporting
<1>8. ASSUME NEW c \in Callers, R!LandsLate(c) PROVE (\E d \in R!Sent : R!Lands(d)) \/ NoReceipt
  <2>1. c \in R!Sent /\ R!Lands(c)
    BY <1>8 DEF R!LandsLate, ReceiptsFollowCalls, R!Sent
  <2>2. QED
    BY <2>1
<1>9. ASSUME NEW c \in Callers, R!Refresh(c) PROVE (\E d \in R!Sent : R!Lands(d)) \/ NoReceipt
  <2>1. /\ c \in R!Sent /\ IsRequest(requests[c]) /\ requests[c].plan = plan[c] /\ requests[c].landed
        /\ order' = order
    BY <1>9 DEF R!Refresh, ReceiptsFollowCalls
  <2>2. CASE requests' = requests
    <3>1. ReceivedAsBefore
      BY <2>2 DEF ReceivedAsBefore, R!Received, R!Sent
    <3>2. ASSUME NEW d \in R!Sent' PROVE Told(requests[d])'
      <4>1. d \in R!Sent
        BY <2>2 DEF R!Sent
      <4>2. QED
        BY <1>0, <2>2, <4>1 DEF Told, R!ToldTheTruth, StaysComplete
    <3>3. QED
      BY <3>1, <3>2 DEF NoReceipt
  <2>3. ASSUME NEW x, requests' = [requests EXCEPT ![c].report = x],
               x = "ok" => ~plan[c].complete \/ order.status = "complete"
        PROVE  NoReceipt
    <3>1. /\ requests'[c] = [requests[c] EXCEPT !.report = x]
          /\ \A d \in Callers : d # c => requests'[d] = requests[d]
      BY <2>3 DEF ReceiptTypes
    <3>2. SameBut(requests[c], requests'[c], x)
      BY <2>1, <3>1, ReportFields
    <3>3. QED
      BY <2>1, <2>3, <3>1, <3>2, Reporting
  <2>4. \/ requests' = requests
        \/ requests' = [requests EXCEPT ![c].report = "incomplete"]
        \/ requests' = [requests EXCEPT ![c].report = "unknown"]
        \/ /\ requests' = [requests EXCEPT ![c].report = "ok"]
           /\ ~plan[c].complete \/ order.status = "complete"
    BY <1>9 DEF R!Refresh, R!Reports
  <2>5. QED
    BY <2>2, <2>3, <2>4
<1>10. ASSUME NEW c \in Callers, R!CompleteOrder(c) PROVE (\E d \in R!Sent : R!Lands(d)) \/ NoReceipt
  <2>1. requests' = requests
    BY <1>10 DEF R!CompleteOrder
  <2>2. ReceivedAsBefore
    BY <2>1 DEF ReceivedAsBefore, R!Received, R!Sent
  <2>3. ASSUME NEW d \in R!Sent' PROVE Told(requests[d])'
    <3>1. d \in R!Sent
      BY <2>1 DEF R!Sent
    <3>2. QED
      BY <1>0, <2>1, <3>1 DEF Told, R!ToldTheTruth, StaysComplete
  <2>4. QED
    BY <2>2, <2>3 DEF NoReceipt
<1>11. ASSUME NEW c \in Callers, R!ReadBack(c) PROVE (\E d \in R!Sent : R!Lands(d)) \/ NoReceipt
  <2>1. /\ c \in R!Sent /\ IsRequest(requests[c]) /\ requests[c].plan = plan[c] /\ requests[c].landed
        /\ order' = order
    BY <1>11 DEF R!ReadBack, ReceiptsFollowCalls
  <2>2. PICK x : /\ requests' = [requests EXCEPT ![c].report = x]
                 /\ x = "ok" => order.status = "complete"
    BY <1>11 DEF R!ReadBack, R!Reports
  <2>3. /\ requests'[c] = [requests[c] EXCEPT !.report = x]
        /\ \A d \in Callers : d # c => requests'[d] = requests[d]
    BY <2>2 DEF ReceiptTypes
  <2>4. SameBut(requests[c], requests'[c], x)
    BY <2>1, <2>3, ReportFields
  <2>5. QED
    BY <2>1, <2>2, <2>3, <2>4, Reporting
<1>12. ASSUME R!ForeignStep PROVE (\E c \in R!Sent : R!Lands(c)) \/ NoReceipt
  <2>1. requests' = requests
    BY <1>12 DEF R!ForeignStep
  <2>2. ReceivedAsBefore
    BY <2>1 DEF ReceivedAsBefore, R!Received, R!Sent
  <2>3. ASSUME NEW d \in R!Sent' PROVE Told(requests[d])'
    <3>1. d \in R!Sent
      BY <2>1 DEF R!Sent
    <3>2. QED
      BY <1>0, <2>1, <3>1 DEF Told, R!ToldTheTruth, StaysComplete
  <2>4. QED
    BY <2>2, <2>3 DEF NoReceipt
<1>13. QED
  BY <1>1, <1>2, <1>3, <1>4, <1>5, <1>6, <1>7, <1>8, <1>9, <1>10, <1>11, <1>12 DEF R!Next

\* A receipt as its plan saw the lines leaves none with more than was ordered.
LEMMA WithinOrder ==
  ASSUME order \in R!Order, NEW p, Planned(p), ReadOut(p),
         \A l \in DOMAIN p.items : order.lines[l] = p.seen[l]
  PROVE  \A l \in DOMAIN p.items :
           ~(order.lines[l].received + p.items[l] > order.lines[l].ordered)
<1>1. ASSUME NEW l \in DOMAIN p.items
      PROVE  ~(order.lines[l].received + p.items[l] > order.lines[l].ordered)
  <2>1. l \in Lines /\ p.items[l] \in Nat /\ p.seen[l] = order.lines[l]
        /\ ~R!Excessive(p.seen[l], p.items[l])
    BY DEF Planned, ReadOut
  <2>2. ~(p.items[l] > order.lines[l].ordered - order.lines[l].received)
    BY <2>1 DEF R!Excessive
  <2>3. order.lines[l].ordered \in Nat /\ order.lines[l].received \in Nat
    BY <2>1, OrderFields
  <2>4. QED
    BY <2>1, <2>2, <2>3
<1>2. QED
  BY <1>1

LEMMA OutcomeOfReceipt ==
  ASSUME ReceiptTypes, ReceiptsFollowCalls, LinesGrow, OverInWindow, R!ToldTheTruth,
         NEW c \in R!Sent, R!Lands(c)
  PROVE  LinesGrow' /\ OverInWindow' /\ R!ToldTheTruth'
<1> DEFINE p == requests[c].plan
<1>1. /\ order \in R!Order /\ DOMAIN requests = Callers /\ c \in Callers
      /\ IsRequest(requests[c]) /\ Planned(p) /\ ReadOut(p)
  BY DEF ReceiptTypes, ReceiptsFollowCalls, R!Sent
<1>2. /\ Grown /\ order.status = "placed" /\ order' \in R!Order
      /\ requests'[c].plan = p /\ requests'[c].report = requests[c].report /\ requests'[c].landed
      /\ \A d \in Callers : d # c => requests'[d] = requests[d]
  BY <1>1, Receipt
<1>3. /\ \A l \in DOMAIN p.items : order'.lines[l].received = order.lines[l].received + p.items[l]
      /\ requests'[c].raced = (\E l \in DOMAIN p.items : order.lines[l] # p.seen[l])
      /\ requests'[c].over = (\E l \in DOMAIN p.items :
           order.lines[l].received + p.items[l] > order.lines[l].ordered)
  BY <1>1, Receipt
<1>4. \A d \in R!Received' : d # c => d \in R!Received /\ requests'[d] = requests[d]
  BY <1>2 DEF R!Received, R!Sent
<1>5. \A d \in R!Received : Planned(requests[d].plan) /\ ReadOut(requests[d].plan)
  BY DEF ReceiptsFollowCalls, R!Received
<1> HIDE DEF p
<1>6. OverInWindow'
  <2>1. requests'[c].over => requests'[c].raced
    BY <1>1, <1>3, WithinOrder
  <2>2. QED
    BY <1>4, <2>1 DEF OverInWindow
<1>7. ASSUME ~requests'[c].raced
      PROVE  \A l \in DOMAIN p.items : order'.lines[l].received > p.seen[l].received
  <2>1. ASSUME NEW l \in DOMAIN p.items
        PROVE  order'.lines[l].received > p.seen[l].received
    <3>1. l \in Lines /\ p.items[l] \in Nat \ {0}
      BY <1>1 DEF Planned
    <3>2. p.seen[l] = order.lines[l] /\ order.lines[l].received \in Nat
      BY <1>1, <1>3, <1>7, <3>1, OrderFields
    <3>3. QED
      BY <1>3, <3>1, <3>2
  <2>2. QED
    BY <2>1
<1>8. ASSUME NEW d \in R!Received, ~requests[d].raced, NEW l \in DOMAIN requests[d].plan.items
      PROVE  order'.lines[l].received > requests[d].plan.seen[l].received
  <2>1. l \in Lines /\ requests[d].plan.seen[l] \in R!Line
    BY <1>5 DEF Planned, ReadOut
  <2>2. order.lines[l].received > requests[d].plan.seen[l].received
    BY <1>8 DEF LinesGrow
  <2>3. /\ order'.lines[l].received >= order.lines[l].received
        /\ order.lines[l].received \in Nat /\ requests[d].plan.seen[l].received \in Nat
    BY <1>1, <1>2, <2>1, OrderFields DEF Grown, R!Line
  <2>4. order'.lines[l].received \in Nat
    <3>1. order'.lines \in [Lines -> R!Line]
      BY <1>2 DEF R!Order
    <3>2. QED
      BY <2>1, <3>1 DEF R!Line
  <2>5. QED
    BY <2>2, <2>3, <2>4
<1>9. ASSUME NEW d \in R!Received, d # c, ~requests[d].raced, requests[d].plan = p
      PROVE  requests'[c].raced
  <2>1. PICK l : l \in DOMAIN p.items
    BY <1>1 DEF Planned
  <2>2. l \in Lines
    BY <1>1, <2>1 DEF Planned
  <2>3. order.lines[l].received > p.seen[l].received
    BY <1>9, <2>1 DEF LinesGrow
  <2>4. order.lines[l] # p.seen[l]
    BY <1>1, <2>2, <2>3, OrderFields
  <2>5. QED
    BY <1>3, <2>1, <2>4
<1>10. LinesGrow'
  <2>1. ASSUME NEW d \in R!Received', ~requests'[d].raced,
               NEW l \in DOMAIN requests'[d].plan.items
        PROVE  order'.lines[l].received > requests'[d].plan.seen[l].received
    <3>1. CASE d = c
      BY <1>2, <1>7, <2>1, <3>1
    <3>2. CASE d # c
      BY <1>4, <1>8, <2>1, <3>2
    <3>3. QED
      BY <3>1, <3>2
  <2>2. ASSUME NEW d \in R!Received', NEW e \in R!Received', d # e,
               ~requests'[d].raced, ~requests'[e].raced, requests'[d].plan = requests'[e].plan
        PROVE  FALSE
    <3>1. CASE d # c /\ e # c
      <4>1. /\ d \in R!Received /\ e \in R!Received
            /\ requests'[d] = requests[d] /\ requests'[e] = requests[e]
        BY <1>4, <3>1
      <4>2. QED
        BY <2>2, <4>1 DEF LinesGrow
    <3>2. CASE d = c
      BY <1>2, <1>4, <1>9, <2>2, <3>2
    <3>3. CASE e = c
      BY <1>2, <1>4, <1>9, <2>2, <3>3
    <3>4. QED
      BY <3>1, <3>2, <3>3
  <2>3. QED
    BY <2>1, <2>2 DEF LinesGrow
<1>11. R!ToldTheTruth'
  <2>1. ASSUME NEW d \in R!Sent'
        PROVE  /\ requests'[d].report \in {"ok", "incomplete"} => requests'[d].landed
               /\ ~(requests'[d].report = "ok" /\ requests'[d].plan.complete)
    <3>1. CASE d = c
      BY <1>2, <3>1 DEF R!ToldTheTruth, p
    <3>2. CASE d # c
      <4>1. d \in R!Sent /\ requests'[d] = requests[d]
        BY <1>2, <3>2 DEF R!Sent
      <4>2. QED
        BY <1>2, <4>1 DEF R!ToldTheTruth
    <3>3. QED
      BY <3>1, <3>2
  <2>2. QED
    BY <2>1 DEF R!ToldTheTruth
<1>12. QED
  BY <1>6, <1>10, <1>11

LEMMA OutcomeOfNone ==
  ASSUME ReceiptTypes, ReceiptsFollowCalls, LinesGrow, OverInWindow, R!Next, NoReceipt
  PROVE  LinesGrow' /\ OverInWindow' /\ R!ToldTheTruth'
<1>1. R!ToldTheTruth'
  BY DEF NoReceipt, Told, R!ToldTheTruth
<1>2. OverInWindow'
  BY DEF NoReceipt, ReceivedAsBefore, OverInWindow
<1>3. ASSUME NEW d \in R!Received', ~requests'[d].raced, NEW l \in DOMAIN requests'[d].plan.items
      PROVE  order'.lines[l].received > requests'[d].plan.seen[l].received
  <2>1. d \in R!Received /\ requests'[d].plan = requests[d].plan /\ ~requests[d].raced
    BY <1>3 DEF NoReceipt, ReceivedAsBefore
  <2>2. l \in Lines /\ requests[d].plan.seen[l] \in R!Line
    BY <1>3, <2>1 DEF ReceiptsFollowCalls, R!Received, Planned, ReadOut
  <2>3. order.lines[l].received > requests[d].plan.seen[l].received
    BY <1>3, <2>1 DEF LinesGrow
  <2>4. Grown /\ order' \in R!Order /\ order \in R!Order
    BY OrderStep DEF ReceiptTypes
  <2>5. /\ order'.lines[l].received >= order.lines[l].received
        /\ order.lines[l].received \in Nat /\ requests[d].plan.seen[l].received \in Nat
    BY <2>2, <2>4, OrderFields DEF Grown, R!Line
  <2>6. order'.lines[l].received \in Nat
    <3>1. order'.lines \in [Lines -> R!Line]
      BY <2>4 DEF R!Order
    <3>2. QED
      BY <2>2, <3>1 DEF R!Line
  <2>7. QED
    BY <2>1, <2>3, <2>5, <2>6
<1>4. LinesGrow'
  BY <1>3 DEF NoReceipt, ReceivedAsBefore, LinesGrow
<1>5. QED
  BY <1>1, <1>2, <1>4

LEMMA ReceiptStep ==
  ASSUME ReceiptInv, R!Next
  PROVE  ReceiptInv'
<1>1. ReceiptTypes'
  BY ReceiptTypesStep DEF ReceiptInv
<1>2. ReceiptsFollowCalls'
  BY FollowStep DEF ReceiptInv
<1>3. ReceiptLedger'
  BY ReceiptLedgerStep DEF ReceiptInv
<1>4. LinesGrow' /\ OverInWindow' /\ R!ToldTheTruth'
  BY ReceiptOrNot, OutcomeOfReceipt, OutcomeOfNone DEF ReceiptInv
<1>5. QED
  BY <1>1, <1>2, <1>3, <1>4 DEF ReceiptInv

LEMMA ReceiptStart ==
  ASSUME R!Init
  PROVE  ReceiptInv
<1>1. order \in R!Order
  <2>1. \A l \in Lines : [ordered |-> Ordered[l], received |-> 0] \in R!Line
    BY ReceiptAssumption DEF R!Line
  <2>2. [l \in Lines |-> [ordered |-> Ordered[l], received |-> 0]] \in [Lines -> R!Line]
    BY <2>1
  <2>3. QED
    BY <2>2 DEF R!Init, R!Order
<1>2. ReceiptTypes
  BY <1>1 DEF R!Init, ReceiptTypes
<1>3. R!Sent = {} /\ R!Received = {}
  BY DEF R!Init, R!Sent, R!Received
<1>4. ReceiptsFollowCalls
  BY <1>3 DEF R!Init, ReceiptsFollowCalls
<1>5. ReceiptLedger
  BY FS_EmptySet DEF R!Init, ReceiptLedger
<1>6. LinesGrow /\ OverInWindow /\ R!ToldTheTruth
  BY <1>3 DEF LinesGrow, OverInWindow, R!ToldTheTruth
<1>7. QED
  BY <1>2, <1>4, <1>5, <1>6 DEF ReceiptInv

\* Receipts that were not raced have plans of their own, each of which was reviewed.
LEMMA ReceiptsCounted ==
  ASSUME ReceiptInv
  PROVE  R!ReceivedAsReviewed
<1> DEFINE Unraced == {c \in R!Received : ~requests[c].raced}
           f == [c \in Unraced |-> requests[c].plan]
<1>1. f \in [Unraced -> offers]
  BY DEF ReceiptInv, ReceiptsFollowCalls, R!Received
<1>2. \A c, d \in Unraced : f[c] = f[d] => c = d
  BY DEF ReceiptInv, LinesGrow
<1>3. f \in Injection(Unraced, offers)
  BY <1>1, <1>2 DEF Injection, IsInjective
<1>4. IsFiniteSet(offers) /\ Cardinality(offers) <= issued /\ issued \in Nat
  BY DEF ReceiptInv, ReceiptLedger, ReceiptTypes
<1> HIDE DEF f
<1>5. IsFiniteSet(Unraced) /\ Cardinality(Unraced) <= Cardinality(offers)
  BY <1>3, <1>4, FS_Injection
<1>6. Cardinality(Unraced) \in Nat /\ Cardinality(offers) \in Nat
  BY <1>4, <1>5, FS_CardinalityType
<1>7. Cardinality(Unraced) <= issued
  BY <1>4, <1>5, <1>6
<1>8. R!Cardinality(Unraced) <= issued
  BY <1>7 DEF Cardinality, R!Cardinality
<1>9. QED
  BY <1>8 DEF R!ReceivedAsReviewed, ReceiptInv, OverInWindow

-----------------------------------------------------------------------------
(* The generation of stocktakes.                                            *)

\* Time does not go back.
LEMMA ClockStep ==
  ASSUME StocktakeTypes, S!Next
  PROVE  clock' \in Nat /\ clock' >= clock
<1>1. ASSUME NEW c \in Generators, NEW p \in Principals, S!DryRun(c, p) PROVE clock' \in Nat /\ clock' >= clock
  BY <1>1 DEF S!DryRun, StocktakeTypes
<1>2. ASSUME NEW c \in Generators, NEW p \in Principals, S!Consume(c, p) PROVE clock' \in Nat /\ clock' >= clock
  BY <1>2 DEF S!Consume, StocktakeTypes
<1>3. ASSUME NEW c \in Generators, NEW p \in Principals, NEW k \in TaskIDs, S!Lookup(c, p, k) PROVE clock' \in Nat /\ clock' >= clock
  BY <1>3 DEF S!Lookup, StocktakeTypes
<1>4. ASSUME NEW c \in Generators, S!Reserve(c) PROVE clock' \in Nat /\ clock' >= clock
  BY <1>4 DEF S!Reserve, StocktakeTypes
<1>5. ASSUME NEW c \in Generators, S!Enqueue(c) PROVE clock' \in Nat /\ clock' >= clock
  BY <1>5 DEF S!Enqueue, StocktakeTypes
<1>6. ASSUME NEW c \in Generators, S!Bind(c) PROVE clock' \in Nat /\ clock' >= clock
  BY <1>6 DEF S!Bind, StocktakeTypes
<1>7. ASSUME NEW c \in Generators, S!FailToBind(c) PROVE clock' \in Nat /\ clock' >= clock
  BY <1>7 DEF S!FailToBind, StocktakeTypes
<1>8. ASSUME NEW c \in Generators, S!Release(c) PROVE clock' \in Nat /\ clock' >= clock
  BY <1>8 DEF S!Release, StocktakeTypes
<1>9. ASSUME NEW c \in Generators, S!EndPoll(c) PROVE clock' \in Nat /\ clock' >= clock
  BY <1>9 DEF S!EndPoll, StocktakeTypes
<1>10. ASSUME S!Tick PROVE clock' \in Nat /\ clock' >= clock
  BY <1>10 DEF S!Tick, StocktakeTypes
<1>11. QED
  BY <1>1, <1>2, <1>3, <1>4, <1>5, <1>6, <1>7, <1>8, <1>9, <1>10 DEF S!Next

\* Only a bind adds a handle.
LEMMA HandlesStep ==
  ASSUME StocktakeTypes, S!Next
  PROVE  handles' \subseteq handles \/ \E c \in Generators : S!Bind(c)
<1>1. ASSUME NEW c \in Generators, NEW p \in Principals, S!DryRun(c, p) PROVE handles' \subseteq handles \/ \E d \in Generators : S!Bind(d)
  BY <1>1 DEF S!DryRun, S!stores
<1>2. ASSUME NEW c \in Generators, NEW p \in Principals, S!Consume(c, p) PROVE handles' \subseteq handles \/ \E d \in Generators : S!Bind(d)
  BY <1>2 DEF S!Consume, S!stores
<1>3. ASSUME NEW c \in Generators, NEW p \in Principals, NEW k \in TaskIDs, S!Lookup(c, p, k) PROVE handles' \subseteq handles \/ \E d \in Generators : S!Bind(d)
  <2>1. \E h \in handles : handles' \in {handles, handles \ {h}}
    BY <1>3 DEF S!Lookup
  <2>2. QED
    BY <2>1
<1>4. ASSUME NEW c \in Generators, S!Reserve(c) PROVE handles' \subseteq handles \/ \E d \in Generators : S!Bind(d)
  BY <1>4 DEF S!Reserve, S!Live
<1>5. ASSUME NEW c \in Generators, S!Enqueue(c) PROVE handles' \subseteq handles \/ \E d \in Generators : S!Bind(d)
  BY <1>5 DEF S!Enqueue, S!stores
<1>6. ASSUME NEW c \in Generators, S!Bind(c) PROVE handles' \subseteq handles \/ \E d \in Generators : S!Bind(d)
  BY <1>6
<1>7. ASSUME NEW c \in Generators, S!FailToBind(c) PROVE handles' \subseteq handles \/ \E d \in Generators : S!Bind(d)
  BY <1>7 DEF S!FailToBind, S!Live
<1>8. ASSUME NEW c \in Generators, S!Release(c) PROVE handles' \subseteq handles \/ \E d \in Generators : S!Bind(d)
  BY <1>8 DEF S!Release, S!stores
<1>9. ASSUME NEW c \in Generators, S!EndPoll(c) PROVE handles' \subseteq handles \/ \E d \in Generators : S!Bind(d)
  BY <1>9 DEF S!EndPoll, S!stores
<1>10. ASSUME S!Tick PROVE handles' \subseteq handles \/ \E c \in Generators : S!Bind(c)
  BY <1>10 DEF S!Tick, S!stores
<1>11. QED
  BY <1>1, <1>2, <1>3, <1>4, <1>5, <1>6, <1>7, <1>8, <1>9, <1>10 DEF S!Next

LEMMA Shrinking ==
  ASSUME StocktakeTypes, handles' \subseteq handles, clock' \in Nat, clock' >= clock
  PROVE  /\ Alive' \subseteq Alive /\ \A p : AliveOf(p)' \subseteq AliveOf(p)
         /\ handles' \subseteq S!Handle /\ IsFiniteSet(handles')
         /\ \A h, g \in handles' : h.id = g.id => h = g
<1>1. \A h \in handles' : h \in handles /\ h.expiresAt \in Nat
  BY DEF StocktakeTypes, S!Handle
<1>2. \A h \in handles' : clock' < h.expiresAt => clock < h.expiresAt
  BY <1>1 DEF StocktakeTypes
<1>3. Alive' \subseteq Alive
  BY <1>1, <1>2 DEF Alive, S!Live
<1>4. ASSUME NEW p PROVE AliveOf(p)' \subseteq AliveOf(p)
  BY <1>1, <1>2 DEF AliveOf, S!Live, S!OfPrincipal
<1>5. IsFiniteSet(handles')
  BY FS_Subset DEF StocktakeTypes
<1>6. QED
  BY <1>3, <1>4, <1>5 DEF StocktakeTypes

\* The handle that is bound is new, live, and the only one of its task.
LEMMA Binding ==
  ASSUME StocktakeTypes, NEW c \in Generators, S!Bind(c)
  PROVE  \E h \in S!Handle :
           /\ h.id = held[c] /\ h.principal = who[c]
           /\ Alive' = Alive \cup {h} /\ handles' = Alive \cup {h}
           /\ \A g \in Alive : g.id # h.id
<1> DEFINE h == [id |-> held[c], principal |-> who[c], expiresAt |-> clock + TaskLifetime]
<1>1. held[c] \in TaskIDs /\ who[c] \in Principals /\ clock \in Nat /\ TaskLifetime \in Nat \ {0}
  BY ReviewedAssumption DEF StocktakeTypes, S!Bind
<1>2. h.id = held[c] /\ h.principal = who[c] /\ h.expiresAt = clock + TaskLifetime /\ h \in S!Handle
  BY <1>1 DEF S!Handle
<1>3. \A g \in Alive : g.id # held[c]
  BY DEF S!Bind, S!Bindable, S!Known, Alive
<1>4. handles' = {g \in Alive : g.id # held[c]} \cup {h} /\ clock' = clock
  BY DEF S!Bind, Alive
<1> HIDE DEF h
<1>5. handles' = Alive \cup {h}
  BY <1>3, <1>4
<1>6. clock < h.expiresAt
  BY <1>1, <1>2
<1>7. Alive' = Alive \cup {h}
  BY <1>4, <1>5, <1>6 DEF Alive, S!Live
<1>8. QED
  BY <1>2, <1>3, <1>5, <1>7

LEMMA HandlesTypes ==
  ASSUME StocktakeTypes, S!Next
  PROVE  /\ handles' \subseteq S!Handle /\ IsFiniteSet(handles')
         /\ \A h, g \in handles' : h.id = g.id => h = g
<1>1. CASE handles' \subseteq handles
  BY <1>1, ClockStep, Shrinking
<1>2. ASSUME NEW c \in Generators, S!Bind(c)
      PROVE  /\ handles' \subseteq S!Handle /\ IsFiniteSet(handles')
             /\ \A h, g \in handles' : h.id = g.id => h = g
  <2>1. PICK h \in S!Handle : /\ handles' = Alive \cup {h}
                              /\ \A g \in Alive : g.id # h.id
    BY <1>2, Binding
  <2>2. Alive \subseteq handles
    BY DEF Alive, S!Live
  <2>3. IsFiniteSet(Alive)
    BY <2>2, FS_Subset DEF StocktakeTypes
  <2>4. IsFiniteSet(handles')
    BY <2>1, <2>3, FS_AddElement
  <2>5. QED
    BY <2>1, <2>2, <2>4 DEF StocktakeTypes
<1>3. QED
  BY <1>1, <1>2, HandlesStep

LEMMA GivingBack ==
  ASSUME StocktakeTypes, NEW p \in Principals, reservations' = S!WithoutReservation(p)
  PROVE  /\ reservations' \in [Principals -> Nat]
         /\ \A q \in Principals : q # p => reservations'[q] = reservations[q]
         /\ reservations[p] > 0 => reservations'[p] = reservations[p] - 1
<1> DEFINE n == IF reservations[p] > 1 THEN reservations[p] - 1 ELSE 0
<1>1. reservations[p] \in Nat
  BY DEF StocktakeTypes
<1>2. n \in Nat /\ (reservations[p] > 0 => n = reservations[p] - 1)
  BY <1>1
<1>3. reservations' = [reservations EXCEPT ![p] = n]
  BY DEF S!WithoutReservation
<1> HIDE DEF n
<1>4. QED
  BY <1>2, <1>3 DEF StocktakeTypes

\* The types of all the rest.
CallTypes ==
  /\ reservations \in [Principals -> Nat]
  /\ stage \in [Generators -> S!Stages]
  /\ DOMAIN who = Generators /\ DOMAIN held = Generators /\ DOMAIN token = Generators
  /\ \A c \in Generators : stage[c] # "idle" => who[c] \in Principals
  /\ \A c \in Generators : stage[c] \in {"reserving", "enqueuing"} => token[c] \in Tokens
  /\ \A c \in Generators : stage[c] = "binding" => held[c] \in TaskIDs
TaskTypes == plans \subseteq S!Plan /\ enqueued \in [Tokens -> Nat] /\ accepted \subseteq TaskIDs

\* What a call keeps is of its type.
LEMMA CallTypesStep ==
  ASSUME StocktakeTypes, S!Next
  PROVE  CallTypes'
<1>1. ASSUME NEW c \in Generators, NEW p \in Principals, S!DryRun(c, p) PROVE CallTypes'
  BY <1>1 DEF S!DryRun, S!Goto, S!Stages, S!stores, S!callers, StocktakeTypes, CallTypes
<1>2. ASSUME NEW c \in Generators, NEW p \in Principals, S!Consume(c, p) PROVE CallTypes'
  <2>1. PICK e \in plans : e \in S!Plan /\ token' = [token EXCEPT ![c] = e.token]
    BY <1>2 DEF S!Consume, S!Live, StocktakeTypes
  <2>2. e.token \in Tokens
    BY <2>1 DEF S!Plan
  <2>3. UNCHANGED <<reservations, held>> /\ who' = [who EXCEPT ![c] = p]
        /\ stage' = [stage EXCEPT ![c] = "reserving"]
    BY <1>2 DEF S!Consume, S!Goto
  <2>4. stage' \in [Generators -> S!Stages]
    BY <2>3 DEF S!Stages, StocktakeTypes
  <2>5. QED
    BY <2>1, <2>2, <2>3, <2>4 DEF CallTypes, StocktakeTypes
<1>3. ASSUME NEW c \in Generators, NEW p \in Principals, NEW k \in TaskIDs, S!Lookup(c, p, k) PROVE CallTypes'
  <2>1. UNCHANGED <<reservations, token>>
        /\ \/ UNCHANGED <<stage, who, held>>
           \/ /\ who' = [who EXCEPT ![c] = p] /\ held' = [held EXCEPT ![c] = k]
              /\ stage' = [stage EXCEPT ![c] = "polling"]
    BY <1>3 DEF S!Lookup, S!Goto
  <2>2. stage' \in [Generators -> S!Stages]
    BY <2>1 DEF S!Stages, StocktakeTypes
  <2>3. QED
    BY <2>1, <2>2 DEF CallTypes, StocktakeTypes
<1>4. ASSUME NEW c \in Generators, S!Reserve(c) PROVE CallTypes'
  <2>1. UNCHANGED <<who, held, token>> /\ stage[c] = "reserving"
        /\ \/ UNCHANGED reservations /\ stage' = [stage EXCEPT ![c] = "idle"]
           \/ /\ reservations' = [reservations EXCEPT ![who[c]] = @ + 1]
              /\ stage' = [stage EXCEPT ![c] = "enqueuing"]
    BY <1>4 DEF S!Reserve, S!Goto
  <2>2. stage' \in [Generators -> S!Stages]
    BY <2>1 DEF S!Stages, StocktakeTypes
  <2>3. reservations' \in [Principals -> Nat]
    BY <2>1 DEF StocktakeTypes
  <2>4. QED
    BY <2>1, <2>2, <2>3 DEF CallTypes, StocktakeTypes
<1>5. ASSUME NEW c \in Generators, S!Enqueue(c) PROVE CallTypes'
  <2>1. UNCHANGED <<who, token, reservations>> /\ stage[c] = "enqueuing"
        /\ \E a \in TaskIDs \cup {NoTask} : S!Answered(c, a)
    BY <1>5 DEF S!Enqueue, S!Accepted, S!stores, StocktakeTypes
  <2>2. \/ \E a \in TaskIDs : /\ held' = [held EXCEPT ![c] = a]
                              /\ stage' = [stage EXCEPT ![c] = "binding"]
        \/ UNCHANGED held /\ stage' = [stage EXCEPT ![c] = "releasing"]
    BY <2>1 DEF S!Answered, S!Usable, S!Goto
  <2>3. stage' \in [Generators -> S!Stages]
    BY <2>2 DEF S!Stages, StocktakeTypes
  <2>4. QED
    BY <2>1, <2>2, <2>3 DEF CallTypes, StocktakeTypes
<1>6. ASSUME NEW c \in Generators, S!Bind(c) PROVE CallTypes'
  <2>1. /\ UNCHANGED <<who, token>> /\ reservations' = S!WithoutReservation(who[c])
        /\ held' = [held EXCEPT ![c] = NoTask] /\ stage' = [stage EXCEPT ![c] = "idle"]
    BY <1>6 DEF S!Bind, S!Goto
  <2>2. stage' \in [Generators -> S!Stages]
    BY <2>1 DEF S!Stages, StocktakeTypes
  <2>3. reservations' \in [Principals -> Nat]
    <3>1. who[c] \in Principals
      BY <1>6 DEF S!Bind, StocktakeTypes
    <3>2. QED
      BY <2>1, <3>1, GivingBack
  <2>4. QED
    BY <2>1, <2>2, <2>3 DEF CallTypes, StocktakeTypes
<1>7. ASSUME NEW c \in Generators, S!FailToBind(c) PROVE CallTypes'
  BY <1>7 DEF S!FailToBind, S!Goto, S!Stages, S!stores, S!callers, StocktakeTypes, CallTypes
<1>8. ASSUME NEW c \in Generators, S!Release(c) PROVE CallTypes'
  <2>1. /\ UNCHANGED <<who, token, held>> /\ reservations' = S!WithoutReservation(who[c])
        /\ stage' = [stage EXCEPT ![c] = "idle"]
    BY <1>8 DEF S!Release, S!Goto
  <2>2. stage' \in [Generators -> S!Stages]
    BY <2>1 DEF S!Stages, StocktakeTypes
  <2>3. reservations' \in [Principals -> Nat]
    <3>1. who[c] \in Principals
      BY <1>8 DEF S!Release, StocktakeTypes
    <3>2. QED
      BY <2>1, <3>1, GivingBack
  <2>4. QED
    BY <2>1, <2>2, <2>3 DEF CallTypes, StocktakeTypes
<1>9. ASSUME NEW c \in Generators, S!EndPoll(c) PROVE CallTypes'
  BY <1>9 DEF S!EndPoll, S!Goto, S!Stages, S!stores, S!callers, StocktakeTypes, CallTypes
<1>10. ASSUME S!Tick PROVE CallTypes'
  BY <1>10 DEF S!Tick, S!Goto, S!Stages, S!stores, S!callers, StocktakeTypes, CallTypes
<1>11. QED
  BY <1>1, <1>2, <1>3, <1>4, <1>5, <1>6, <1>7, <1>8, <1>9, <1>10 DEF S!Next

\* What the stores and InvenTree keep.
LEMMA TaskTypesStep ==
  ASSUME StocktakeTypes, S!Next
  PROVE  TaskTypes'
<1>1. ASSUME NEW c \in Generators, NEW p \in Principals, S!DryRun(c, p) PROVE TaskTypes'
  <2>1. PICK t \in Tokens : plans' \subseteq plans \cup
                 {[token |-> t, principal |-> p, expiresAt |-> clock + PlanLifetime]}
    BY <1>1 DEF S!DryRun, S!Live
  <2>2. [token |-> t, principal |-> p, expiresAt |-> clock + PlanLifetime] \in S!Plan
    BY ReviewedAssumption DEF S!Plan, StocktakeTypes
  <2>3. UNCHANGED S!inventree
    BY <1>1 DEF S!DryRun
  <2>4. QED
    BY <2>1, <2>2, <2>3 DEF StocktakeTypes, TaskTypes, S!inventree
<1>2. ASSUME NEW c \in Generators, NEW p \in Principals, S!Consume(c, p) PROVE TaskTypes'
  BY <1>2 DEF S!Consume, S!stores, S!inventree, StocktakeTypes, TaskTypes
<1>3. ASSUME NEW c \in Generators, NEW p \in Principals, NEW k \in TaskIDs, S!Lookup(c, p, k) PROVE TaskTypes'
  BY <1>3 DEF S!Lookup, S!stores, S!inventree, StocktakeTypes, TaskTypes
<1>4. ASSUME NEW c \in Generators, S!Reserve(c) PROVE TaskTypes'
  BY <1>4 DEF S!Reserve, S!stores, S!inventree, StocktakeTypes, TaskTypes
<1>5. ASSUME NEW c \in Generators, S!Enqueue(c) PROVE TaskTypes'
  <2>1. plans' = plans /\ token[c] \in Tokens
    BY <1>5 DEF S!Enqueue, S!stores, StocktakeTypes
  <2>2. \/ UNCHANGED S!inventree
        \/ \E k \in TaskIDs : S!Accepted(c, k)
    BY <1>5 DEF S!Enqueue
  <2>3. QED
    BY <2>1, <2>2 DEF S!Accepted, S!inventree, StocktakeTypes, TaskTypes
<1>6. ASSUME NEW c \in Generators, S!Bind(c) PROVE TaskTypes'
  BY <1>6 DEF S!Bind, S!stores, S!inventree, StocktakeTypes, TaskTypes
<1>7. ASSUME NEW c \in Generators, S!FailToBind(c) PROVE TaskTypes'
  BY <1>7 DEF S!FailToBind, S!stores, S!inventree, StocktakeTypes, TaskTypes
<1>8. ASSUME NEW c \in Generators, S!Release(c) PROVE TaskTypes'
  BY <1>8 DEF S!Release, S!stores, S!inventree, StocktakeTypes, TaskTypes
<1>9. ASSUME NEW c \in Generators, S!EndPoll(c) PROVE TaskTypes'
  BY <1>9 DEF S!EndPoll, S!stores, S!inventree, StocktakeTypes, TaskTypes
<1>10. ASSUME S!Tick PROVE TaskTypes'
  BY <1>10 DEF S!Tick, S!stores, S!inventree, StocktakeTypes, TaskTypes
<1>11. QED
  BY <1>1, <1>2, <1>3, <1>4, <1>5, <1>6, <1>7, <1>8, <1>9, <1>10 DEF S!Next

LEMMA StocktakeTypesStep ==
  ASSUME StocktakeTypes, S!Next
  PROVE  StocktakeTypes'
BY ClockStep, HandlesTypes, CallTypesStep, TaskTypesStep DEF StocktakeTypes, CallTypes, TaskTypes

\* A step moves no reservation, or takes one, or gives one back.
Unmoved == reservations' = reservations /\ \A p \in Principals : S!InFlight(p)' = S!InFlight(p)
Taken(c, p) ==
  /\ p = who[c] /\ reservations' = [reservations EXCEPT ![p] = @ + 1]
  /\ S!InFlight(p)' = S!InFlight(p) \cup {c} /\ c \notin S!InFlight(p)
  /\ \A q \in Principals : q # p => S!InFlight(q)' = S!InFlight(q)
Given(c, p) ==
  /\ p = who[c] /\ reservations' = S!WithoutReservation(p)
  /\ S!InFlight(p)' = S!InFlight(p) \ {c} /\ c \in S!InFlight(p)
  /\ \A q \in Principals : q # p => S!InFlight(q)' = S!InFlight(q)

\* That is all that happens to them.
LEMMA ReservationStep ==
  ASSUME StocktakeTypes, S!Next
  PROVE  \/ Unmoved
         \/ \E c \in Generators, p \in Principals : S!Reserve(c) /\ ~S!NoRoom(p) /\ Taken(c, p)
         \/ \E c \in Generators, p \in Principals : (S!Bind(c) \/ S!Release(c)) /\ Given(c, p)
<1>1. ASSUME NEW c \in Generators, NEW p \in Principals, S!DryRun(c, p) PROVE
           \/ Unmoved
           \/ \E d \in Generators, q \in Principals : S!Reserve(d) /\ ~S!NoRoom(q) /\ Taken(d, q)
           \/ \E d \in Generators, q \in Principals : (S!Bind(d) \/ S!Release(d)) /\ Given(d, q)
  <2>1. reservations' = reservations
    BY <1>1 DEF S!DryRun, S!stores
  <2>2. UNCHANGED <<stage, who>>
    BY <1>1 DEF S!DryRun, S!callers
  <2>3. QED
    BY <2>1, <2>2 DEF Unmoved, S!InFlight
<1>2. ASSUME NEW c \in Generators, NEW p \in Principals, S!Consume(c, p) PROVE
           \/ Unmoved
           \/ \E d \in Generators, q \in Principals : S!Reserve(d) /\ ~S!NoRoom(q) /\ Taken(d, q)
           \/ \E d \in Generators, q \in Principals : (S!Bind(d) \/ S!Release(d)) /\ Given(d, q)
  <2>1. reservations' = reservations /\ who' = [who EXCEPT ![c] = p] /\ stage[c] = "idle"
        /\ stage' = [stage EXCEPT ![c] = "reserving"]
    BY <1>2 DEF S!Consume, S!Goto
  <2>2. stage'[c] = "reserving"
        /\ \A d \in Generators : d # c => stage'[d] = stage[d] /\ who'[d] = who[d]
    BY <2>1 DEF StocktakeTypes
  <2>3. QED
    BY <2>1, <2>2 DEF Unmoved, S!InFlight
<1>3. ASSUME NEW c \in Generators, NEW p \in Principals, NEW k \in TaskIDs, S!Lookup(c, p, k) PROVE
           \/ Unmoved
           \/ \E d \in Generators, q \in Principals : S!Reserve(d) /\ ~S!NoRoom(q) /\ Taken(d, q)
           \/ \E d \in Generators, q \in Principals : (S!Bind(d) \/ S!Release(d)) /\ Given(d, q)
  <2>1. reservations' = reservations /\ stage[c] = "idle"
        /\ \/ UNCHANGED <<stage, who>>
           \/ who' = [who EXCEPT ![c] = p] /\ stage' = [stage EXCEPT ![c] = "polling"]
    BY <1>3 DEF S!Lookup, S!Goto
  <2>2. stage'[c] \in {"idle", "polling"}
        /\ \A d \in Generators : d # c => stage'[d] = stage[d] /\ who'[d] = who[d]
    BY <2>1 DEF StocktakeTypes
  <2>3. QED
    BY <2>1, <2>2 DEF Unmoved, S!InFlight
<1>4. ASSUME NEW c \in Generators, S!Reserve(c) PROVE
           \/ Unmoved
           \/ \E d \in Generators, q \in Principals : S!Reserve(d) /\ ~S!NoRoom(q) /\ Taken(d, q)
           \/ \E d \in Generators, q \in Principals : (S!Bind(d) \/ S!Release(d)) /\ Given(d, q)
  <2>1. who' = who /\ stage[c] = "reserving"
    BY <1>4 DEF S!Reserve
  <2>2. CASE S!NoRoom(who[c])
    <3>1. reservations' = reservations /\ stage' = [stage EXCEPT ![c] = "idle"]
      BY <1>4, <2>2 DEF S!Reserve, S!Goto
    <3>2. stage'[c] = "idle" /\ \A d \in Generators : d # c => stage'[d] = stage[d]
      BY <3>1 DEF StocktakeTypes
    <3>3. QED
      BY <2>1, <3>1, <3>2 DEF Unmoved, S!InFlight
  <2>3. CASE ~S!NoRoom(who[c])
    <3>1. /\ reservations' = [reservations EXCEPT ![who[c]] = @ + 1]
          /\ stage' = [stage EXCEPT ![c] = "enqueuing"]
      BY <1>4, <2>3 DEF S!Reserve, S!Goto
    <3>2. stage'[c] = "enqueuing" /\ \A d \in Generators : d # c => stage'[d] = stage[d]
      BY <3>1 DEF StocktakeTypes
    <3>3. who[c] \in Principals
      BY <2>1 DEF StocktakeTypes
    <3>4. Taken(c, who[c])
      BY <2>1, <3>1, <3>2, <3>3 DEF Taken, S!InFlight
    <3>5. QED
      BY <1>4, <2>3, <3>3, <3>4
  <2>4. QED
    BY <2>2, <2>3
<1>5. ASSUME NEW c \in Generators, S!Enqueue(c) PROVE
           \/ Unmoved
           \/ \E d \in Generators, q \in Principals : S!Reserve(d) /\ ~S!NoRoom(q) /\ Taken(d, q)
           \/ \E d \in Generators, q \in Principals : (S!Bind(d) \/ S!Release(d)) /\ Given(d, q)
  <2>1. reservations' = reservations /\ who' = who /\ stage[c] = "enqueuing"
        /\ \E a \in TaskIDs \cup {NoTask} : S!Answered(c, a)
    BY <1>5 DEF S!Enqueue, S!Accepted, S!stores, StocktakeTypes
  <2>2. \E x \in {"binding", "releasing"} : stage' = [stage EXCEPT ![c] = x]
    BY <2>1 DEF S!Answered, S!Goto
  <2>3. stage'[c] \in {"binding", "releasing"} /\ \A d \in Generators : d # c => stage'[d] = stage[d]
    BY <2>2 DEF StocktakeTypes
  <2>4. QED
    BY <2>1, <2>3 DEF Unmoved, S!InFlight
<1>6. ASSUME NEW c \in Generators, S!Bind(c) PROVE
           \/ Unmoved
           \/ \E d \in Generators, q \in Principals : S!Reserve(d) /\ ~S!NoRoom(q) /\ Taken(d, q)
           \/ \E d \in Generators, q \in Principals : (S!Bind(d) \/ S!Release(d)) /\ Given(d, q)
  <2>1. /\ stage[c] = "binding" /\ who' = who /\ reservations' = S!WithoutReservation(who[c])
        /\ stage' = [stage EXCEPT ![c] = "idle"]
    BY <1>6 DEF S!Bind, S!Goto
  <2>2. who[c] \in Principals
    BY <2>1 DEF StocktakeTypes
  <2>3. stage'[c] = "idle" /\ \A d \in Generators : d # c => stage'[d] = stage[d]
    BY <2>1 DEF StocktakeTypes
  <2>4. Given(c, who[c])
    BY <2>1, <2>2, <2>3 DEF Given, S!InFlight
  <2>5. QED
    BY <1>6, <2>2, <2>4
<1>7. ASSUME NEW c \in Generators, S!FailToBind(c) PROVE
           \/ Unmoved
           \/ \E d \in Generators, q \in Principals : S!Reserve(d) /\ ~S!NoRoom(q) /\ Taken(d, q)
           \/ \E d \in Generators, q \in Principals : (S!Bind(d) \/ S!Release(d)) /\ Given(d, q)
  <2>1. reservations' = reservations /\ who' = who /\ stage[c] = "binding"
        /\ stage' = [stage EXCEPT ![c] = "releasing"]
    BY <1>7 DEF S!FailToBind, S!Goto, S!stores
  <2>2. stage'[c] = "releasing" /\ \A d \in Generators : d # c => stage'[d] = stage[d]
    BY <2>1 DEF StocktakeTypes
  <2>3. QED
    BY <2>1, <2>2 DEF Unmoved, S!InFlight
<1>8. ASSUME NEW c \in Generators, S!Release(c) PROVE
           \/ Unmoved
           \/ \E d \in Generators, q \in Principals : S!Reserve(d) /\ ~S!NoRoom(q) /\ Taken(d, q)
           \/ \E d \in Generators, q \in Principals : (S!Bind(d) \/ S!Release(d)) /\ Given(d, q)
  <2>1. /\ stage[c] = "releasing" /\ who' = who /\ reservations' = S!WithoutReservation(who[c])
        /\ stage' = [stage EXCEPT ![c] = "idle"]
    BY <1>8 DEF S!Release, S!Goto
  <2>2. who[c] \in Principals
    BY <2>1 DEF StocktakeTypes
  <2>3. stage'[c] = "idle" /\ \A d \in Generators : d # c => stage'[d] = stage[d]
    BY <2>1 DEF StocktakeTypes
  <2>4. Given(c, who[c])
    BY <2>1, <2>2, <2>3 DEF Given, S!InFlight
  <2>5. QED
    BY <1>8, <2>2, <2>4
<1>9. ASSUME NEW c \in Generators, S!EndPoll(c) PROVE
           \/ Unmoved
           \/ \E d \in Generators, q \in Principals : S!Reserve(d) /\ ~S!NoRoom(q) /\ Taken(d, q)
           \/ \E d \in Generators, q \in Principals : (S!Bind(d) \/ S!Release(d)) /\ Given(d, q)
  <2>1. reservations' = reservations /\ who' = who /\ stage[c] = "polling"
        /\ stage' = [stage EXCEPT ![c] = "idle"]
    BY <1>9 DEF S!EndPoll, S!Goto, S!stores
  <2>2. stage'[c] = "idle" /\ \A d \in Generators : d # c => stage'[d] = stage[d]
    BY <2>1 DEF StocktakeTypes
  <2>3. QED
    BY <2>1, <2>2 DEF Unmoved, S!InFlight
<1>10. ASSUME S!Tick PROVE
           \/ Unmoved
           \/ \E d \in Generators, q \in Principals : S!Reserve(d) /\ ~S!NoRoom(q) /\ Taken(d, q)
           \/ \E d \in Generators, q \in Principals : (S!Bind(d) \/ S!Release(d)) /\ Given(d, q)
  <2>1. reservations' = reservations
    BY <1>10 DEF S!Tick, S!stores
  <2>2. UNCHANGED <<stage, who>>
    BY <1>10 DEF S!Tick, S!callers
  <2>3. QED
    BY <2>1, <2>2 DEF Unmoved, S!InFlight
<1>11. QED
  BY <1>1, <1>2, <1>3, <1>4, <1>5, <1>6, <1>7, <1>8, <1>9, <1>10 DEF S!Next

LEMMA ReservationsKept ==
  ASSUME StocktakeTypes, ReservationInv, S!Next
  PROVE  ReservationInv'
<1>1. CASE Unmoved
  BY <1>1 DEF Unmoved, ReservationInv
<1>2. ASSUME NEW c \in Generators, NEW p \in Principals, Taken(c, p) PROVE ReservationInv'
  <2> DEFINE F == S!InFlight(p)
  <2>1. IsFiniteSet(F) /\ reservations[p] = Cardinality(F) /\ c \notin F
        /\ S!InFlight(p)' = F \cup {c}
    BY <1>2 DEF ReservationInv, Taken
  <2>2. /\ reservations'[p] = reservations[p] + 1
        /\ \A q \in Principals : q # p => reservations'[q] = reservations[q]
                                         /\ S!InFlight(q)' = S!InFlight(q)
    BY <1>2 DEF Taken, StocktakeTypes
  <2> HIDE DEF F
  <2>3. IsFiniteSet(F \cup {c}) /\ Cardinality(F \cup {c}) = Cardinality(F) + 1
    BY <2>1, Counting
  <2>4. QED
    BY <2>1, <2>2, <2>3 DEF ReservationInv
<1>3. ASSUME NEW c \in Generators, NEW p \in Principals, Given(c, p) PROVE ReservationInv'
  <2> DEFINE F == S!InFlight(p)
  <2>1. /\ IsFiniteSet(F) /\ reservations[p] = Cardinality(F) /\ c \in F
        /\ S!InFlight(p)' = F \ {c} /\ reservations' = S!WithoutReservation(p)
        /\ \A q \in Principals : q # p => S!InFlight(q)' = S!InFlight(q)
    BY <1>3 DEF ReservationInv, Given
  <2> HIDE DEF F
  <2>2. /\ IsFiniteSet(F \ {c}) /\ Cardinality(F \ {c}) = Cardinality(F) - 1
        /\ Cardinality(F) \in Nat /\ Cardinality(F \ {c}) \in Nat
    BY <2>1, Counting
  <2>3. /\ reservations'[p] = Cardinality(F \ {c})
        /\ \A q \in Principals : q # p => reservations'[q] = reservations[q]
    BY <2>1, <2>2, GivingBack
  <2>4. QED
    BY <2>1, <2>2, <2>3 DEF ReservationInv
<1>4. QED
  BY <1>1, <1>2, <1>3, ReservationStep

\* The reservations, one by one.
SlotsUpTo(r) == {s \in Principals \X Nat : s[2] > 0 /\ s[2] <= r[s[1]]}

LEMMA SlotsAre ==
  ASSUME NEW r \in [Principals -> Nat]
  PROVE  UNION {{p} \X (1..r[p]) : p \in Principals} = SlotsUpTo(r)
<1> DEFINE All == UNION {{p} \X (1..r[p]) : p \in Principals}
<1>1. \A p \in Principals : r[p] \in Nat /\ \A n \in 1..r[p] : n \in Nat
  OBVIOUS
<1>2. ASSUME NEW s \in All
      PROVE  s \in Principals \X Nat /\ s[2] > 0 /\ s[2] <= r[s[1]]
  <2>1. PICK p \in Principals : s \in {p} \X (1..r[p])
    OBVIOUS
  <2>2. s[1] = p /\ s[2] \in 1..r[p] /\ s = <<p, s[2]>>
    BY <2>1
  <2>3. QED
    BY <1>1, <2>2
<1>3. ASSUME NEW s \in Principals \X Nat, s[2] > 0, s[2] <= r[s[1]]
      PROVE  s \in All
  <2>1. s[1] \in Principals /\ s[2] \in 1..r[s[1]] /\ s = <<s[1], s[2]>>
    BY <1>1, <1>3
  <2>2. s \in {s[1]} \X (1..r[s[1]])
    BY <2>1
  <2>3. QED
    BY <2>1, <2>2
<1>4. QED
  BY <1>2, <1>3 DEF SlotsUpTo

LEMMA SlotTaken ==
  ASSUME StocktakeTypes, StocktakeTypes', IsFiniteSet(Slots), NEW p \in Principals,
         reservations' = [reservations EXCEPT ![p] = @ + 1]
  PROVE  IsFiniteSet(Slots') /\ Cardinality(Slots') <= Cardinality(Slots) + 1
         /\ Cardinality(Slots) \in Nat /\ Cardinality(Slots') \in Nat
<1> DEFINE new == <<p, reservations[p] + 1>>
<1>1. reservations[p] \in Nat /\ reservations'[p] = reservations[p] + 1
      /\ \A q \in Principals : q # p => reservations'[q] = reservations[q]
  BY DEF StocktakeTypes
<1>2. Slots' = SlotsUpTo(reservations') /\ Slots = SlotsUpTo(reservations)
  BY SlotsAre DEF StocktakeTypes, Slots
<1>3. ASSUME NEW s \in Slots' PROVE s \in Slots \cup {new}
  <2>1. s \in Principals \X Nat /\ s[2] > 0 /\ s[2] <= reservations'[s[1]] /\ s = <<s[1], s[2]>>
    BY <1>2 DEF SlotsUpTo
  <2>2. CASE s[1] # p
    BY <1>1, <2>1, <2>2, <1>2 DEF SlotsUpTo
  <2>3. CASE s[1] = p /\ s[2] = reservations[p] + 1
    BY <2>1, <2>3
  <2>4. CASE s[1] = p /\ s[2] # reservations[p] + 1
    <3>1. s[2] <= reservations[s[1]]
      BY <1>1, <2>1, <2>4
    <3>2. QED
      BY <2>1, <3>1, <1>2 DEF SlotsUpTo
  <2>5. QED
    BY <2>2, <2>3, <2>4
<1> HIDE DEF new
<1>4. IsFiniteSet(Slots \cup {new}) /\ Cardinality(Slots \cup {new}) <= Cardinality(Slots) + 1
      /\ Cardinality(Slots) \in Nat /\ Cardinality(Slots \cup {new}) \in Nat
  BY Counting
<1>5. IsFiniteSet(Slots') /\ Cardinality(Slots') <= Cardinality(Slots \cup {new})
  <2>1. Slots' \in SUBSET (Slots \cup {new})
    BY <1>3
  <2>2. QED
    BY <1>4, <2>1, FS_Subset
<1>6. Cardinality(Slots') \in Nat
  BY <1>5, FS_CardinalityType
<1>7. QED
  BY <1>4, <1>5, <1>6

LEMMA SlotGiven ==
  ASSUME StocktakeTypes, StocktakeTypes', IsFiniteSet(Slots), NEW p \in Principals,
         reservations' = S!WithoutReservation(p), reservations[p] > 0
  PROVE  IsFiniteSet(Slots') /\ Cardinality(Slots') <= Cardinality(Slots) - 1
         /\ Cardinality(Slots) \in Nat /\ Cardinality(Slots') \in Nat
<1> DEFINE old == <<p, reservations[p]>>
<1>1. reservations[p] \in Nat /\ reservations'[p] = reservations[p] - 1
      /\ \A q \in Principals : q # p => reservations'[q] = reservations[q]
  BY GivingBack DEF StocktakeTypes
<1>2. Slots' = SlotsUpTo(reservations') /\ Slots = SlotsUpTo(reservations)
  BY SlotsAre DEF StocktakeTypes, Slots
<1>3. old \in Slots
  BY <1>1, <1>2 DEF SlotsUpTo
<1>4. ASSUME NEW s \in Slots' PROVE s \in Slots \ {old}
  <2>1. s \in Principals \X Nat /\ s[2] > 0 /\ s[2] <= reservations'[s[1]]
    BY <1>2 DEF SlotsUpTo
  <2>2. CASE s[1] # p
    BY <1>1, <2>1, <2>2, <1>2 DEF SlotsUpTo
  <2>3. CASE s[1] = p
    <3>1. s[2] <= reservations[s[1]] /\ s[2] # reservations[p]
      BY <1>1, <2>1, <2>3
    <3>2. QED
      BY <2>1, <3>1, <1>2 DEF SlotsUpTo
  <2>4. QED
    BY <2>2, <2>3
<1> HIDE DEF old
<1>5. IsFiniteSet(Slots \ {old}) /\ Cardinality(Slots \ {old}) = Cardinality(Slots) - 1
      /\ Cardinality(Slots) \in Nat /\ Cardinality(Slots \ {old}) \in Nat
  BY <1>3, Counting
<1>6. IsFiniteSet(Slots') /\ Cardinality(Slots') <= Cardinality(Slots \ {old})
  <2>1. Slots' \in SUBSET (Slots \ {old})
    BY <1>4
  <2>2. QED
    BY <1>5, <2>1, FS_Subset
<1>7. Cardinality(Slots') \in Nat
  BY <1>6, FS_CardinalityType
<1>8. QED
  BY <1>5, <1>6, <1>7

AliveCounted ==
  /\ IsFiniteSet(Alive) /\ Cardinality(Alive) \in Nat
  /\ \A p : IsFiniteSet(AliveOf(p)) /\ Cardinality(AliveOf(p)) \in Nat

LEMMA AliveFinite == StocktakeTypes => AliveCounted
<1> SUFFICES ASSUME StocktakeTypes PROVE AliveCounted
  OBVIOUS
<1>1. Alive \subseteq handles /\ \A p : AliveOf(p) \subseteq handles
  BY DEF Alive, AliveOf, S!Live, S!OfPrincipal
<1>2. IsFiniteSet(Alive) /\ \A p : IsFiniteSet(AliveOf(p))
  BY <1>1, FS_Subset DEF StocktakeTypes
<1>3. QED
  BY <1>2, FS_CardinalityType DEF AliveCounted

\* No more handles are alive than before.
LEMMA Fewer ==
  ASSUME StocktakeTypes, StocktakeTypes', handles' \subseteq handles, S!Next
  PROVE  /\ Cardinality(Alive') <= Cardinality(Alive)
         /\ \A p : Cardinality(AliveOf(p)') <= Cardinality(AliveOf(p))
<1>1. Alive' \subseteq Alive /\ \A p : AliveOf(p)' \subseteq AliveOf(p)
  BY ClockStep, Shrinking
<1>2. Cardinality(Alive') <= Cardinality(Alive)
  BY <1>1, AliveFinite, FS_Subset DEF AliveCounted
<1>3. ASSUME NEW p PROVE Cardinality(AliveOf(p)') <= Cardinality(AliveOf(p))
  <2>1. IsFiniteSet(AliveOf(p)) /\ AliveOf(p)' \in SUBSET AliveOf(p)
    BY <1>1, AliveFinite DEF AliveCounted
  <2>2. QED
    BY <2>1, FS_Subset
<1>4. QED
  BY <1>2, <1>3

LEMMA SameCardinality ==
  ASSUME NEW T
  PROVE  S!Cardinality(T) = Cardinality(T)
BY DEF Cardinality, S!Cardinality

LEMMA RoomKept ==
  ASSUME StocktakeTypes, ReservationInv, RoomInv, S!Next
  PROVE  RoomInv'
<1>1. StocktakeTypes' /\ MaxTasks \in Nat /\ MaxTasksPerPrincipal \in Nat
  BY StocktakeTypesStep, ReviewedAssumption
<1>2. /\ IsFiniteSet(Slots) /\ Cardinality(Slots) \in Nat
      /\ Cardinality(Alive) + Cardinality(Slots) <= MaxTasks
  BY FS_CardinalityType DEF RoomInv
<1>3. /\ Cardinality(Alive) \in Nat /\ Cardinality(Alive') \in Nat
      /\ \A p : Cardinality(AliveOf(p)) \in Nat /\ Cardinality(AliveOf(p)') \in Nat
  <2>1. AliveCounted
    BY AliveFinite
  <2>2. AliveCounted'
    BY <1>1, AliveFinite, PTL
  <2>3. QED
    BY <2>1, <2>2 DEF AliveCounted
<1>4. \A p \in Principals : reservations[p] \in Nat /\ reservations'[p] \in Nat
  BY <1>1 DEF StocktakeTypes
<1>5. ASSUME handles' \subseteq handles, Cardinality(Slots') \in Nat, IsFiniteSet(Slots'),
             Cardinality(Slots') <= Cardinality(Slots),
             \A p \in Principals : reservations'[p] <= reservations[p]
      PROVE  RoomInv'
  <2>1. /\ Cardinality(Alive') <= Cardinality(Alive)
        /\ \A p : Cardinality(AliveOf(p)') <= Cardinality(AliveOf(p))
    BY <1>1, <1>5, Fewer
  <2>2. Cardinality(Alive') + Cardinality(Slots') <= MaxTasks
    BY <1>1, <1>2, <1>3, <1>5, <2>1
  <2>3. ASSUME NEW p \in Principals
        PROVE  Cardinality(AliveOf(p)') + reservations'[p] <= MaxTasksPerPrincipal
    <3>1. Cardinality(AliveOf(p)) + reservations[p] <= MaxTasksPerPrincipal
      BY DEF RoomInv
    <3>2. QED
      BY <1>1, <1>3, <1>4, <1>5, <2>1, <3>1
  <2>4. QED
    BY <1>5, <2>2, <2>3 DEF RoomInv
<1>6. ASSUME NEW c \in Generators, S!Bind(c)
      PROVE  who[c] \in Principals /\ reservations[who[c]] > 0
             /\ reservations' = S!WithoutReservation(who[c])
  BY <1>6 DEF S!Bind, S!Bindable, StocktakeTypes
<1>7. CASE Unmoved
  <2>1. \A c \in Generators : ~S!Bind(c)
    <3>1. ASSUME NEW c \in Generators, S!Bind(c) PROVE FALSE
      <4>1. reservations'[who[c]] = reservations[who[c]] - 1 /\ who[c] \in Principals
        BY <1>6, <3>1, GivingBack
      <4>2. QED
        BY <1>4, <1>7, <4>1 DEF Unmoved
    <3>2. QED
      BY <3>1
  <2>2. handles' \subseteq handles /\ reservations' = reservations
    BY <1>7, <2>1, HandlesStep DEF Unmoved
  <2>3. Slots' = Slots
    BY <2>2 DEF Slots
  <2>4. QED
    BY <1>2, <1>4, <1>5, <2>2, <2>3
<1>8. ASSUME NEW c \in Generators, NEW p \in Principals, S!Reserve(c), ~S!NoRoom(p), Taken(c, p)
      PROVE  RoomInv'
  <2>1. handles' \subseteq handles
    BY <1>8 DEF S!Reserve, S!Live
  <2>2. /\ Cardinality(Alive') <= Cardinality(Alive)
        /\ \A q : Cardinality(AliveOf(q)') <= Cardinality(AliveOf(q))
    BY <1>1, <2>1, Fewer
  <2>3. /\ IsFiniteSet(Slots') /\ Cardinality(Slots') <= Cardinality(Slots) + 1
        /\ Cardinality(Slots') \in Nat
    BY <1>1, <1>2, <1>8, SlotTaken DEF Taken
  <2>4. /\ ~(Cardinality(Alive) + Cardinality(Slots) >= MaxTasks)
        /\ ~(Cardinality(AliveOf(p)) + reservations[p] >= MaxTasksPerPrincipal)
    BY <1>8, SameCardinality DEF S!NoRoom, S!Reserved, Alive, AliveOf, Slots
  <2>5. Cardinality(Alive') + Cardinality(Slots') <= MaxTasks
    BY <1>1, <1>2, <1>3, <2>2, <2>3, <2>4
  <2>6. ASSUME NEW q \in Principals
        PROVE  Cardinality(AliveOf(q)') + reservations'[q] <= MaxTasksPerPrincipal
    <3>1. CASE q = p
      <4>1. reservations'[p] = reservations[p] + 1
        BY <1>8 DEF Taken, StocktakeTypes
      <4>2. QED
        BY <1>1, <1>3, <1>4, <2>2, <2>4, <3>1, <4>1
    <3>2. CASE q # p
      <4>1. reservations'[q] = reservations[q]
            /\ Cardinality(AliveOf(q)) + reservations[q] <= MaxTasksPerPrincipal
        BY <1>8, <3>2 DEF Taken, StocktakeTypes, RoomInv
      <4>2. QED
        BY <1>1, <1>3, <1>4, <2>2, <4>1
    <3>3. QED
      BY <3>1, <3>2
  <2>7. QED
    BY <2>3, <2>5, <2>6 DEF RoomInv
<1>9. ASSUME NEW c \in Generators, NEW p \in Principals, S!Bind(c) \/ S!Release(c), Given(c, p)
      PROVE  RoomInv'
  <2>1. reservations[p] > 0
    <3>1. IsFiniteSet(S!InFlight(p)) /\ S!InFlight(p) # {} /\ reservations[p] = Cardinality(S!InFlight(p))
      BY <1>9 DEF ReservationInv, Given
    <3>2. Cardinality(S!InFlight(p)) # 0
      BY <3>1, FS_EmptySet
    <3>3. QED
      BY <1>4, <3>1, <3>2
  <2>2. /\ reservations' = S!WithoutReservation(p) /\ p = who[c]
        /\ reservations'[p] = reservations[p] - 1
        /\ \A q \in Principals : q # p => reservations'[q] = reservations[q]
    BY <1>9, <2>1, GivingBack DEF Given
  <2>3. /\ IsFiniteSet(Slots') /\ Cardinality(Slots') <= Cardinality(Slots) - 1
        /\ Cardinality(Slots') \in Nat
    BY <1>1, <1>2, <2>1, <2>2, SlotGiven
  <2>4. CASE S!Release(c)
    <3>1. handles' = handles
      BY <2>4 DEF S!Release
    <3>2. \A q \in Principals : reservations'[q] <= reservations[q]
      BY <1>4, <2>2
    <3>3. QED
      BY <1>2, <1>5, <2>3, <3>1, <3>2
  <2>5. CASE S!Bind(c)
    <3>1. PICK h \in S!Handle : /\ h.principal = who[c] /\ Alive' = Alive \cup {h}
                                /\ handles' = Alive \cup {h}
      BY <2>5, Binding
    <3>2. Cardinality(Alive') <= Cardinality(Alive) + 1
      BY <1>1, <3>1, AliveFinite, Counting DEF AliveCounted
    <3>3. Cardinality(Alive') + Cardinality(Slots') <= MaxTasks
      BY <1>1, <1>2, <1>3, <2>3, <3>2
    <3>4. \A q : AliveOf(q) = {g \in Alive : g.principal = q}
                 /\ AliveOf(q)' = {g \in Alive' : g.principal = q}
      BY DEF AliveOf, Alive, S!OfPrincipal
    <3>5. ASSUME NEW q \in Principals
          PROVE  Cardinality(AliveOf(q)') + reservations'[q] <= MaxTasksPerPrincipal
      <4>1. Cardinality(AliveOf(q)) + reservations[q] <= MaxTasksPerPrincipal
        BY DEF RoomInv
      <4>2. CASE q = p
        <5>1. AliveOf(q)' = AliveOf(q) \cup {h}
          BY <2>2, <3>1, <3>4, <4>2
        <5>2. Cardinality(AliveOf(q)') <= Cardinality(AliveOf(q)) + 1
          BY <1>1, <5>1, AliveFinite, Counting DEF AliveCounted
        <5>3. QED
          BY <1>1, <1>3, <1>4, <2>2, <4>1, <4>2, <5>2
      <4>3. CASE q # p
        <5>1. AliveOf(q)' = AliveOf(q)
          BY <2>2, <3>1, <3>4, <4>3
        <5>2. QED
          BY <2>2, <4>1, <4>3, <5>1
      <4>4. QED
        BY <4>2, <4>3
    <3>6. QED
      BY <2>3, <3>3, <3>5 DEF RoomInv
  <2>6. QED
    BY <1>9, <2>4, <2>5
<1>10. QED
  BY <1>7, <1>8, <1>9, ReservationStep

\* A step that draws, plans, starts and enqueues nothing leaves the tokens what they are.
LEMMA TokensQuiet ==
  ASSUME TokenInv, drawn' = drawn, enqueued' = enqueued, plans' \subseteq plans,
         \A d \in Generators : Owing(d)' => Owing(d) /\ token'[d] = token[d]
  PROVE  TokenInv'
<1>1. \A d \in Generators : Owing(d)' => Owing(d) /\ token'[d] = token[d]
  OBVIOUS
<1> HIDE DEF Owing
<1>2. \A c, d \in Generators : Owing(c)' /\ Owing(d)' /\ token'[c] = token'[d] => c = d
  BY <1>1 DEF TokenInv
<1>3. QED
  BY <1>1, <1>2 DEF TokenInv

\* A token is spent on one plan, and its call on one request.
LEMMA TokensKept ==
  ASSUME StocktakeTypes, TokenInv, S!Next
  PROVE  TokenInv'
<1>1. ASSUME NEW c \in Generators, NEW p \in Principals, S!DryRun(c, p) PROVE TokenInv'
  <2>1. PICK t \in Tokens \ drawn :
          /\ drawn' = drawn \cup {t}
          /\ plans' \subseteq plans \cup
               {[token |-> t, principal |-> p, expiresAt |-> clock + PlanLifetime]}
    BY <1>1 DEF S!DryRun, S!Live
  <2>2. enqueued' = enqueued /\ stage' = stage /\ token' = token
    BY <1>1 DEF S!DryRun, S!inventree, S!callers
  <2> DEFINE new == [token |-> t, principal |-> p, expiresAt |-> clock + PlanLifetime]
  <2>3. new.token = t /\ plans' \subseteq plans \cup {new}
    BY <2>1
  <2> HIDE DEF new
  <2>4. \A e \in plans : e.token \in drawn /\ e.token # t
    BY DEF TokenInv
  <2>5. \A d \in Generators : Owing(d)' <=> Owing(d)
    BY <2>2 DEF Owing
  <2>6. ASSUME NEW e \in plans'
        PROVE  e.token \in drawn' /\ enqueued'[e.token] = 0
    BY <2>1, <2>2, <2>3 DEF TokenInv
  <2>7. ASSUME NEW e \in plans', NEW f \in plans', e.token = f.token PROVE e = f
    BY <2>3, <2>4, <2>7 DEF TokenInv
  <2>8. ASSUME NEW d \in Generators, Owing(d)
        PROVE  /\ token'[d] \in drawn' /\ enqueued'[token'[d]] = 0
               /\ \A e \in plans' : e.token # token'[d]
    <3>1. token[d] \in drawn /\ token[d] # t /\ enqueued[token[d]] = 0 /\ \A e \in plans : e.token # token[d]
      BY <2>8 DEF TokenInv
    <3>2. QED
      BY <2>1, <2>2, <2>3, <3>1
  <2>9. \A c1, d \in Generators : Owing(c1) /\ Owing(d) /\ token'[c1] = token'[d] => c1 = d
    BY <2>2 DEF TokenInv
  <2>10. \A u \in Tokens : u \notin drawn' => enqueued'[u] = 0
    BY <2>1, <2>2 DEF TokenInv
  <2>11. QED
    BY <2>5, <2>6, <2>7, <2>8, <2>9, <2>10 DEF TokenInv
<1>2. ASSUME NEW c \in Generators, NEW p \in Principals, S!Consume(c, p) PROVE TokenInv'
  <2>1. PICK e \in plans : plans' = plans \ {e} /\ token' = [token EXCEPT ![c] = e.token]
    BY <1>2 DEF S!Consume, S!Live, S!Spends
  <2>2. enqueued' = enqueued /\ drawn' = drawn /\ stage[c] = "idle"
        /\ stage' = [stage EXCEPT ![c] = "reserving"]
    BY <1>2 DEF S!Consume, S!inventree, S!Goto
  <2>3. /\ token'[c] = e.token /\ \A d \in Generators : d # c => token'[d] = token[d]
        /\ \A d \in Generators : d # c => (Owing(d)' <=> Owing(d))
    BY <2>1, <2>2 DEF StocktakeTypes, Owing
  <2>4. /\ e.token \in drawn /\ enqueued[e.token] = 0
        /\ \A f \in plans' : f.token # e.token
        /\ \A d \in Generators : Owing(d) => token[d] # e.token
    BY <2>1 DEF TokenInv
  <2>5. ASSUME NEW f \in plans'
        PROVE  f.token \in drawn' /\ enqueued'[f.token] = 0
    BY <2>1, <2>2 DEF TokenInv
  <2>6. ASSUME NEW f \in plans', NEW g \in plans', f.token = g.token PROVE f = g
    BY <2>1, <2>6 DEF TokenInv
  <2>7. ASSUME NEW d \in Generators, Owing(d)'
        PROVE  /\ token'[d] \in drawn' /\ enqueued'[token'[d]] = 0
               /\ \A f \in plans' : f.token # token'[d]
    <3>1. CASE d = c
      BY <2>2, <2>3, <2>4, <3>1
    <3>2. CASE d # c
      <4>1. Owing(d) /\ token'[d] = token[d]
        BY <2>3, <2>7, <3>2
      <4>2. QED
        BY <2>1, <2>2, <4>1 DEF TokenInv
    <3>3. QED
      BY <3>1, <3>2
  <2>8. ASSUME NEW b \in Generators, NEW d \in Generators, Owing(b)', Owing(d)', token'[b] = token'[d]
        PROVE  b = d
    <3>1. CASE b # c /\ d # c
      <4>1. Owing(b) /\ Owing(d) /\ token[b] = token[d]
        BY <2>3, <2>8, <3>1
      <4>2. QED
        BY <4>1 DEF TokenInv
    <3>2. CASE b = c /\ d # c
      BY <2>3, <2>4, <2>8, <3>2
    <3>3. CASE b # c /\ d = c
      BY <2>3, <2>4, <2>8, <3>3
    <3>4. QED
      BY <3>1, <3>2, <3>3
  <2>9. \A t \in Tokens : t \notin drawn' => enqueued'[t] = 0
    BY <2>2 DEF TokenInv
  <2>10. QED
    BY <2>5, <2>6, <2>7, <2>8, <2>9 DEF TokenInv
<1>3. ASSUME NEW c \in Generators, NEW p \in Principals, NEW k \in TaskIDs, S!Lookup(c, p, k) PROVE TokenInv'
  <2>1. drawn' = drawn /\ enqueued' = enqueued /\ plans' = plans /\ token' = token
    BY <1>3 DEF S!Lookup, S!inventree
  <2>2. stage[c] = "idle" /\ (stage' = stage \/ stage' = [stage EXCEPT ![c] = "polling"])
    BY <1>3 DEF S!Lookup, S!Goto
  <2>3. \A d \in Generators : Owing(d)' => Owing(d)
    BY <2>2 DEF StocktakeTypes, Owing
  <2>4. QED
    BY <2>1, <2>3, TokensQuiet
<1>4. ASSUME NEW c \in Generators, S!Reserve(c) PROVE TokenInv'
  <2>1. drawn' = drawn /\ enqueued' = enqueued /\ plans' = plans /\ token' = token
    BY <1>4 DEF S!Reserve, S!inventree
  <2>2. stage[c] = "reserving" /\ \E x : stage' = [stage EXCEPT ![c] = x]
    BY <1>4 DEF S!Reserve, S!Goto
  <2>3. \A d \in Generators : Owing(d)' => Owing(d)
    BY <2>2 DEF StocktakeTypes, Owing
  <2>4. QED
    BY <2>1, <2>3, TokensQuiet
<1>5. ASSUME NEW c \in Generators, S!Enqueue(c) PROVE TokenInv'
  <2>1. plans' = plans /\ drawn' = drawn /\ token' = token /\ stage[c] = "enqueuing"
    BY <1>5 DEF S!Enqueue, S!stores
  <2>2. \E a \in TaskIDs \cup {NoTask} : S!Answered(c, a)
    BY <1>5 DEF S!Enqueue, StocktakeTypes
  <2>3. \E x \in {"binding", "releasing"} : stage' = [stage EXCEPT ![c] = x]
    BY <2>2 DEF S!Answered, S!Goto
  <2>4. \A d \in Generators : Owing(d)' => Owing(d) /\ d # c
    BY <2>3 DEF StocktakeTypes, Owing
  <2>5. CASE enqueued' = enqueued
    BY <2>1, <2>4, <2>5, TokensQuiet
  <2>6. CASE enqueued' = [enqueued EXCEPT ![token[c]] = @ + 1]
    <3>1. /\ Owing(c) /\ token[c] \in drawn /\ \A e \in plans : e.token # token[c]
          /\ \A d \in Generators : Owing(d) /\ d # c => token[d] # token[c]
      BY <2>1 DEF TokenInv, Owing
    <3>2. \A t \in Tokens : t # token[c] => enqueued'[t] = enqueued[t]
      BY <2>6 DEF StocktakeTypes
    <3>3. \A e \in plans : e.token \in Tokens
      BY DEF StocktakeTypes, S!Plan
    <3>4. \A d \in Generators : Owing(d) => token[d] \in Tokens
      BY DEF StocktakeTypes, Owing
    <3>5. ASSUME NEW e \in plans'
          PROVE  e.token \in drawn' /\ enqueued'[e.token] = 0
      BY <2>1, <3>1, <3>2, <3>3 DEF TokenInv
    <3>6. ASSUME NEW d \in Generators, Owing(d)'
          PROVE  /\ token'[d] \in drawn' /\ enqueued'[token'[d]] = 0
                 /\ \A f \in plans' : f.token # token'[d]
      <4>1. Owing(d) /\ d # c
        BY <2>4, <3>6
      <4>2. token[d] # token[c] /\ token[d] \in Tokens
        BY <3>1, <3>4, <4>1
      <4>3. QED
        BY <2>1, <3>2, <4>1, <4>2 DEF TokenInv
    <3>7. \A t \in Tokens : t \notin drawn' => enqueued'[t] = 0
      BY <2>1, <3>1, <3>2 DEF TokenInv
    <3>8. \A b, d \in Generators : Owing(b)' /\ Owing(d)' /\ token'[b] = token'[d] => b = d
      BY <2>1, <2>4 DEF TokenInv
    <3>9. \A e, f \in plans' : e.token = f.token => e = f
      BY <2>1 DEF TokenInv
    <3>10. QED
      BY <3>5, <3>6, <3>7, <3>8, <3>9 DEF TokenInv
  <2>7. QED
    BY <1>5, <2>5, <2>6 DEF S!Enqueue, S!Accepted, S!inventree
<1>6. ASSUME NEW c \in Generators, S!Bind(c) PROVE TokenInv'
  <2>1. drawn' = drawn /\ enqueued' = enqueued /\ plans' = plans
    BY <1>6 DEF S!Bind, S!stores, S!inventree
  <2>2. \A d \in Generators : Owing(d)' => Owing(d) /\ token'[d] = token[d]
    BY <1>6 DEF S!Bind, S!Goto, S!callers, StocktakeTypes, Owing
  <2>3. QED
    BY <2>1, <2>2, TokensQuiet
<1>7. ASSUME NEW c \in Generators, S!FailToBind(c) PROVE TokenInv'
  <2>1. drawn' = drawn /\ enqueued' = enqueued /\ plans' = plans
    BY <1>7 DEF S!FailToBind, S!stores, S!inventree
  <2>2. \A d \in Generators : Owing(d)' => Owing(d) /\ token'[d] = token[d]
    BY <1>7 DEF S!FailToBind, S!Goto, S!callers, StocktakeTypes, Owing
  <2>3. QED
    BY <2>1, <2>2, TokensQuiet
<1>8. ASSUME NEW c \in Generators, S!Release(c) PROVE TokenInv'
  <2>1. drawn' = drawn /\ enqueued' = enqueued /\ plans' = plans
    BY <1>8 DEF S!Release, S!stores, S!inventree
  <2>2. \A d \in Generators : Owing(d)' => Owing(d) /\ token'[d] = token[d]
    BY <1>8 DEF S!Release, S!Goto, S!callers, StocktakeTypes, Owing
  <2>3. QED
    BY <2>1, <2>2, TokensQuiet
<1>9. ASSUME NEW c \in Generators, S!EndPoll(c) PROVE TokenInv'
  <2>1. drawn' = drawn /\ enqueued' = enqueued /\ plans' = plans
    BY <1>9 DEF S!EndPoll, S!stores, S!inventree
  <2>2. \A d \in Generators : Owing(d)' => Owing(d) /\ token'[d] = token[d]
    BY <1>9 DEF S!EndPoll, S!Goto, S!callers, StocktakeTypes, Owing
  <2>3. QED
    BY <2>1, <2>2, TokensQuiet
<1>10. ASSUME S!Tick PROVE TokenInv'
  <2>1. drawn' = drawn /\ enqueued' = enqueued /\ plans' = plans
    BY <1>10 DEF S!Tick, S!stores, S!inventree
  <2>2. \A d \in Generators : Owing(d)' => Owing(d) /\ token'[d] = token[d]
    BY <1>10 DEF S!Tick, S!Goto, S!callers, StocktakeTypes, Owing
  <2>3. QED
    BY <2>1, <2>2, TokensQuiet
<1>11. QED
  BY <1>1, <1>2, <1>3, <1>4, <1>5, <1>6, <1>7, <1>8, <1>9, <1>10 DEF S!Next

\* So a reviewed plan starts one generation.
LEMMA OnceEnqueued ==
  ASSUME StocktakeTypes, TokenInv, S!OneGenerationPerPlan, S!Next
  PROVE  S!OneGenerationPerPlan'
<1>1. ASSUME NEW c \in Generators, NEW p \in Principals, S!DryRun(c, p) PROVE S!OneGenerationPerPlan'
  <2>1. enqueued' = enqueued
    BY <1>1 DEF S!DryRun, S!inventree
  <2>2. QED
    BY <2>1 DEF S!OneGenerationPerPlan
<1>2. ASSUME NEW c \in Generators, NEW p \in Principals, S!Consume(c, p) PROVE S!OneGenerationPerPlan'
  <2>1. enqueued' = enqueued
    BY <1>2 DEF S!Consume, S!inventree
  <2>2. QED
    BY <2>1 DEF S!OneGenerationPerPlan
<1>3. ASSUME NEW c \in Generators, NEW p \in Principals, NEW k \in TaskIDs, S!Lookup(c, p, k) PROVE S!OneGenerationPerPlan'
  <2>1. enqueued' = enqueued
    BY <1>3 DEF S!Lookup, S!inventree
  <2>2. QED
    BY <2>1 DEF S!OneGenerationPerPlan
<1>4. ASSUME NEW c \in Generators, S!Reserve(c) PROVE S!OneGenerationPerPlan'
  <2>1. enqueued' = enqueued
    BY <1>4 DEF S!Reserve, S!inventree
  <2>2. QED
    BY <2>1 DEF S!OneGenerationPerPlan
<1>5. ASSUME NEW c \in Generators, S!Enqueue(c) PROVE S!OneGenerationPerPlan'
  <2>1. CASE enqueued' = enqueued
    BY <2>1 DEF S!OneGenerationPerPlan
  <2>2. CASE enqueued' = [enqueued EXCEPT ![token[c]] = @ + 1]
    <3>1. enqueued[token[c]] = 0
      BY <1>5 DEF S!Enqueue, TokenInv, Owing
    <3>2. \A t \in Tokens : enqueued'[t] = IF t = token[c] THEN enqueued[t] + 1 ELSE enqueued[t]
      BY <2>2 DEF StocktakeTypes
    <3>3. QED
      BY <3>1, <3>2 DEF S!OneGenerationPerPlan
  <2>3. QED
    BY <1>5, <2>1, <2>2 DEF S!Enqueue, S!Accepted, S!inventree
<1>6. ASSUME NEW c \in Generators, S!Bind(c) PROVE S!OneGenerationPerPlan'
  <2>1. enqueued' = enqueued
    BY <1>6 DEF S!Bind, S!inventree
  <2>2. QED
    BY <2>1 DEF S!OneGenerationPerPlan
<1>7. ASSUME NEW c \in Generators, S!FailToBind(c) PROVE S!OneGenerationPerPlan'
  <2>1. enqueued' = enqueued
    BY <1>7 DEF S!FailToBind, S!inventree
  <2>2. QED
    BY <2>1 DEF S!OneGenerationPerPlan
<1>8. ASSUME NEW c \in Generators, S!Release(c) PROVE S!OneGenerationPerPlan'
  <2>1. enqueued' = enqueued
    BY <1>8 DEF S!Release, S!inventree
  <2>2. QED
    BY <2>1 DEF S!OneGenerationPerPlan
<1>9. ASSUME NEW c \in Generators, S!EndPoll(c) PROVE S!OneGenerationPerPlan'
  <2>1. enqueued' = enqueued
    BY <1>9 DEF S!EndPoll, S!inventree
  <2>2. QED
    BY <2>1 DEF S!OneGenerationPerPlan
<1>10. ASSUME S!Tick PROVE S!OneGenerationPerPlan'
  <2>1. enqueued' = enqueued
    BY <1>10 DEF S!Tick, S!inventree
  <2>2. QED
    BY <2>1 DEF S!OneGenerationPerPlan
<1>11. QED
  BY <1>1, <1>2, <1>3, <1>4, <1>5, <1>6, <1>7, <1>8, <1>9, <1>10 DEF S!Next

\* Tasks are remembered when what is bound and said grows and no caller forgets one.
LEMMA Remembering ==
  ASSUME S!NoTaskForgotten, bound \subseteq bound', lost \subseteq lost',
         \A k \in accepted' : k \in accepted \/ k \in bound' \cup lost' \/
           \E c \in Generators : stage'[c] = "binding" /\ held'[c] = k,
         \A c \in Generators : stage[c] = "binding" =>
           \/ held[c] \in bound' \cup lost'
           \/ stage'[c] = "binding" /\ held'[c] = held[c]
  PROVE  S!NoTaskForgotten'
<1>1. ASSUME NEW k \in accepted' PROVE
        k \in bound' \cup lost' \/ \E c \in Generators : stage'[c] = "binding" /\ held'[c] = k
  <2>1. CASE k \in accepted
    <3>1. k \in bound \cup lost \/ \E c \in Generators : stage[c] = "binding" /\ held[c] = k
      BY <2>1 DEF S!NoTaskForgotten
    <3>2. QED
      BY <3>1
  <2>2. QED
    BY <2>1
<1>2. QED
  BY <1>1 DEF S!NoTaskForgotten

\* None is forgotten.
LEMMA TasksKept ==
  ASSUME StocktakeTypes, S!NoTaskForgotten, S!Next
  PROVE  S!NoTaskForgotten'
<1>1. ASSUME NEW c \in Generators, NEW p \in Principals, S!DryRun(c, p) PROVE S!NoTaskForgotten'
  <2>1. bound' = bound /\ lost' = lost /\ accepted' = accepted
    BY <1>1 DEF S!DryRun, S!history, S!inventree
  <2>2. \A d \in Generators : stage[d] = "binding" => stage'[d] = "binding" /\ held'[d] = held[d]
    BY <1>1 DEF S!DryRun, S!Goto, S!callers, StocktakeTypes
  <2>3. QED
    BY <2>1, <2>2, Remembering
<1>2. ASSUME NEW c \in Generators, NEW p \in Principals, S!Consume(c, p) PROVE S!NoTaskForgotten'
  <2>1. bound' = bound /\ lost' = lost /\ accepted' = accepted
    BY <1>2 DEF S!Consume, S!history, S!inventree
  <2>2. \A d \in Generators : stage[d] = "binding" => stage'[d] = "binding" /\ held'[d] = held[d]
    BY <1>2 DEF S!Consume, S!Goto, S!callers, StocktakeTypes
  <2>3. QED
    BY <2>1, <2>2, Remembering
<1>3. ASSUME NEW c \in Generators, NEW p \in Principals, NEW k \in TaskIDs, S!Lookup(c, p, k) PROVE S!NoTaskForgotten'
  <2>1. bound' = bound /\ lost' = lost /\ accepted' = accepted /\ stage[c] = "idle"
    BY <1>3 DEF S!Lookup, S!history, S!inventree
  <2>2. \/ UNCHANGED <<stage, held>>
        \/ held' = [held EXCEPT ![c] = k] /\ stage' = [stage EXCEPT ![c] = "polling"]
    BY <1>3 DEF S!Lookup, S!Goto
  <2>3. \A d \in Generators : stage[d] = "binding" => stage'[d] = "binding" /\ held'[d] = held[d]
    BY <2>1, <2>2 DEF StocktakeTypes
  <2>4. QED
    BY <2>1, <2>3, Remembering
<1>4. ASSUME NEW c \in Generators, S!Reserve(c) PROVE S!NoTaskForgotten'
  <2>1. bound' = bound /\ lost' = lost /\ accepted' = accepted /\ stage[c] = "reserving" /\ held' = held
    BY <1>4 DEF S!Reserve, S!history, S!inventree
  <2>2. \E x : stage' = [stage EXCEPT ![c] = x]
    BY <1>4 DEF S!Reserve, S!Goto
  <2>3. \A d \in Generators : stage[d] = "binding" => stage'[d] = "binding" /\ held'[d] = held[d]
    BY <2>1, <2>2 DEF StocktakeTypes
  <2>4. QED
    BY <2>1, <2>3, Remembering
<1>5. ASSUME NEW c \in Generators, S!Enqueue(c) PROVE S!NoTaskForgotten'
  <2>1. stage[c] = "enqueuing" /\ bound' = bound
    BY <1>5 DEF S!Enqueue, S!history
  <2>2. ASSUME NEW a, S!Answered(c, a)
        PROVE  /\ \A d \in Generators : stage[d] = "binding" => stage'[d] = "binding" /\ held'[d] = held[d]
               /\ a # NoTask => stage'[c] = "binding" /\ held'[c] = a
    <3>1. \/ held' = [held EXCEPT ![c] = a] /\ stage' = [stage EXCEPT ![c] = "binding"]
          \/ UNCHANGED held /\ stage' = [stage EXCEPT ![c] = "releasing"] /\ a = NoTask
      BY <2>2 DEF S!Answered, S!Usable, S!Goto
    <3>2. QED
      BY <2>1, <3>1 DEF StocktakeTypes
  <2>3. CASE \E k \in TaskIDs : S!Accepted(c, k) /\
               \/ S!Answered(c, k) /\ UNCHANGED S!history
               \/ S!Answered(c, NoTask) /\ lost' = S!Tells(k)
    <3>1. PICK k \in TaskIDs : /\ accepted' = accepted \cup {k}
                               /\ \/ S!Answered(c, k) /\ lost' = lost
                                  \/ S!Answered(c, NoTask) /\ lost' = lost \cup {k}
      BY <2>3 DEF S!Accepted, S!Tells, S!history
    <3>2. k # NoTask
      BY ReviewedAssumption
    <3>3. k \in lost' \/ (stage'[c] = "binding" /\ held'[c] = k)
      BY <2>2, <3>1, <3>2
    <3>4. \A d \in Generators : stage[d] = "binding" => stage'[d] = "binding" /\ held'[d] = held[d]
      BY <2>2, <3>1
    <3>5. lost \subseteq lost'
      BY <3>1
    <3>6. QED
      BY <2>1, <3>1, <3>3, <3>4, <3>5, Remembering
  <2>4. CASE \E a \in accepted \cup {NoTask} :
               S!Answered(c, a) /\ UNCHANGED <<S!inventree, S!history>>
    <3>1. accepted' = accepted /\ lost' = lost
      BY <2>4 DEF S!inventree, S!history
    <3>2. \A d \in Generators : stage[d] = "binding" => stage'[d] = "binding" /\ held'[d] = held[d]
      BY <2>2, <2>4
    <3>3. QED
      BY <2>1, <3>1, <3>2, Remembering
  <2>5. QED
    BY <1>5, <2>3, <2>4 DEF S!Enqueue
<1>6. ASSUME NEW c \in Generators, S!Bind(c) PROVE S!NoTaskForgotten'
  <2>1. /\ stage[c] = "binding" /\ bound' = bound \cup {held[c]} /\ lost' = lost /\ accepted' = accepted
        /\ held' = [held EXCEPT ![c] = NoTask] /\ stage' = [stage EXCEPT ![c] = "idle"]
    BY <1>6 DEF S!Bind, S!Goto, S!inventree
  <2>2. \A d \in Generators : d # c => stage'[d] = stage[d] /\ held'[d] = held[d]
    BY <2>1 DEF StocktakeTypes
  <2>3. \A d \in Generators : stage[d] = "binding" =>
           \/ held[d] \in bound' \cup lost'
           \/ stage'[d] = "binding" /\ held'[d] = held[d]
    BY <2>1, <2>2
  <2>4. QED
    BY <2>1, <2>3, Remembering
<1>7. ASSUME NEW c \in Generators, S!FailToBind(c) PROVE S!NoTaskForgotten'
  <2>1. /\ stage[c] = "binding" /\ lost' = lost \cup {held[c]} /\ bound' = bound /\ accepted' = accepted
        /\ held' = [held EXCEPT ![c] = NoTask] /\ stage' = [stage EXCEPT ![c] = "releasing"]
    BY <1>7 DEF S!FailToBind, S!Goto, S!inventree, S!Tells
  <2>2. \A d \in Generators : d # c => stage'[d] = stage[d] /\ held'[d] = held[d]
    BY <2>1 DEF StocktakeTypes
  <2>3. \A d \in Generators : stage[d] = "binding" =>
           \/ held[d] \in bound' \cup lost'
           \/ stage'[d] = "binding" /\ held'[d] = held[d]
    BY <2>1, <2>2
  <2>4. QED
    BY <2>1, <2>3, Remembering
<1>8. ASSUME NEW c \in Generators, S!Release(c) PROVE S!NoTaskForgotten'
  <2>1. bound' = bound /\ lost' = lost /\ accepted' = accepted
    BY <1>8 DEF S!Release, S!history, S!inventree
  <2>2. \A d \in Generators : stage[d] = "binding" => stage'[d] = "binding" /\ held'[d] = held[d]
    BY <1>8 DEF S!Release, S!Goto, S!callers, StocktakeTypes
  <2>3. QED
    BY <2>1, <2>2, Remembering
<1>9. ASSUME NEW c \in Generators, S!EndPoll(c) PROVE S!NoTaskForgotten'
  <2>1. bound' = bound /\ lost' = lost /\ accepted' = accepted
    BY <1>9 DEF S!EndPoll, S!history, S!inventree
  <2>2. \A d \in Generators : stage[d] = "binding" => stage'[d] = "binding" /\ held'[d] = held[d]
    BY <1>9 DEF S!EndPoll, S!Goto, S!callers, StocktakeTypes
  <2>3. QED
    BY <2>1, <2>2, Remembering
<1>10. ASSUME S!Tick PROVE S!NoTaskForgotten'
  <2>1. bound' = bound /\ lost' = lost /\ accepted' = accepted
    BY <1>10 DEF S!Tick, S!history, S!inventree
  <2>2. \A d \in Generators : stage[d] = "binding" => stage'[d] = "binding" /\ held'[d] = held[d]
    BY <1>10 DEF S!Tick, S!Goto, S!callers, StocktakeTypes
  <2>3. QED
    BY <2>1, <2>2, Remembering
<1>11. QED
  BY <1>1, <1>2, <1>3, <1>4, <1>5, <1>6, <1>7, <1>8, <1>9, <1>10 DEF S!Next

LEMMA StocktakeStep ==
  ASSUME StocktakeInv, S!Next
  PROVE  StocktakeInv'
BY StocktakeTypesStep, ReservationsKept, RoomKept, TokensKept, OnceEnqueued, TasksKept DEF StocktakeInv

LEMMA StocktakeStart ==
  ASSUME S!Init
  PROVE  StocktakeInv
<1>1. StocktakeTypes
  BY FS_EmptySet DEF S!Init, StocktakeTypes, S!Stages
<1>2. ReservationInv
  <2>1. \A p \in Principals : S!InFlight(p) = {}
    BY DEF S!Init, S!InFlight
  <2>2. QED
    BY <2>1, FS_EmptySet DEF S!Init, ReservationInv
<1>3. RoomInv
  <2>1. Slots = {}
    <3>1. \A p \in Principals : 1..reservations[p] = {}
      BY DEF S!Init
    <3>2. QED
      BY <3>1 DEF Slots
  <2>2. Alive = {} /\ \A p : AliveOf(p) = {}
    BY DEF S!Init, Alive, AliveOf, S!Live, S!OfPrincipal
  <2>3. \A p \in Principals : reservations[p] = 0
    BY DEF S!Init
  <2>4. MaxTasks \in Nat /\ MaxTasksPerPrincipal \in Nat
    BY ReviewedAssumption
  <2>5. IsFiniteSet(Slots) /\ Cardinality(Slots) = 0 /\ Cardinality(Alive) = 0
        /\ \A p : Cardinality(AliveOf(p)) = 0
    BY <2>1, <2>2, FS_EmptySet
  <2>6. QED
    BY <2>3, <2>4, <2>5 DEF RoomInv
<1>4. TokenInv
  BY DEF S!Init, TokenInv, Owing
<1>5. S!OneGenerationPerPlan /\ S!NoTaskForgotten
  BY DEF S!Init, S!OneGenerationPerPlan, S!NoTaskForgotten
<1>6. QED
  BY <1>1, <1>2, <1>3, <1>4, <1>5 DEF StocktakeInv

\* A call that holds a reservation has it counted, so that its handle finds room.
LEMMA RoomFound ==
  ASSUME StocktakeInv
  PROVE  S!RoomForAccepted
<1>1. SUFFICES ASSUME NEW c \in Generators, stage[c] = "binding"
      PROVE  ~S!Full(who[c])
  BY DEF S!RoomForAccepted
<1> DEFINE p == who[c]
<1>2. p \in Principals /\ StocktakeTypes /\ c \in S!InFlight(p)
  BY <1>1 DEF StocktakeInv, StocktakeTypes, S!InFlight
<1> HIDE DEF p
<1>3. reservations[p] \in Nat /\ reservations[p] # 0
  <2>1. IsFiniteSet(S!InFlight(p)) /\ reservations[p] = Cardinality(S!InFlight(p))
    BY <1>2 DEF StocktakeInv, ReservationInv
  <2>2. Cardinality(S!InFlight(p)) # 0
    BY <1>2, <2>1, FS_EmptySet
  <2>3. QED
    BY <1>2, <2>1, <2>2 DEF StocktakeTypes
<1>4. Slots # {}
  <2>1. <<p, 1>> \in {p} \X (1..reservations[p])
    BY <1>3
  <2>2. QED
    BY <1>2, <2>1 DEF Slots
<1>5. IsFiniteSet(Slots) /\ Cardinality(Slots) \in Nat /\ Cardinality(Slots) # 0
  BY <1>4, FS_EmptySet, FS_CardinalityType DEF StocktakeInv, RoomInv
<1>6. AliveCounted
  BY <1>2, AliveFinite
<1>7. /\ Cardinality(Alive) + Cardinality(Slots) <= MaxTasks
      /\ Cardinality(AliveOf(p)) + reservations[p] <= MaxTasksPerPrincipal
      /\ MaxTasks \in Nat /\ MaxTasksPerPrincipal \in Nat
  BY <1>2, ReviewedAssumption DEF StocktakeInv, RoomInv
<1>8. ~(Cardinality(Alive) >= MaxTasks) /\ ~(Cardinality(AliveOf(p)) >= MaxTasksPerPrincipal)
  <2> DEFINE a == Cardinality(Alive)
             b == Cardinality(AliveOf(p))
  <2>1. a \in Nat /\ b \in Nat
    BY <1>6 DEF AliveCounted
  <2> HIDE DEF a, b
  <2>2. a + Cardinality(Slots) <= MaxTasks /\ b + reservations[p] <= MaxTasksPerPrincipal
    BY <1>7 DEF a, b
  <2>3. ~(a >= MaxTasks)
    BY <1>5, <1>7, <2>1, <2>2
  <2>4. ~(b >= MaxTasksPerPrincipal)
    BY <1>3, <1>7, <2>1, <2>2
  <2>5. QED
    BY <2>3, <2>4 DEF a, b
<1>9. QED
  BY <1>8, SameCardinality DEF S!Full, Alive, AliveOf, p

LEMMA OwnersKept ==
  ASSUME StocktakeInv, S!Next, NEW h \in handles, NEW g \in handles',
         h.id = g.id, clock < h.expiresAt
  PROVE  g.principal = h.principal
<1>1. StocktakeTypes
  BY DEF StocktakeInv
<1>2. CASE g \in handles
  BY <1>1, <1>2 DEF StocktakeTypes
<1>3. CASE g \notin handles
  <2>1. PICK c \in Generators : S!Bind(c)
    BY <1>1, <1>3, HandlesStep
  <2>2. PICK n \in S!Handle : handles' = Alive \cup {n} /\ \A a \in Alive : a.id # n.id
    BY <1>1, <2>1, Binding
  <2>3. h \in Alive /\ Alive \subseteq handles
    BY DEF Alive, S!Live
  <2>4. QED
    BY <1>3, <2>2, <2>3
<1>4. QED
  BY <1>2, <1>3

-----------------------------------------------------------------------------
(* The adjustment of stock.                                                 *)

LEMMA ItemFields ==
  ASSUME NEW i \in Item
  PROVE  /\ i.quantity \in Quantities /\ i.quantity \in Nat /\ i.status \in Statuses
         /\ i.frail \in BOOLEAN /\ i.serial \in BOOLEAN /\ i.exists \in BOOLEAN
         /\ i = [quantity |-> i.quantity, status |-> i.status, frail |-> i.frail,
                 serial |-> i.serial, exists |-> i.exists]
<1>1. /\ i.quantity \in Quantities /\ i.status \in Statuses
      /\ i.frail \in BOOLEAN /\ i.serial \in BOOLEAN /\ i.exists \in BOOLEAN
      /\ i = [quantity |-> i.quantity, status |-> i.status, frail |-> i.frail,
              serial |-> i.serial, exists |-> i.exists]
  BY DEF Item
<1>2. i.quantity \in Nat
  BY <1>1, StockAssumption DEF Quantities
<1>3. QED
  BY <1>1, <1>2

LEMMA PlanFields ==
  ASSUME NEW p \in Plan
  PROVE  p.action \in Actions /\ p.before \in Item /\ p.after \in Item /\ p # NoPlan
<1>1. p.action \in Actions /\ p.before \in Item /\ p.after \in Item
  BY DEF Plan
<1>2. p.action # NoPlan.action
  BY <1>1 DEF Actions, NoPlan
<1>3. QED
  BY <1>1, <1>2

\* What becomes of an item that is stored.
LEMMA StoredFields ==
  ASSUME NEW i \in Item
  PROVE  /\ Stored(i) \in Item /\ Whole(Stored(i))
         /\ Stored(i).quantity = i.quantity /\ Stored(i).status = i.status
         /\ Stored(i).frail = i.frail /\ Stored(i).serial = i.serial
<1> DEFINE x == ~(i.frail /\ i.quantity = 0)
           j == [quantity |-> i.quantity, status |-> i.status, frail |-> i.frail,
                 serial |-> i.serial, exists |-> x]
<1>1. Stored(i) = j
  BY ItemFields DEF Stored
<1>2. x \in BOOLEAN
  OBVIOUS
<1> HIDE DEF x
<1>3. j \in Item
  BY <1>2, ItemFields DEF Item
<1>4. j.quantity = i.quantity /\ j.status = i.status /\ j.frail = i.frail /\ j.serial = i.serial /\ j.exists = x
  OBVIOUS
<1> HIDE DEF j
<1>5. QED
  BY <1>1, <1>3, <1>4 DEF Whole, x

\* A plan changes one thing.
LEMMA Changes ==
  ASSUME NEW p \in Plan, Plannable(p)
  PROVE  /\ p.before.exists /\ p.after.exists /\ p.after # p.before
         /\ p.after.frail = p.before.frail /\ p.after.serial = p.before.serial
         /\ p.action # "status" =>
              p.after.status = p.before.status /\ ~(p.before.frail /\ p.after.quantity = 0)
         /\ p.action = "status" => p.after.quantity = p.before.quantity
<1>1. p.before \in Item /\ p.action \in Actions /\ p.before.exists
      /\ p.after \in Requested(p.action, p.before) /\ ~Refuses(p.action, p.before, p.after)
  BY PlanFields DEF Plannable
<1>2. CASE p.action \in {"adjust", "count"}
  <2>1. Requested(p.action, p.before) = {[p.before EXCEPT !.quantity = q] : q \in Quantities}
    BY <1>2 DEF Requested
  <2>2. PICK q \in Quantities : p.after = [p.before EXCEPT !.quantity = q]
    BY <1>1, <2>1
  <2>3. /\ p.after.exists = p.before.exists /\ p.after.frail = p.before.frail
        /\ p.after.serial = p.before.serial /\ p.after.status = p.before.status
    BY <1>1, <2>2, ItemFields, ZenonT(40)
  <2>4. p.after # p.before /\ ~(p.before.frail /\ p.after.quantity = 0)
    BY <1>1, <1>2 DEF Refuses, WouldDelete
  <2>5. QED
    BY <1>1, <1>2, <2>3, <2>4
<1>3. CASE p.action = "status"
  <2>1. Requested(p.action, p.before) = {[p.before EXCEPT !.status = x] : x \in Statuses}
    BY <1>3 DEF Requested
  <2>2. PICK x \in Statuses : p.after = [p.before EXCEPT !.status = x]
    BY <1>1, <2>1
  <2>3. /\ p.after.exists = p.before.exists /\ p.after.frail = p.before.frail
        /\ p.after.serial = p.before.serial /\ p.after.quantity = p.before.quantity
    BY <1>1, <2>2, ItemFields, ZenonT(40)
  <2>4. QED
    BY <1>1, <1>3, <2>3 DEF Refuses
<1>4. QED
  BY <1>1, <1>2, <1>3 DEF Actions

\* What a mutation makes of the item.
LEMMA Applying ==
  ASSUME item \in Item, Whole(item), NEW p \in Plan, Applicable(p)
  PROVE  /\ Applied(p) \in Item /\ Whole(Applied(p)) /\ item.exists
         /\ Applied(p).frail = item.frail /\ Applied(p).serial = item.serial
         /\ p.action = "adjust" =>
              /\ Applied(p).quantity = AtLeastNone(item.quantity + p.after.quantity - p.before.quantity)
              /\ Applied(p).status = item.status
         /\ p.action = "count" => Applied(p).quantity = p.after.quantity
         /\ p.action = "status" => Applied(p).quantity = item.quantity
<1>1. item.exists /\ Applied(p).quantity \in Quantities
  BY DEF Applicable
<1>2. CASE p.action = "adjust"
  <2> DEFINE q == AtLeastNone(item.quantity + p.after.quantity - p.before.quantity)
             i == [item EXCEPT !.quantity = q]
  <2>1. Applied(p) = Stored(i)
    BY <1>2 DEF Applied
  <2>2. i = [quantity |-> q, status |-> item.status, frail |-> item.frail,
             serial |-> item.serial, exists |-> item.exists]
    BY ItemFields
  <2> HIDE DEF q
  <2>3. i.quantity = q /\ i.status = item.status /\ i.frail = item.frail /\ i.serial = item.serial
    BY <2>2
  <2>4. Stored(i).quantity = q
    BY <2>2 DEF Stored
  <2>5. i \in Item
    BY <1>1, <2>1, <2>2, <2>4, ItemFields DEF Item
  <2> HIDE DEF i
  <2>6. QED
    BY <1>1, <1>2, <2>1, <2>3, <2>5, StoredFields DEF q
<1>3. CASE p.action = "count"
  <2> DEFINE i == [item EXCEPT !.quantity = p.after.quantity]
  <2>1. Applied(p) = Stored(i)
    BY <1>3 DEF Applied
  <2>2. i = [quantity |-> p.after.quantity, status |-> item.status, frail |-> item.frail,
             serial |-> item.serial, exists |-> item.exists]
    BY ItemFields
  <2>3. p.after \in Item
    BY PlanFields
  <2>4. i \in Item /\ i.quantity = p.after.quantity /\ i.frail = item.frail /\ i.serial = item.serial
    BY <2>2, <2>3, ItemFields DEF Item
  <2> HIDE DEF i
  <2>5. QED
    BY <1>1, <1>3, <2>1, <2>4, StoredFields
<1>4. CASE p.action = "status"
  <2> DEFINE x == p.after.status
  <2>1. Applied(p) = [item EXCEPT !.status = x]
    BY <1>4 DEF Applied
  <2>2. Applied(p) = [quantity |-> item.quantity, status |-> x, frail |-> item.frail,
                      serial |-> item.serial, exists |-> item.exists]
    BY <2>1, ItemFields
  <2>3. x \in Statuses
    <3>1. p.after \in Item
      BY PlanFields
    <3>2. QED
      BY <3>1, ItemFields
  <2> HIDE DEF x
  <2>4. Applied(p) \in Item
    BY <2>2, <2>3, ItemFields DEF Item
  <2>5. /\ Applied(p).quantity = item.quantity /\ Applied(p).frail = item.frail
        /\ Applied(p).serial = item.serial /\ Applied(p).exists = item.exists
    BY <2>2
  <2>6. QED
    BY <1>1, <1>4, <2>4, <2>5 DEF Whole
<1>5. p.action \in {"adjust", "count", "status"}
  BY PlanFields DEF Actions
<1>6. QED
  BY <1>2, <1>3, <1>4, <1>5

\* A mutation that finds what it was planned for deletes nothing.
LEMMA NothingDeleted ==
  ASSUME item \in Item, Whole(item), NEW p \in Plan, Applicable(p), Plannable(p), item = p.before
  PROVE  Applied(p).exists
<1>1. Applied(p) \in Item /\ Whole(Applied(p)) /\ Applied(p).frail = item.frail /\ item.exists
  BY Applying
<1>2. p.after \in Item /\ p.action \in {"adjust", "count", "status"}
  BY PlanFields DEF Actions
<1>3. CASE p.action = "adjust"
  <2>1. Applied(p).quantity = AtLeastNone(item.quantity + p.after.quantity - p.before.quantity)
    BY <1>3, Applying
  <2>2. Applied(p).quantity = p.after.quantity
    <3>1. item.quantity \in Nat /\ p.after.quantity \in Nat
      BY <1>2, ItemFields
    <3>2. item.quantity + p.after.quantity - p.before.quantity = p.after.quantity
      BY <3>1
    <3>3. QED
      BY <2>1, <3>1, <3>2 DEF AtLeastNone
  <2>3. QED
    BY <1>1, <1>3, <2>2, Changes DEF Whole
<1>4. CASE p.action = "count"
  <2>1. Applied(p).quantity = p.after.quantity
    BY <1>4, Applying
  <2>2. QED
    BY <1>1, <1>4, <2>1, Changes DEF Whole
<1>5. CASE p.action = "status"
  <2>1. Applied(p).quantity = item.quantity
    BY <1>5, Applying
  <2>2. QED
    BY <1>1, <2>1 DEF Whole
<1>6. QED
  BY <1>2, <1>3, <1>4, <1>5

\* An item but for whether it is there.
With(i, x) ==
  [quantity |-> i.quantity, status |-> i.status, frail |-> i.frail, serial |-> i.serial, exists |-> x]

LEMMA WithFields ==
  ASSUME NEW i \in Item, NEW x
  PROVE  [i EXCEPT !.exists = x] = With(i, x) /\ (i.exists = x => With(i, x) = i)
BY ItemFields DEF With

LEMMA SameWith ==
  ASSUME NEW i, NEW j, NEW x
  PROVE  With(i, x) = With(j, x) <=>
           /\ i.quantity = j.quantity /\ i.status = j.status
           /\ i.frail = j.frail /\ i.serial = j.serial
BY DEF With

LEMMA SeenFields ==
  ASSUME NEW i \in Item
  PROVE  Seen(i) = With(i, TRUE) /\ (i.exists => i = With(i, TRUE))
<1>1. Seen(i) = With(i, TRUE)
  BY WithFields DEF Seen
<1>2. i.exists => i.exists = TRUE
  BY ItemFields
<1>3. QED
  BY <1>1, <1>2, WithFields

\* Two items that differ are seen to differ.
LEMMA SeenApart ==
  ASSUME NEW i \in Item, NEW j \in Item, Whole(i), Whole(j), Seen(i) = Seen(j)
  PROVE  i = j
<1>1. Seen(i) = With(i, TRUE) /\ Seen(j) = With(j, TRUE)
  BY SeenFields
<1>2. i.quantity = j.quantity /\ i.status = j.status /\ i.frail = j.frail /\ i.serial = j.serial
  <2>1. With(i, TRUE) = With(j, TRUE)
    BY <1>1
  <2>2. QED
    BY <2>1 DEF With
<1>3. i.exists = j.exists
  BY <1>2 DEF Whole
<1>4. With(i, i.exists) = With(j, i.exists)
  BY <1>2, SameWith
<1>5. QED
  BY <1>3, <1>4, WithFields

\* A relative adjustment that leaves stock is seen as it was planned exactly when it
\* found what it was planned for.
LEMMA Telltale ==
  ASSUME item \in Item, Whole(item), NEW p \in Plan, Applicable(p), Plannable(p), Telling(p)
  PROVE  Seen(Applied(p)) = p.after <=> item = p.before
<1> DEFINE i == Applied(p)
<1>1. /\ i \in Item /\ item.exists /\ i.frail = item.frail /\ i.serial = item.serial
      /\ i.status = item.status
      /\ i.quantity = AtLeastNone(item.quantity + p.after.quantity - p.before.quantity)
  BY Applying DEF Telling
<1>2. /\ p.before \in Item /\ p.after \in Item /\ p.before.exists /\ p.after.exists
      /\ p.after.frail = p.before.frail /\ p.after.serial = p.before.serial
      /\ p.after.status = p.before.status /\ p.after.quantity > 0
  BY PlanFields, Changes DEF Telling
<1>3. item.quantity \in Nat /\ p.after.quantity \in Nat /\ p.before.quantity \in Nat
  BY <1>2, ItemFields
<1>4. i.quantity = p.after.quantity <=> item.quantity = p.before.quantity
  <2>1. CASE item.quantity + p.after.quantity - p.before.quantity < 0
    BY <1>1, <1>2, <1>3, <2>1 DEF AtLeastNone
  <2>2. CASE ~(item.quantity + p.after.quantity - p.before.quantity < 0)
    BY <1>1, <1>2, <1>3, <2>2 DEF AtLeastNone
  <2>3. QED
    BY <2>1, <2>2
<1> HIDE DEF i
<1>5. Seen(i) = With(i, TRUE) /\ p.after = With(p.after, TRUE)
      /\ item = With(item, TRUE) /\ p.before = With(p.before, TRUE)
  BY <1>1, <1>2, SeenFields
<1>6. Seen(i) = p.after <=> /\ i.quantity = p.after.quantity /\ i.status = p.after.status
                            /\ i.frail = p.after.frail /\ i.serial = p.after.serial
  <2>1. Seen(i) = p.after <=> With(i, TRUE) = With(p.after, TRUE)
    BY <1>5
  <2>2. QED
    BY <2>1 DEF With
<1>7. item = p.before <=> /\ item.quantity = p.before.quantity /\ item.status = p.before.status
                          /\ item.frail = p.before.frail /\ item.serial = p.before.serial
  <2>1. item = p.before <=> With(item, TRUE) = With(p.before, TRUE)
    BY <1>5
  <2>2. QED
    BY <2>1 DEF With
<1>8. QED
  BY <1>1, <1>2, <1>4, <1>6, <1>7 DEF i

LEMMA MutationFields ==
  ASSUME NEW m \in Mutation
  PROVE  /\ m.plan \in Plan /\ m.landed \in BOOLEAN /\ m.open \in BOOLEAN /\ m.raced \in 0..2
         /\ m.deleted \in BOOLEAN /\ m.report \in {"sent", "ok", "unknown", "rejected"}
         /\ m = [plan |-> m.plan, landed |-> m.landed, open |-> m.open, raced |-> m.raced,
                 deleted |-> m.deleted, report |-> m.report]
BY DEF Mutation

LEMMA NewMutation ==
  ASSUME NEW p \in Plan, NEW l \in BOOLEAN, NEW o \in BOOLEAN, NEW n \in 0..2, NEW d \in BOOLEAN,
         NEW r \in {"sent", "ok", "unknown", "rejected"}
  PROVE  [plan |-> p, landed |-> l, open |-> o, raced |-> n, deleted |-> d, report |-> r] \in Mutation
BY DEF Mutation

\* How a write by somebody else is counted.
LEMMA Counted ==
  ASSUME NEW n \in 0..2
  PROVE  /\ Up(n) \in 0..2 /\ (item' = item => Up(n) = n)
         /\ n > 0 => Up(n) > 0
         /\ item' # item => Up(n) > 0 /\ (Up(n) = 1 => n = 0)
<1>1. CASE item' # item
  BY <1>1 DEF Up
<1>2. CASE item' = item
  BY <1>2 DEF Up
<1>3. QED
  BY <1>1, <1>2

Aged(m) == IF Pending(m) THEN [m EXCEPT !.raced = Up(@)] ELSE m

LEMMA AgedFields ==
  ASSUME NEW m \in Mutation
  PROVE  /\ Aged(m) \in Mutation /\ Aged(m).plan = m.plan /\ Aged(m).landed = m.landed
         /\ Aged(m).open = m.open /\ Aged(m).deleted = m.deleted /\ Aged(m).report = m.report
         /\ Pending(m) => Aged(m).raced = Up(m.raced)
         /\ ~Pending(m) => Aged(m).raced = m.raced
         /\ item' = item => Aged(m) = m
<1>1. CASE ~Pending(m)
  BY <1>1 DEF Aged
<1>2. CASE Pending(m)
  <2> DEFINE u == Up(m.raced)
             x == [plan |-> m.plan, landed |-> m.landed, open |-> m.open, raced |-> u,
                   deleted |-> m.deleted, report |-> m.report]
  <2>1. Aged(m) = [m EXCEPT !.raced = u]
    BY <1>2 DEF Aged
  <2>2. u \in 0..2 /\ (item' = item => u = m.raced)
    BY MutationFields, Counted
  <2> HIDE DEF u
  <2>3. Aged(m) = x
    BY <2>1, MutationFields
  <2>4. x \in Mutation
    BY <2>2, MutationFields, NewMutation
  <2>5. u = m.raced => x = m
    BY MutationFields
  <2>6. QED
    BY <1>2, <2>2, <2>3, <2>4, <2>5 DEF u
<1>3. QED
  BY <1>1, <1>2

LEMMA KeptAged ==
  ASSUME NEW m \in Mutation, Kept(m), NEW x, x = Aged(m)
  PROVE  Kept(x)'
<1>1. /\ x.plan = m.plan /\ x.landed = m.landed /\ x.open = m.open /\ x.deleted = m.deleted
      /\ x.report = m.report /\ m.raced \in 0..2
      /\ Pending(m) => x.raced = Up(m.raced)
      /\ ~Pending(m) => x.raced = m.raced
  BY AgedFields, MutationFields
<1>2. x.open /\ x.raced = 0 => item' = x.plan.before
  <2>1. SUFFICES ASSUME x.open, x.raced = 0 PROVE item' = x.plan.before
    OBVIOUS
  <2>2. Up(m.raced) = 0
    BY <1>1, <2>1 DEF Pending
  <2>3. m.raced = 0 /\ item' = item
    BY <1>1, <2>2, Counted
  <2>4. QED
    BY <1>1, <2>1, <2>3 DEF Kept
<1>3. x.report = "ok" => ~x.open /\ (Telling(x.plan) => x.raced # 1)
  BY <1>1 DEF Kept, Pending
<1>4. x.deleted => x.raced > 0
  BY <1>1, Counted DEF Kept
<1>5. QED
  BY <1>1, <1>2, <1>3, <1>4 DEF Kept

LEMMA KeptSame ==
  ASSUME NEW m, Kept(m), item' = item
  PROVE  Kept(m)'
BY DEF Kept

LEMMA RacedFields ==
  ASSUME NEW r \in Seq(Mutation)
  PROVE  /\ Raced(r) \in Seq(Mutation) /\ Len(Raced(r)) = Len(r) /\ Len(r) \in Nat
         /\ \A n \in 1..Len(r) : r[n] \in Mutation /\ Raced(r)[n] = Aged(r[n])
<1>1. Len(r) \in Nat /\ \A n \in 1..Len(r) : r[n] \in Mutation
  OBVIOUS
<1>2. Raced(r) = [n \in 1..Len(r) |-> Aged(r[n])]
  BY DEF Raced, Aged
<1>3. \A n \in 1..Len(r) : Aged(r[n]) \in Mutation
  BY <1>1, AgedFields
<1>4. QED
  BY <1>1, <1>2, <1>3

LEMMA Appended ==
  ASSUME NEW r \in Seq(Mutation), NEW m \in Mutation
  PROVE  /\ Append(r, m) \in Seq(Mutation) /\ Len(Append(r, m)) = Len(r) + 1 /\ Len(r) \in Nat
         /\ Append(r, m)[Len(r) + 1] = m
         /\ \A n \in 1..Len(r) : Append(r, m)[n] = r[n]
OBVIOUS

\* A log is kept as it was, and at most one mutation is added to it.
LEMMA KeptAppended ==
  ASSUME NEW r \in Seq(Mutation), NEW m \in Mutation, Kept(m)', NEW x, x = Append(r, m),
         \A n \in 1..Len(r) : Kept(r[n])'
  PROVE  \A n \in 1..Len(x) : Kept(x[n])'
<1>1. Len(x) = Len(r) + 1 /\ Len(r) \in Nat /\ x[Len(r) + 1] = m /\ \A n \in 1..Len(r) : x[n] = r[n]
  BY Appended
<1>2. ASSUME NEW n \in 1..Len(x) PROVE Kept(x[n])'
  <2>1. CASE n = Len(r) + 1
    BY <1>1, <2>1
  <2>2. CASE n # Len(r) + 1
    <3>1. n \in 1..Len(r) /\ x[n] = r[n]
      BY <1>1, <2>2
    <3>2. QED
      BY <3>1
  <2>3. QED
    BY <2>1, <2>2
<1>3. QED
  BY <1>2

LEMMA KeptRaced ==
  ASSUME NEW r \in Seq(Mutation), \A n \in 1..Len(r) : Kept(r[n]), NEW x, x = Raced(r)
  PROVE  x \in Seq(Mutation) /\ \A n \in 1..Len(x) : Kept(x[n])'
<1>1. x \in Seq(Mutation) /\ Len(x) = Len(r)
      /\ \A n \in 1..Len(r) : r[n] \in Mutation /\ x[n] = Aged(r[n])
  BY RacedFields
<1>2. QED
  BY <1>1, KeptAged

\* The item stays one InvenTree would store.
LEMMA ItemStep ==
  ASSUME AdjustmentTypes, ItemInv, Next
  PROVE  item' \in Item /\ Whole(item)'
<1>1. ASSUME NEW c \in Callers, NEW m, NEW a \in Actions, ReadAndPlan(c, m, a) PROVE item' \in Item /\ Whole(item)'
  BY <1>1 DEF ReadAndPlan, AdjustmentTypes, ItemInv
<1>2. ASSUME NEW c \in Callers, Issue(c) PROVE item' \in Item /\ Whole(item)'
  BY <1>2 DEF Issue, AdjustmentTypes, ItemInv
<1>3. ASSUME NEW c \in Callers, Consume(c) PROVE item' \in Item /\ Whole(item)'
  BY <1>3 DEF Consume, AdjustmentTypes, ItemInv
<1>4. ASSUME NEW c \in Callers, MutateAnswered(c) PROVE item' \in Item /\ Whole(item)'
  <2>1. plan[c] \in Plan /\ Applicable(plan[c]) /\ item' = Applied(plan[c])
    BY <1>4 DEF MutateAnswered, AdjustmentTypes
  <2>2. QED
    BY <2>1, Applying DEF AdjustmentTypes, ItemInv, Whole
<1>5. ASSUME NEW c \in Callers, NEW e, MutateFailed(c, e) PROVE item' \in Item /\ Whole(item)'
  BY <1>5 DEF MutateFailed, AdjustmentTypes, ItemInv
<1>6. ASSUME NEW c \in Callers, NEW n \in 1..MaxMutations, n <= Last(c), LandsLate(c, n) PROVE item' \in Item /\ Whole(item)'
  <2>1. log[c] \in Seq(Mutation) /\ n \in 1..Len(log[c])
    BY <1>6 DEF Last, AdjustmentTypes
  <2>2. log[c][n].plan \in Plan /\ Applicable(log[c][n].plan) /\ item' = Applied(log[c][n].plan)
    BY <1>6, <2>1, MutationFields DEF LandsLate
  <2>3. QED
    BY <2>2, Applying DEF AdjustmentTypes, ItemInv, Whole
<1>7. ASSUME NEW c \in Callers, ReadBack(c) PROVE item' \in Item /\ Whole(item)'
  BY <1>7 DEF ReadBack, AdjustmentTypes, ItemInv
<1>8. ASSUME NEW a \in Actions, Void(a) PROVE item' \in Item /\ Whole(item)'
  BY <1>8 DEF Void, AdjustmentTypes, ItemInv
<1>9. ASSUME ForeignWrite PROVE item' \in Item /\ Whole(item)'
  <2>1. PICK a \in {"count", "status"} : item' \in {Stored(i) : i \in Requested(a, item)}
    BY <1>9 DEF ForeignWrite
  <2>2. PICK i \in Requested(a, item) : item' = Stored(i)
    BY <2>1
  <2>3. i \in Item
    <3>1. i \in {[item EXCEPT !.quantity = q] : q \in Quantities} \cup {[item EXCEPT !.status = x] : x \in Statuses}
      BY <2>1, <2>2 DEF Requested
    <3>2. QED
      BY <3>1 DEF AdjustmentTypes, Item
  <2>4. QED
    BY <2>2, <2>3, StoredFields DEF Whole
<1>10. QED
  BY <1>1, <1>2, <1>3, <1>4, <1>5, <1>6, <1>7, <1>8, <1>9 DEF Next

\* What the logs are after a step.
LogsKept ==
  /\ log' \in [Callers -> Seq(Mutation)]
  /\ \A d \in Callers : \A k \in 1..Len(log'[d]) : Kept(log[d][k])'

LEMMA EveryLog ==
  ASSUME DOMAIN log' = Callers, log' = [d \in Callers |-> log'[d]],
         \A d \in Callers : log'[d] \in Seq(Mutation) /\ \A k \in 1..Len(log'[d]) : Kept(log[d][k])'
  PROVE  LogsKept
<1>1. log' \in [Callers -> Seq(Mutation)]
  OBVIOUS
<1>2. QED
  BY <1>1 DEF LogsKept

\* A call knows of the mutation it sends what it knew of its plan.
LEMMA Sending ==
  ASSUME AdjustmentTypes, SnapshotInv, NEW c \in Callers, stage[c] = "mutating", NEW m,
         NEW l \in BOOLEAN, NEW o \in BOOLEAN, NEW d \in BOOLEAN, NEW r \in {"sent", "unknown", "rejected"},
         m = [plan |-> plan[c], landed |-> l, open |-> o, raced |-> meddled[c], deleted |-> d, report |-> r],
         o => item' = item, r = "rejected" => ~l /\ ~o, d => meddled[c] > 0
  PROVE  m \in Mutation /\ Kept(m)'
<1>1. plan[c] \in Plan /\ Plannable(plan[c]) /\ meddled[c] \in 0..2
      /\ (meddled[c] = 0 => item = plan[c].before)
  BY DEF AdjustmentTypes, SnapshotInv, Snapshot
<1>2. m \in Mutation
  <2>1. [plan |-> plan[c], landed |-> l, open |-> o, raced |-> meddled[c], deleted |-> d, report |-> r]
          \in Mutation
    BY <1>1, NewMutation, ZenonT(40)
  <2>2. QED
    BY <2>1
<1>3. m.plan = plan[c] /\ m.landed = l /\ m.open = o /\ m.raced = meddled[c] /\ m.deleted = d /\ m.report = r
  OBVIOUS
<1>4. m.open /\ m.raced = 0 => item' = m.plan.before
  BY <1>1, <1>3
<1>5. m.report = "rejected" => ~m.landed /\ ~m.open
  BY <1>3
<1>6. m.report # "ok" /\ (m.deleted => m.raced > 0)
  BY <1>3
<1>7. QED
  BY <1>1, <1>2, <1>3, <1>4, <1>5, <1>6 DEF Kept

\* A request of which the answer is settled.
Settled(m, l, o, d) == [m EXCEPT !.landed = l, !.open = o, !.deleted = d]

LEMMA SettledShape ==
  ASSUME NEW m \in Mutation, NEW l, NEW o, NEW d
  PROVE  Settled(m, l, o, d) =
           [plan |-> m.plan, landed |-> l, open |-> o, raced |-> m.raced, deleted |-> d, report |-> m.report]
<1>1. PICK p, a, b, n, e, r : m = [plan |-> p, landed |-> a, open |-> b, raced |-> n, deleted |-> e, report |-> r]
  BY MutationFields
<1>2. m.plan = p /\ m.raced = n /\ m.report = r
  BY <1>1
<1>3. PICK x : x = [m EXCEPT !.landed = l]
  OBVIOUS
<1>4. PICK y : y = [x EXCEPT !.open = o]
  OBVIOUS
<1>5. PICK z : z = [y EXCEPT !.deleted = d]
  OBVIOUS
<1>6. x = [plan |-> p, landed |-> l, open |-> b, raced |-> n, deleted |-> e, report |-> r]
  BY <1>1, <1>3
<1>7. y = [plan |-> p, landed |-> l, open |-> o, raced |-> n, deleted |-> e, report |-> r]
  BY <1>4, <1>6
<1>8. z = [plan |-> p, landed |-> l, open |-> o, raced |-> n, deleted |-> d, report |-> r]
  BY <1>5, <1>7
<1>9. Settled(m, l, o, d) = z
  BY <1>3, <1>4, <1>5 DEF Settled
<1>10. QED
  BY <1>2, <1>8, <1>9

Settles(x, m, l, o, d) ==
  /\ x \in Mutation /\ x.plan = m.plan /\ (x.landed <=> l) /\ (x.open <=> o) /\ x.raced = m.raced
  /\ (x.deleted <=> d) /\ x.report = m.report

LEMMA SettledFields ==
  ASSUME NEW m \in Mutation, NEW l \in BOOLEAN, NEW o \in BOOLEAN, NEW d \in BOOLEAN, NEW x, x = Settled(m, l, o, d)
  PROVE  Settles(x, m, l, o, d)
<1>1. x = [plan |-> m.plan, landed |-> l, open |-> o, raced |-> m.raced, deleted |-> d, report |-> m.report]
  BY SettledShape
<1>2. m.plan \in Plan /\ m.raced \in 0..2 /\ m.report \in {"sent", "ok", "unknown", "rejected"}
  BY MutationFields
<1>3. [plan |-> m.plan, landed |-> l, open |-> o, raced |-> m.raced, deleted |-> d, report |-> m.report] \in Mutation
  BY <1>2, NewMutation, ZenonT(40)
<1>4. x \in Mutation
  BY <1>1, <1>3
<1>5. x.plan = m.plan /\ (x.landed <=> l) /\ (x.open <=> o) /\ x.raced = m.raced
      /\ (x.deleted <=> d) /\ x.report = m.report
  BY <1>1
<1>6. QED
  BY <1>4, <1>5 DEF Settles

\* Nothing that was sent is reported wrongly.
LEMMA LogsStep ==
  ASSUME AdjustmentTypes, ItemInv, SnapshotInv, RequestInv, ReadBackInv, Next
  PROVE  LogsKept
<1>1. ASSUME NEW c \in Callers, NEW m, NEW a \in Actions, ReadAndPlan(c, m, a) PROVE LogsKept
  <2>1. log' = log /\ item' = item
    BY <1>1 DEF ReadAndPlan
  <2>2. QED
    BY <2>1, KeptSame DEF LogsKept, RequestInv, Last, AdjustmentTypes
<1>2. ASSUME NEW c \in Callers, Issue(c) PROVE LogsKept
  <2>1. log' = log /\ item' = item
    BY <1>2 DEF Issue
  <2>2. QED
    BY <2>1, KeptSame DEF LogsKept, RequestInv, Last, AdjustmentTypes
<1>3. ASSUME NEW c \in Callers, Consume(c) PROVE LogsKept
  <2>1. log' = log /\ item' = item
    BY <1>3 DEF Consume
  <2>2. QED
    BY <2>1, KeptSame DEF LogsKept, RequestInv, Last, AdjustmentTypes
<1>4. ASSUME NEW c \in Callers, MutateAnswered(c) PROVE LogsKept
  <2>1. /\ stage[c] = "mutating" /\ plan[c] \in Plan /\ Applicable(plan[c])
        /\ item' = Applied(plan[c])
    BY <1>4 DEF MutateAnswered, AdjustmentTypes
  <2> DEFINE deleted == ~item'.exists
  <2>2. PICK m : m = [plan |-> plan[c], landed |-> TRUE, open |-> FALSE, raced |-> meddled[c],
                      deleted |-> deleted, report |-> "sent"]
    OBVIOUS
  <2>3. deleted \in BOOLEAN
    OBVIOUS
  <2>4. deleted => meddled[c] > 0
    <3>1. meddled[c] \in 0..2 /\ Plannable(plan[c]) /\ (meddled[c] = 0 => item = plan[c].before)
      BY <2>1 DEF AdjustmentTypes, SnapshotInv, Snapshot
    <3>2. meddled[c] = 0 => Applied(plan[c]).exists
      BY <2>1, <3>1, NothingDeleted DEF AdjustmentTypes, ItemInv
    <3>3. QED
      BY <2>1, <3>1, <3>2
  <2>5. log' = [RacedBy(c) EXCEPT ![c] = Append(Raced(@), m)]
    BY <1>4, <2>2 DEF MutateAnswered
  <2> HIDE DEF deleted
  <2>6. m \in Mutation /\ Kept(m)'
    BY <2>1, <2>2, <2>3, <2>4, Sending
  <2>7. DOMAIN log' = Callers /\ log' = [d \in Callers |-> log'[d]]
        /\ log'[c] = Append(Raced(log[c]), m)
        /\ \A d \in Callers : d # c => log'[d] = Raced(log[d])
    BY <2>5 DEF RacedBy
  <2>8. \A d \in Callers : log[d] \in Seq(Mutation) /\ \A k \in 1..Len(log[d]) : Kept(log[d][k])
    BY DEF AdjustmentTypes, RequestInv, Last
  <2>9. PICK r : r = Raced(log[c])
    OBVIOUS
  <2>10. r \in Seq(Mutation) /\ \A k \in 1..Len(r) : Kept(r[k])'
    BY <2>8, <2>9, KeptRaced
  <2>11. log'[c] \in Seq(Mutation) /\ \A k \in 1..Len(log'[c]) : Kept(log[c][k])'
    BY <2>6, <2>7, <2>9, <2>10, Appended, KeptAppended
  <2>12. ASSUME NEW d \in Callers, d # c
         PROVE  log'[d] \in Seq(Mutation) /\ \A k \in 1..Len(log'[d]) : Kept(log[d][k])'
    BY <2>7, <2>8, <2>12, KeptRaced
  <2>13. QED
    BY <2>7, <2>11, <2>12, EveryLog
<1>5. ASSUME NEW c \in Callers, NEW e, MutateFailed(c, e) PROVE LogsKept
  <2>1. stage[c] = "mutating" /\ plan[c] \in Plan /\ item' = item
    BY <1>5 DEF MutateFailed, AdjustmentTypes
  <2> DEFINE open == e # "rejected"
             report == IF DefiniteRejection(e) THEN "rejected" ELSE "unknown"
  <2>2. PICK m : m = [plan |-> plan[c], landed |-> FALSE, open |-> open, raced |-> meddled[c],
                      deleted |-> FALSE, report |-> report]
    OBVIOUS
  <2>3. open \in BOOLEAN /\ report \in {"unknown", "rejected"} /\ (report = "rejected" => ~open)
    BY DEF DefiniteRejection
  <2>4. log' = [log EXCEPT ![c] = Append(@, m)]
    BY <1>5, <2>2 DEF MutateFailed
  <2> HIDE DEF open, report
  <2>5. m \in Mutation /\ Kept(m)'
    BY <2>1, <2>2, <2>3, Sending
  <2>6. \A d \in Callers : log[d] \in Seq(Mutation) /\ \A k \in 1..Len(log[d]) : Kept(log[d][k])
    BY DEF AdjustmentTypes, RequestInv, Last
  <2>7. DOMAIN log' = Callers /\ log' = [d \in Callers |-> log'[d]]
        /\ log'[c] = Append(log[c], m) /\ \A d \in Callers : d # c => log'[d] = log[d]
    BY <2>4 DEF AdjustmentTypes
  <2>8. PICK r : r = log[c]
    OBVIOUS
  <2>9. r \in Seq(Mutation) /\ \A k \in 1..Len(r) : Kept(r[k])'
    BY <2>1, <2>6, <2>8, KeptSame
  <2>10. log'[c] \in Seq(Mutation) /\ \A k \in 1..Len(log'[c]) : Kept(log[c][k])'
    BY <2>5, <2>7, <2>8, <2>9, Appended, KeptAppended
  <2>11. ASSUME NEW d \in Callers, d # c
         PROVE  log'[d] \in Seq(Mutation) /\ \A k \in 1..Len(log'[d]) : Kept(log[d][k])'
    BY <2>1, <2>6, <2>7, <2>11, KeptSame
  <2>12. QED
    BY <2>7, <2>10, <2>11, EveryLog
<1>6. ASSUME NEW c \in Callers, NEW n \in 1..MaxMutations, n <= Last(c), LandsLate(c, n) PROVE LogsKept
  <2> DEFINE m == log[c][n]
             deleted == ~item'.exists
             p == m.plan
  <2>1. \A d \in Callers : log[d] \in Seq(Mutation) /\ \A k \in 1..Len(log[d]) : Kept(log[d][k])
    BY DEF AdjustmentTypes, RequestInv, Last
  <2>2. n \in 1..Len(log[c]) /\ m \in Mutation /\ Kept(m) /\ m.open /\ Applicable(p) /\ item' = Applied(p)
    BY <1>6, <2>1 DEF LandsLate, Last
  <2>3. p \in Plan /\ Plannable(p) /\ m.raced \in 0..2 /\ (m.raced = 0 => item = p.before)
    BY <2>2, MutationFields DEF Kept
  <2>4. deleted => m.raced > 0
    <3>1. m.raced = 0 => Applied(p).exists
      BY <2>2, <2>3, NothingDeleted DEF AdjustmentTypes, ItemInv
    <3>2. QED
      BY <2>2, <2>3, <3>1
  <2>5. PICK x : x = Settled(m, TRUE, FALSE, deleted)
    OBVIOUS
  <2>7. deleted \in BOOLEAN
    OBVIOUS
  <2>8. log' = [d \in Callers |-> IF d # c THEN Raced(log[d]) ELSE [Raced(log[d]) EXCEPT ![n] = x]]
    BY <1>6, <2>5 DEF LandsLate, Settled
  <2> HIDE DEF deleted, m, p
  <2>9. x \in Mutation /\ x.plan = m.plan /\ ~x.open /\ x.raced = m.raced /\ (x.deleted <=> deleted)
        /\ x.report = m.report /\ x.landed
    <3>1. m \in Mutation /\ TRUE \in BOOLEAN /\ FALSE \in BOOLEAN
      BY <2>2
    <3>2. Settles(x, m, TRUE, FALSE, deleted)
      BY <2>5, <2>7, <3>1, SettledFields, Zenon
    <3>3. QED
      BY <3>2 DEF Settles
  <2>10. Kept(x)'
    BY <2>2, <2>3, <2>4, <2>9 DEF Kept, p
  <2>11. /\ DOMAIN log' = Callers /\ log' = [d \in Callers |-> log'[d]]
         /\ log'[c] = [Raced(log[c]) EXCEPT ![n] = x] /\ \A d \in Callers : d # c => log'[d] = Raced(log[d])
    BY <2>8
  <2>12. PICK r : r = Raced(log[c])
    OBVIOUS
  <2>13. r \in Seq(Mutation) /\ (\A k \in 1..Len(r) : Kept(r[k])') /\ Len(r) = Len(log[c])
    BY <2>1, <2>12, KeptRaced, RacedFields
  <2>14. PICK t : t = [r EXCEPT ![n] = x]
    OBVIOUS
  <2>15. t \in Seq(Mutation) /\ Len(t) = Len(r) /\ \A k \in 1..Len(r) : t[k] = IF k = n THEN x ELSE r[k]
    BY <2>2, <2>9, <2>13, <2>14
  <2>16. \A k \in 1..Len(t) : Kept(t[k])'
    BY <2>10, <2>13, <2>15
  <2>17. log'[c] \in Seq(Mutation) /\ \A k \in 1..Len(log'[c]) : Kept(log[c][k])'
    BY <2>11, <2>12, <2>14, <2>15, <2>16
  <2>18. ASSUME NEW d \in Callers, d # c
         PROVE  log'[d] \in Seq(Mutation) /\ \A k \in 1..Len(log'[d]) : Kept(log[d][k])'
    BY <2>1, <2>11, <2>18, KeptRaced
  <2>19. QED
    BY <2>11, <2>17, <2>18, EveryLog
<1>7. ASSUME NEW c \in Callers, ReadBack(c) PROVE LogsKept
  <2> DEFINE n == Last(c)
             m == log[c][n]
  <2>1. \A d \in Callers : log[d] \in Seq(Mutation) /\ \A k \in 1..Len(log[d]) : Kept(log[d][k])
    BY DEF AdjustmentTypes, RequestInv, Last
  <2>2. n \in 1..Len(log[c]) /\ m \in Mutation /\ Kept(m) /\ Answered(m, plan[c]) /\ item' = item
    BY <1>7, <2>1 DEF ReadBack, ReadBackInv, Last
  <2>3. PICK r \in {"ok", "unknown"} :
          /\ r = "ok" => Matches(item, plan[c])
          /\ log' = [log EXCEPT ![c][n].report = r]
    BY <1>7 DEF ReadBack
  <2>4. PICK x : x = [m EXCEPT !.report = r]
    OBVIOUS
  <2> HIDE DEF m
  <2>5. x = [plan |-> m.plan, landed |-> m.landed, open |-> m.open, raced |-> m.raced,
             deleted |-> m.deleted, report |-> r]
    BY <2>2, <2>4, MutationFields
  <2>6. x \in Mutation
    BY <2>2, <2>3, <2>5, MutationFields, NewMutation
  <2>7. x.plan = m.plan /\ x.landed = m.landed /\ x.open = m.open /\ x.raced = m.raced
        /\ x.deleted = m.deleted /\ x.report = r
    BY <2>5
  <2>8. x.report = "ok" => ~x.open /\ (Telling(x.plan) => x.raced # 1)
    <3>1. Matches(item, plan[c]) <=> Seen(item) = plan[c].after
      BY DEF Matches, Seen
    <3>2. QED
      BY <2>2, <2>3, <2>7, <3>1 DEF Answered
  <2>9. Kept(x)'
    BY <2>2, <2>3, <2>7, <2>8 DEF Kept
  <2>10. log' = [log EXCEPT ![c] = [log[c] EXCEPT ![n] = x]]
    BY <2>1, <2>3, <2>4 DEF AdjustmentTypes, m
  <2> HIDE DEF n
  <2>11. /\ DOMAIN log' = Callers /\ log' = [d \in Callers |-> log'[d]]
         /\ log'[c] = [log[c] EXCEPT ![n] = x] /\ \A d \in Callers : d # c => log'[d] = log[d]
    BY <2>10 DEF AdjustmentTypes
  <2>12. PICK s : s = log[c]
    OBVIOUS
  <2>13. s \in Seq(Mutation) /\ (\A k \in 1..Len(s) : Kept(s[k])') /\ n \in 1..Len(s)
    BY <2>1, <2>2, <2>12, KeptSame
  <2>14. PICK t : t = [s EXCEPT ![n] = x]
    OBVIOUS
  <2>15. t \in Seq(Mutation) /\ Len(t) = Len(s) /\ \A k \in 1..Len(s) : t[k] = IF k = n THEN x ELSE s[k]
    BY <2>6, <2>13, <2>14
  <2>16. \A k \in 1..Len(t) : Kept(t[k])'
    BY <2>9, <2>13, <2>15
  <2>17. log'[c] \in Seq(Mutation) /\ \A k \in 1..Len(log'[c]) : Kept(log[c][k])'
    BY <2>11, <2>12, <2>14, <2>15, <2>16
  <2>18. ASSUME NEW d \in Callers, d # c
         PROVE  log'[d] \in Seq(Mutation) /\ \A k \in 1..Len(log'[d]) : Kept(log[d][k])'
    BY <2>1, <2>2, <2>11, <2>18, KeptSame
  <2>19. QED
    BY <2>11, <2>17, <2>18, EveryLog
<1>8. ASSUME NEW a \in Actions, Void(a) PROVE LogsKept
  <2>1. log' = log /\ item' = item
    BY <1>8 DEF Void
  <2>2. QED
    BY <2>1, KeptSame DEF LogsKept, RequestInv, Last, AdjustmentTypes
<1>9. ASSUME ForeignWrite PROVE LogsKept
  <2>1. log' = [d \in Callers |-> Raced(log[d])]
    BY <1>9 DEF ForeignWrite
  <2>2. \A d \in Callers : log[d] \in Seq(Mutation) /\ \A k \in 1..Len(log[d]) : Kept(log[d][k])
    BY DEF AdjustmentTypes, RequestInv, Last
  <2>3. DOMAIN log' = Callers /\ log' = [d \in Callers |-> log'[d]]
        /\ \A d \in Callers : log'[d] = Raced(log[d])
    BY <2>1
  <2>4. ASSUME NEW d \in Callers
        PROVE  log'[d] \in Seq(Mutation) /\ \A k \in 1..Len(log'[d]) : Kept(log[d][k])'
    BY <2>2, <2>3, KeptRaced
  <2>5. QED
    BY <2>3, <2>4, EveryLog
<1>10. QED
  BY <1>1, <1>2, <1>3, <1>4, <1>5, <1>6, <1>7, <1>8, <1>9 DEF Next

\* What a call that returns leaves behind.
LEMMA Returned ==
  ASSUME AdjustmentTypes, NEW c \in Callers, Return(c)
  PROVE  /\ stage' \in [Callers -> {"idle", "planned", "mutating", "reading"}]
         /\ DOMAIN mode' = Callers /\ DOMAIN plan' = Callers /\ meddled' \in [Callers -> 0..2]
         /\ stage'[c] = "idle" /\ meddled'[c] = 0
         /\ \A d \in Callers : d # c => stage'[d] = stage[d] /\ plan'[d] = plan[d] /\ meddled'[d] = meddled[d]
BY DEF Return, AdjustmentTypes

\* How writes by others are counted, call by call.
LEMMA MeddledCounts ==
  ASSUME AdjustmentTypes, NEW T, meddled' = MeddledBy(T)
  PROVE  /\ meddled' \in [Callers -> 0..2]
         /\ \A d \in Callers : d \notin T => meddled'[d] = IF Busy(d) THEN Up(meddled[d]) ELSE meddled[d]
<1>1. \A d \in Callers : meddled[d] \in 0..2
  BY DEF AdjustmentTypes
<1>2. meddled' = [d \in Callers |-> IF d \notin T /\ Busy(d) THEN Up(meddled[d]) ELSE meddled[d]]
  BY DEF MeddledBy
<1>3. \A d \in Callers : meddled'[d] \in 0..2
  BY <1>1, <1>2, Counted
<1>4. QED
  BY <1>2, <1>3

LEMMA NewPlan ==
  ASSUME NEW i \in Item, NEW a \in Actions, NEW j \in Requested(a, i)
  PROVE  [action |-> a, before |-> i, after |-> j] \in Plan
<1>1. j \in {[i EXCEPT !.quantity = q] : q \in Quantities} \cup {[i EXCEPT !.status = x] : x \in Statuses}
  BY DEF Requested, Actions
<1>2. j \in Item
  BY <1>1 DEF Item
<1>3. QED
  BY <1>2 DEF Plan

\* Everything else is what it should be.
LEMMA AdjustmentTypesStep ==
  ASSUME AdjustmentTypes, item' \in Item, log' \in [Callers -> Seq(Mutation)], Next
  PROVE  AdjustmentTypes'
<1>1. ASSUME NEW c \in Callers, NEW m, NEW a \in Actions, ReadAndPlan(c, m, a) PROVE AdjustmentTypes'
  <2>1. PICK j \in Requested(a, item) : plan' = [plan EXCEPT ![c] = [action |-> a, before |-> item, after |-> j]]
    BY <1>1 DEF ReadAndPlan
  <2>2. plan'[c] \in Plan /\ DOMAIN plan' = Callers /\ \A d \in Callers : d # c => plan'[d] = plan[d]
    BY <2>1, NewPlan DEF AdjustmentTypes
  <2>3. /\ stage' \in [Callers -> {"idle", "planned", "mutating", "reading"}] /\ DOMAIN mode' = Callers
        /\ \A d \in Callers : d # c => stage'[d] = stage[d]
    BY <1>1 DEF ReadAndPlan, Goto, AdjustmentTypes
  <2>4. UNCHANGED <<offers, meddled, issued>>
    BY <1>1 DEF ReadAndPlan
  <2>5. QED
    BY <2>2, <2>3, <2>4 DEF AdjustmentTypes
<1>2. ASSUME NEW c \in Callers, Issue(c) PROVE AdjustmentTypes'
  <2>1. /\ stage' \in [Callers -> {"idle", "planned", "mutating", "reading"}]
        /\ DOMAIN mode' = Callers /\ DOMAIN plan' = Callers /\ meddled' \in [Callers -> 0..2]
        /\ \A d \in Callers : stage'[d] # "idle" => stage[d] # "idle" /\ plan'[d] = plan[d]
    BY <1>2, Returned DEF Issue
  <2>2. DOMAIN offers' = Actions /\ issued' \in Nat
    BY <1>2 DEF Issue, AdjustmentTypes
  <2>3. QED
    BY <2>1, <2>2 DEF AdjustmentTypes
<1>3. ASSUME NEW c \in Callers, Consume(c) PROVE AdjustmentTypes'
  <2>1. CASE offers[plan[c].action] = plan[c]
    <3>1. /\ stage' = [stage EXCEPT ![c] = "mutating"] /\ UNCHANGED <<mode, plan, meddled, issued>>
          /\ DOMAIN offers' = Actions /\ stage[c] # "idle"
      BY <1>3, <2>1 DEF Consume, Goto, AdjustmentTypes
    <3>2. QED
      BY <3>1 DEF AdjustmentTypes
  <2>2. CASE offers[plan[c].action] # plan[c]
    <3>1. Return(c) /\ UNCHANGED <<offers, issued>>
      BY <1>3, <2>2 DEF Consume
    <3>2. /\ stage' \in [Callers -> {"idle", "planned", "mutating", "reading"}]
          /\ DOMAIN mode' = Callers /\ DOMAIN plan' = Callers /\ meddled' \in [Callers -> 0..2]
          /\ \A d \in Callers : stage'[d] # "idle" => stage[d] # "idle" /\ plan'[d] = plan[d]
      BY <3>1, Returned
    <3>3. QED
      BY <3>1, <3>2 DEF AdjustmentTypes
  <2>3. QED
    BY <2>1, <2>2
<1>4. ASSUME NEW c \in Callers, MutateAnswered(c) PROVE AdjustmentTypes'
  <2>1. /\ stage' = [stage EXCEPT ![c] = "reading"] /\ UNCHANGED <<mode, plan, offers, issued>>
        /\ stage[c] # "idle"
    BY <1>4 DEF MutateAnswered, Goto
  <2>2. meddled' \in [Callers -> 0..2]
    BY <1>4, MeddledCounts DEF MutateAnswered
  <2>3. QED
    BY <2>1, <2>2 DEF AdjustmentTypes
<1>5. ASSUME NEW c \in Callers, NEW e, MutateFailed(c, e) PROVE AdjustmentTypes'
  <2>1. /\ stage' \in [Callers -> {"idle", "planned", "mutating", "reading"}]
        /\ DOMAIN mode' = Callers /\ DOMAIN plan' = Callers /\ meddled' \in [Callers -> 0..2]
        /\ \A d \in Callers : stage'[d] # "idle" => stage[d] # "idle" /\ plan'[d] = plan[d]
    BY <1>5, Returned DEF MutateFailed
  <2>2. DOMAIN offers' = Actions /\ issued' \in Nat
    BY <1>5 DEF MutateFailed, AdjustmentTypes
  <2>3. QED
    BY <2>1, <2>2 DEF AdjustmentTypes
<1>6. ASSUME NEW c \in Callers, NEW n \in 1..MaxMutations, n <= Last(c), LandsLate(c, n) PROVE AdjustmentTypes'
  <2>1. UNCHANGED <<stage, mode, plan, issued>>
    BY <1>6 DEF LandsLate, call
  <2>2. DOMAIN offers' = Actions
    BY <1>6 DEF LandsLate, AdjustmentTypes
  <2>3. meddled' \in [Callers -> 0..2]
    BY <1>6, MeddledCounts DEF LandsLate, AdjustmentTypes
  <2>4. QED
    BY <2>1, <2>2, <2>3 DEF AdjustmentTypes
<1>7. ASSUME NEW c \in Callers, ReadBack(c) PROVE AdjustmentTypes'
  <2>1. /\ stage' \in [Callers -> {"idle", "planned", "mutating", "reading"}]
        /\ DOMAIN mode' = Callers /\ DOMAIN plan' = Callers /\ meddled' \in [Callers -> 0..2]
        /\ \A d \in Callers : stage'[d] # "idle" => stage[d] # "idle" /\ plan'[d] = plan[d]
    BY <1>7, Returned DEF ReadBack
  <2>2. DOMAIN offers' = Actions /\ issued' \in Nat
    BY <1>7 DEF ReadBack, AdjustmentTypes
  <2>3. QED
    BY <2>1, <2>2 DEF AdjustmentTypes
<1>8. ASSUME NEW a \in Actions, Void(a) PROVE AdjustmentTypes'
  <2>1. UNCHANGED <<stage, mode, plan, issued>>
    BY <1>8 DEF Void, call
  <2>2. DOMAIN offers' = Actions
    BY <1>8 DEF Void, AdjustmentTypes
  <2>3. meddled' \in [Callers -> 0..2]
    BY <1>8, MeddledCounts DEF Void, AdjustmentTypes
  <2>4. QED
    BY <2>1, <2>2, <2>3 DEF AdjustmentTypes
<1>9. ASSUME ForeignWrite PROVE AdjustmentTypes'
  <2>1. UNCHANGED <<stage, mode, plan, issued>>
    BY <1>9 DEF ForeignWrite, call
  <2>2. DOMAIN offers' = Actions
    BY <1>9 DEF ForeignWrite, AdjustmentTypes
  <2>3. meddled' \in [Callers -> 0..2]
    BY <1>9, MeddledCounts DEF ForeignWrite, AdjustmentTypes
  <2>4. QED
    BY <2>1, <2>2, <2>3 DEF AdjustmentTypes
<1>10. QED
  BY <1>1, <1>2, <1>3, <1>4, <1>5, <1>6, <1>7, <1>8, <1>9 DEF Next

\* Of a call that goes on, what it read is known to have changed as often as it is said.
LEMMA Interfered ==
  ASSUME AdjustmentTypes, SnapshotInv, NEW d \in Callers, stage'[d] = stage[d], plan'[d] = plan[d],
         meddled'[d] = IF Busy(d) THEN Up(meddled[d]) ELSE meddled[d]
  PROVE  Snapshot(stage'[d], plan'[d], meddled'[d], item')
<1>1. meddled[d] \in 0..2
  BY DEF AdjustmentTypes
<1>2. CASE stage[d] = "idle"
  BY <1>2 DEF SnapshotInv, Snapshot, Busy
<1>3. CASE stage[d] # "idle"
  <2>1. meddled'[d] = Up(meddled[d])
    BY <1>3 DEF Busy
  <2>2. PICK n \in 0..2 : n = meddled[d]
    BY <1>1
  <2>3. /\ Up(n) = 0 => n = 0 /\ item' = item
        /\ Up(n) = 1 => (n = 1 /\ item' = item) \/ (n = 0 /\ item' # item)
    BY <2>2 DEF Up
  <2>4. meddled'[d] = Up(n)
    BY <2>1, <2>2
  <2>5. Snapshot(stage[d], plan[d], n, item)
    BY <2>2 DEF SnapshotInv
  <2>6. QED
    BY <1>3, <2>3, <2>4, <2>5 DEF Snapshot
<1>4. QED
  BY <1>2, <1>3

\* The same where nothing is written.
LEMMA NotInterfered ==
  ASSUME AdjustmentTypes, SnapshotInv, NEW d \in Callers, stage'[d] = stage[d], plan'[d] = plan[d],
         meddled'[d] = meddled[d], item' = item
  PROVE  Snapshot(stage'[d], plan'[d], meddled'[d], item')
BY DEF SnapshotInv

\* What a call read stays what it is said to be.
LEMMA SnapshotStep ==
  ASSUME AdjustmentTypes, SnapshotInv, Next
  PROVE  SnapshotInv'
<1>1. ASSUME NEW c \in Callers, NEW m, NEW a \in Actions, ReadAndPlan(c, m, a) PROVE SnapshotInv'
  <2>1. PICK j \in Requested(a, item) :
          ~Refuses(a, item, j) /\ plan' = [plan EXCEPT ![c] = [action |-> a, before |-> item, after |-> j]]
    BY <1>1 DEF ReadAndPlan
  <2>2. /\ plan'[c].action = a /\ plan'[c].before = item /\ plan'[c].after = j
        /\ \A d \in Callers : d # c => plan'[d] = plan[d]
    BY <2>1 DEF AdjustmentTypes
  <2>3. /\ stage[c] = "idle" /\ stage'[c] = "planned" /\ UNCHANGED <<item, meddled>> /\ item.exists
        /\ \A d \in Callers : d # c => stage'[d] = stage[d]
    BY <1>1 DEF ReadAndPlan, Goto, AdjustmentTypes
  <2>4. meddled'[c] = 0
    BY <2>3 DEF SnapshotInv, Snapshot
  <2>5. Plannable(plan'[c])
    BY <2>1, <2>2, <2>3 DEF Plannable
  <2>6. Snapshot(stage'[c], plan'[c], meddled'[c], item')
    BY <2>2, <2>3, <2>4, <2>5 DEF Snapshot
  <2>7. QED
    BY <2>2, <2>3, <2>6, NotInterfered DEF SnapshotInv
<1>2. ASSUME NEW c \in Callers, Issue(c) PROVE SnapshotInv'
  <2>1. /\ stage'[c] = "idle" /\ meddled'[c] = 0 /\ item' = item
        /\ \A d \in Callers : d # c => stage'[d] = stage[d] /\ plan'[d] = plan[d] /\ meddled'[d] = meddled[d]
    BY <1>2, Returned DEF Issue
  <2>2. Snapshot(stage'[c], plan'[c], meddled'[c], item')
    BY <2>1 DEF Snapshot
  <2>3. QED
    BY <2>1, <2>2, NotInterfered DEF SnapshotInv
<1>3. ASSUME NEW c \in Callers, Consume(c) PROVE SnapshotInv'
  <2>1. CASE offers[plan[c].action] = plan[c]
    <3>1. /\ stage' = [stage EXCEPT ![c] = "mutating"] /\ UNCHANGED <<plan, meddled, item>> /\ stage[c] = "planned"
      BY <1>3, <2>1 DEF Consume, Goto
    <3>2. Snapshot(stage'[c], plan'[c], meddled'[c], item')
      BY <3>1 DEF SnapshotInv, Snapshot, AdjustmentTypes
    <3>3. \A d \in Callers : d # c => stage'[d] = stage[d]
      BY <3>1 DEF AdjustmentTypes
    <3>4. QED
      BY <3>1, <3>2, <3>3, NotInterfered DEF SnapshotInv
  <2>2. CASE offers[plan[c].action] # plan[c]
    <3>1. Return(c) /\ item' = item
      BY <1>3, <2>2 DEF Consume
    <3>2. /\ stage'[c] = "idle" /\ meddled'[c] = 0
          /\ \A d \in Callers : d # c => stage'[d] = stage[d] /\ plan'[d] = plan[d] /\ meddled'[d] = meddled[d]
      BY <3>1, Returned
    <3>3. Snapshot(stage'[c], plan'[c], meddled'[c], item')
      BY <3>2 DEF Snapshot
    <3>4. QED
      BY <3>1, <3>2, <3>3, NotInterfered DEF SnapshotInv
  <2>3. QED
    BY <2>1, <2>2
<1>4. ASSUME NEW c \in Callers, MutateAnswered(c) PROVE SnapshotInv'
  <2>1. /\ stage'[c] = "reading" /\ UNCHANGED plan
        /\ \A d \in Callers : d # c => stage'[d] = stage[d]
    BY <1>4 DEF MutateAnswered, Goto, AdjustmentTypes
  <2>2. meddled' = MeddledBy({c})
    BY <1>4 DEF MutateAnswered
  <2>3. \A d \in Callers : d \notin {c} => meddled'[d] = IF Busy(d) THEN Up(meddled[d]) ELSE meddled[d]
    BY <2>2, MeddledCounts
  <2>4. Snapshot(stage'[c], plan'[c], meddled'[c], item')
    BY <2>1 DEF Snapshot
  <2>5. ASSUME NEW d \in Callers, d # c PROVE Snapshot(stage'[d], plan'[d], meddled'[d], item')
    BY <2>1, <2>3, <2>5, Interfered
  <2>6. QED
    BY <2>4, <2>5 DEF SnapshotInv
<1>5. ASSUME NEW c \in Callers, NEW e, MutateFailed(c, e) PROVE SnapshotInv'
  <2>1. /\ stage'[c] = "idle" /\ meddled'[c] = 0 /\ item' = item
        /\ \A d \in Callers : d # c => stage'[d] = stage[d] /\ plan'[d] = plan[d] /\ meddled'[d] = meddled[d]
    BY <1>5, Returned DEF MutateFailed
  <2>2. Snapshot(stage'[c], plan'[c], meddled'[c], item')
    BY <2>1 DEF Snapshot
  <2>3. QED
    BY <2>1, <2>2, NotInterfered DEF SnapshotInv
<1>6. ASSUME NEW c \in Callers, NEW n \in 1..MaxMutations, n <= Last(c), LandsLate(c, n) PROVE SnapshotInv'
  <2>1. UNCHANGED <<stage, plan>>
    BY <1>6 DEF LandsLate, call
  <2>2. \A d \in Callers : meddled'[d] = IF Busy(d) THEN Up(meddled[d]) ELSE meddled[d]
    BY <1>6, MeddledCounts DEF LandsLate
  <2>3. QED
    BY <2>1, <2>2, Interfered DEF SnapshotInv
<1>7. ASSUME NEW c \in Callers, ReadBack(c) PROVE SnapshotInv'
  <2>1. /\ stage'[c] = "idle" /\ meddled'[c] = 0 /\ item' = item
        /\ \A d \in Callers : d # c => stage'[d] = stage[d] /\ plan'[d] = plan[d] /\ meddled'[d] = meddled[d]
    BY <1>7, Returned DEF ReadBack
  <2>2. Snapshot(stage'[c], plan'[c], meddled'[c], item')
    BY <2>1 DEF Snapshot
  <2>3. QED
    BY <2>1, <2>2, NotInterfered DEF SnapshotInv
<1>8. ASSUME NEW a \in Actions, Void(a) PROVE SnapshotInv'
  <2>1. UNCHANGED <<stage, plan, meddled, item>>
    BY <1>8 DEF Void, call
  <2>2. QED
    BY <2>1, NotInterfered DEF SnapshotInv
<1>9. ASSUME ForeignWrite PROVE SnapshotInv'
  <2>1. UNCHANGED <<stage, plan>>
    BY <1>9 DEF ForeignWrite, call
  <2>2. \A d \in Callers : meddled'[d] = IF Busy(d) THEN Up(meddled[d]) ELSE meddled[d]
    BY <1>9, MeddledCounts DEF ForeignWrite
  <2>3. QED
    BY <2>1, <2>2, Interfered DEF SnapshotInv
<1>10. QED
  BY <1>1, <1>2, <1>3, <1>4, <1>5, <1>6, <1>7, <1>8, <1>9 DEF Next

\* An answered mutation that others overwrite is not read back as done by mistake.
LEMMA AnsweredAged ==
  ASSUME NEW m \in Mutation, NEW p, Answered(m, p), item \in Item, item' \in Item,
         Whole(item), Whole(item)', NEW x, x = Aged(m), NEW q, q = p
  PROVE  Answered(x, q)'
<1>1. /\ x.plan = p /\ x.report = "sent" /\ ~x.open /\ x.raced = Up(m.raced) /\ m.raced \in 0..2
      /\ item' = item => x.raced = m.raced
  BY AgedFields, MutationFields DEF Answered, Pending
<1>2. CASE item' = item
  BY <1>1, <1>2 DEF Answered
<1>3. CASE item' # item
  <2>1. x.raced # 0 /\ (x.raced = 1 => m.raced = 0)
    BY <1>1, <1>3 DEF Up
  <2>2. Seen(item') # Seen(item)
    BY <1>3, SeenApart
  <2>3. Telling(p) /\ x.raced = 1 => Seen(item') # p.after
    BY <2>1, <2>2 DEF Answered
  <2>4. QED
    BY <1>1, <2>1, <2>3 DEF Answered
<1>4. QED
  BY <1>2, <1>3

\* Of a call about to read back whose answered mutation is still its last.
LEMMA StillAnswered ==
  ASSUME AdjustmentTypes, ItemInv, ReadBackInv, item' \in Item, Whole(item)', NEW d \in Callers,
         stage[d] = "reading", plan'[d] = plan[d], Len(log'[d]) = Last(d),
         log'[d][Last(d)] = Aged(log[d][Last(d)]) \/ (log'[d] = log[d] /\ item' = item)
  PROVE  (Last(d) > 0 /\ Answered(log[d][Last(d)], plan[d]))'
<1>1. PICK n : n = Last(d)
  OBVIOUS
<1>2. n > 0 /\ log[d][n] \in Mutation /\ Answered(log[d][n], plan[d]) /\ Last(d)' = n
  BY <1>1 DEF ReadBackInv, AdjustmentTypes, Last
<1>3. PICK x : x = log'[d][n]
  OBVIOUS
<1>4. PICK q : q = plan'[d]
  OBVIOUS
<1>5. Answered(x, q)'
  <2>1. CASE x = Aged(log[d][n])
    BY <1>2, <1>4, <2>1, AnsweredAged DEF AdjustmentTypes, ItemInv
  <2>2. CASE log'[d] = log[d] /\ item' = item
    BY <1>2, <1>3, <1>4, <2>2 DEF Answered
  <2>3. QED
    BY <1>1, <1>3, <2>1, <2>2
<1>6. QED
  BY <1>2, <1>3, <1>4, <1>5

\* Whoever is about to read back knows what it will find.
LEMMA ReadBackStep ==
  ASSUME AdjustmentTypes, ItemInv, SnapshotInv, ReadBackInv, item' \in Item, Whole(item)', Next
  PROVE  ReadBackInv'
<1>1. ASSUME NEW c \in Callers, NEW m, NEW a \in Actions, ReadAndPlan(c, m, a) PROVE ReadBackInv'
  <2> SUFFICES ASSUME NEW d \in Callers, stage'[d] = "reading"
               PROVE  (Last(d) > 0 /\ Answered(log[d][Last(d)], plan[d]))'
    BY DEF ReadBackInv
  <2>1. stage[d] = "reading" /\ plan'[d] = plan[d] /\ log' = log /\ item' = item
    BY <1>1 DEF ReadAndPlan, call, Goto, AdjustmentTypes
  <2>2. QED
    BY <2>1, StillAnswered DEF Last
<1>2. ASSUME NEW c \in Callers, Issue(c) PROVE ReadBackInv'
  <2> SUFFICES ASSUME NEW d \in Callers, stage'[d] = "reading"
               PROVE  (Last(d) > 0 /\ Answered(log[d][Last(d)], plan[d]))'
    BY DEF ReadBackInv
  <2>1. d # c /\ stage[d] = "reading" /\ plan'[d] = plan[d] /\ item' = item
    BY <1>2, Returned DEF Issue
  <2>2. stage[d] = "reading" /\ plan'[d] = plan[d] /\ log'[d] = log[d] /\ item' = item
    BY <1>2, <2>1 DEF Issue, AdjustmentTypes
  <2>3. QED
    BY <2>2, StillAnswered DEF Last
<1>3. ASSUME NEW c \in Callers, Consume(c) PROVE ReadBackInv'
  <2> SUFFICES ASSUME NEW d \in Callers, stage'[d] = "reading"
               PROVE  (Last(d) > 0 /\ Answered(log[d][Last(d)], plan[d]))'
    BY DEF ReadBackInv
  <2>2. CASE offers[plan[c].action] = plan[c]
    <3>1. stage[d] = "reading" /\ plan'[d] = plan[d] /\ log' = log /\ item' = item
      BY <1>3, <2>2 DEF Consume, Goto, AdjustmentTypes
    <3>2. QED
      BY <3>1, StillAnswered DEF Last
  <2>3. CASE offers[plan[c].action] # plan[c]
    <3>1. Return(c) /\ log' = log /\ item' = item
      BY <1>3, <2>3 DEF Consume
    <3>2. stage[d] = "reading" /\ plan'[d] = plan[d]
      BY <3>1, Returned
    <3>3. QED
      BY <3>1, <3>2, StillAnswered DEF Last
  <2>4. QED
    BY <2>2, <2>3
<1>4. ASSUME NEW c \in Callers, MutateAnswered(c) PROVE ReadBackInv'
  <2> SUFFICES ASSUME NEW d \in Callers, stage'[d] = "reading"
               PROVE  (Last(d) > 0 /\ Answered(log[d][Last(d)], plan[d]))'
    BY DEF ReadBackInv
  <2>1. CASE d # c
    <3>1. stage[d] = "reading" /\ plan'[d] = plan[d]
      BY <1>4, <2>1 DEF MutateAnswered, Goto, AdjustmentTypes
    <3>2. log'[d] = Raced(log[d])
      BY <1>4, <2>1 DEF MutateAnswered, RacedBy
    <3>3. Last(d) \in 1..Len(log[d]) /\ log[d] \in Seq(Mutation)
      BY <3>1 DEF ReadBackInv, AdjustmentTypes, Last
    <3>4. log'[d][Last(d)] = Aged(log[d][Last(d)]) /\ Len(log'[d]) = Last(d)
      BY <3>2, <3>3, RacedFields DEF Last
    <3>5. QED
      BY <3>1, <3>4, StillAnswered
  <2>2. CASE d = c
    <3>1. stage[c] = "mutating" /\ plan[c] \in Plan /\ Applicable(plan[c]) /\ item' = Applied(plan[c]) /\ plan' = plan
      BY <1>4 DEF MutateAnswered, AdjustmentTypes
    <3>2. PICK x : x = ~item'.exists
      OBVIOUS
    <3>3. PICK m : m = [plan |-> plan[c], landed |-> TRUE, open |-> FALSE, raced |-> meddled[c],
                        deleted |-> x, report |-> "sent"]
      OBVIOUS
    <3>4. log' = [RacedBy(c) EXCEPT ![c] = Append(Raced(@), m)]
      BY <1>4, <3>2, <3>3 DEF MutateAnswered
    <3>5. PICK r : r = Raced(log[c])
      OBVIOUS
    <3>6. r \in Seq(Mutation)
      BY <3>5, RacedFields DEF AdjustmentTypes
    <3>7. log'[c] = Append(r, m)
      BY <3>4, <3>5 DEF RacedBy
    <3>8. Len(log'[c]) > 0 /\ log'[c][Len(log'[c])] = m
      BY <3>6, <3>7
    <3>9. m.plan = plan[c] /\ m.report = "sent" /\ ~m.open /\ m.raced = meddled[c]
      BY <3>3
    <3>10. PICK p : p = plan[c]
      OBVIOUS
    <3>11. Plannable(p) /\ (meddled[c] = 0 => item = p.before) /\ (meddled[c] = 1 => item # p.before)
      BY <3>1, <3>10 DEF SnapshotInv, Snapshot
    <3>12. Telling(p) => (Seen(item') = p.after <=> item = p.before)
      BY <3>1, <3>10, <3>11, Telltale DEF AdjustmentTypes, ItemInv
    <3>13. Answered(m, p)'
      BY <3>9, <3>10, <3>11, <3>12 DEF Answered
    <3>14. QED
      BY <2>2, <3>1, <3>8, <3>10, <3>13 DEF Last
  <2>3. QED
    BY <2>1, <2>2
<1>5. ASSUME NEW c \in Callers, NEW e, MutateFailed(c, e) PROVE ReadBackInv'
  <2> SUFFICES ASSUME NEW d \in Callers, stage'[d] = "reading"
               PROVE  (Last(d) > 0 /\ Answered(log[d][Last(d)], plan[d]))'
    BY DEF ReadBackInv
  <2>1. d # c /\ stage[d] = "reading" /\ plan'[d] = plan[d] /\ item' = item
    BY <1>5, Returned DEF MutateFailed
  <2>2. stage[d] = "reading" /\ plan'[d] = plan[d] /\ log'[d] = log[d] /\ item' = item
    BY <1>5, <2>1 DEF MutateFailed, AdjustmentTypes
  <2>3. QED
    BY <2>2, StillAnswered DEF Last
<1>6. ASSUME NEW c \in Callers, NEW n \in 1..MaxMutations, n <= Last(c), LandsLate(c, n) PROVE ReadBackInv'
  <2> SUFFICES ASSUME NEW d \in Callers, stage'[d] = "reading"
               PROVE  (Last(d) > 0 /\ Answered(log[d][Last(d)], plan[d]))'
    BY DEF ReadBackInv
  <2>1. stage[d] = "reading" /\ plan'[d] = plan[d]
    BY <1>6 DEF LandsLate, call
  <2>2. Last(d) \in 1..Len(log[d]) /\ log[d] \in Seq(Mutation) /\ ~log[d][Last(d)].open
    BY <2>1 DEF ReadBackInv, AdjustmentTypes, Last, Answered
  <2>3. PICK x : log' = [e \in Callers |-> IF e # c THEN Raced(log[e]) ELSE [Raced(log[e]) EXCEPT ![n] = x]]
    BY <1>6 DEF LandsLate
  <2>4. PICK r : r = Raced(log[d])
    OBVIOUS
  <2>5. r \in Seq(Mutation) /\ Len(r) = Last(d) /\ r[Last(d)] = Aged(log[d][Last(d)])
    BY <2>2, <2>4, RacedFields DEF Last
  <2>6. log'[d] = IF d # c THEN r ELSE [r EXCEPT ![n] = x]
    BY <2>3, <2>4
  <2>7. d = c => n # Last(d)
    BY <1>6, <2>2 DEF LandsLate
  <2>8. log'[d][Last(d)] = Aged(log[d][Last(d)]) /\ Len(log'[d]) = Last(d)
    BY <2>2, <2>5, <2>6, <2>7
  <2>9. QED
    BY <2>1, <2>8, StillAnswered
<1>7. ASSUME NEW c \in Callers, ReadBack(c) PROVE ReadBackInv'
  <2> SUFFICES ASSUME NEW d \in Callers, stage'[d] = "reading"
               PROVE  (Last(d) > 0 /\ Answered(log[d][Last(d)], plan[d]))'
    BY DEF ReadBackInv
  <2>1. d # c /\ stage[d] = "reading" /\ plan'[d] = plan[d] /\ item' = item
    BY <1>7, Returned DEF ReadBack
  <2>2. stage[d] = "reading" /\ plan'[d] = plan[d] /\ log'[d] = log[d] /\ item' = item
    BY <1>7, <2>1 DEF ReadBack, AdjustmentTypes
  <2>3. QED
    BY <2>2, StillAnswered DEF Last
<1>8. ASSUME NEW a \in Actions, Void(a) PROVE ReadBackInv'
  <2> SUFFICES ASSUME NEW d \in Callers, stage'[d] = "reading"
               PROVE  (Last(d) > 0 /\ Answered(log[d][Last(d)], plan[d]))'
    BY DEF ReadBackInv
  <2>1. stage[d] = "reading" /\ plan'[d] = plan[d] /\ log' = log /\ item' = item
    BY <1>8 DEF Void, call, Goto, AdjustmentTypes
  <2>2. QED
    BY <2>1, StillAnswered DEF Last
<1>9. ASSUME ForeignWrite PROVE ReadBackInv'
  <2> SUFFICES ASSUME NEW d \in Callers, stage'[d] = "reading"
               PROVE  (Last(d) > 0 /\ Answered(log[d][Last(d)], plan[d]))'
    BY DEF ReadBackInv
  <2>1. stage[d] = "reading" /\ plan'[d] = plan[d]
    BY <1>9 DEF ForeignWrite, call
  <2>2. log'[d] = Raced(log[d])
    BY <1>9 DEF ForeignWrite
  <2>3. Last(d) \in 1..Len(log[d]) /\ log[d] \in Seq(Mutation)
    BY <2>1 DEF ReadBackInv, AdjustmentTypes, Last
  <2>4. log'[d][Last(d)] = Aged(log[d][Last(d)]) /\ Len(log'[d]) = Last(d)
    BY <2>2, <2>3, RacedFields DEF Last
  <2>5. QED
    BY <2>1, <2>4, StillAnswered
<1>10. QED
  BY <1>1, <1>2, <1>3, <1>4, <1>5, <1>6, <1>7, <1>8, <1>9 DEF Next

\* Mutations are counted by the length of the logs.
LEMMA SameLengths ==
  ASSUME \A d \in Callers : Len(log'[d]) = Last(d)
  PROVE  Logged' = Logged
BY DEF Logged, Mutations, Last

LEMMA RacedLength ==
  ASSUME AdjustmentTypes, NEW d \in Callers, NEW r, r = Raced(log[d])
  PROVE  r \in Seq(Mutation) /\ Len(r) = Last(d)
BY RacedFields DEF AdjustmentTypes, Last

\* A mutation that is logged leaves its caller's hands.
LEMMA LoggedOnce ==
  ASSUME AdjustmentTypes, AdjustmentLedger, NEW c \in Callers, stage[c] = "mutating",
         stage'[c] \in {"idle", "reading"}, \A d \in Callers : d # c => stage'[d] = stage[d],
         Len(log'[c]) = Last(c) + 1, \A d \in Callers : d # c => Len(log'[d]) = Last(d),
         UNCHANGED <<offers, issued>>
  PROVE  AdjustmentLedger'
<1> DEFINE x == <<c, Last(c) + 1>>
<1>1. c \in Mutating /\ Mutating' = Mutating \ {c}
  BY DEF Mutating
<1>2. Offered' = Offered
  BY DEF Offered
<1>3. Logged' \in SUBSET (Logged \cup {x})
  <2>1. SUFFICES ASSUME NEW d \in Callers, NEW n \in 1..MaxMutations, n <= Len(log'[d])
                 PROVE  <<d, n>> \in Logged \cup {x}
    BY DEF Logged, Mutations, Last
  <2>2. Last(c) \in Nat
    BY DEF AdjustmentTypes, Last
  <2>3. CASE d = c /\ n = Last(c) + 1
    BY <2>3
  <2>4. CASE ~(d = c /\ n = Last(c) + 1)
    <3>1. n <= Last(d)
      BY <2>1, <2>2, <2>4
    <3>2. QED
      BY <3>1 DEF Logged, Mutations
  <2>5. QED
    BY <2>3, <2>4
<1> HIDE DEF x
<1>4. IsFiniteSet(Logged \cup {x}) /\ Cardinality(Logged \cup {x}) \in Nat
      /\ Cardinality(Logged \cup {x}) <= Cardinality(Logged) + 1 /\ Cardinality(Logged) \in Nat
  BY Counting DEF AdjustmentLedger
<1>5. IsFiniteSet(Logged') /\ Cardinality(Logged') <= Cardinality(Logged \cup {x}) /\ Cardinality(Logged') \in Nat
  BY <1>3, <1>4, FS_Subset, FS_CardinalityType
<1>6. IsFiniteSet(Mutating') /\ Cardinality(Mutating') \in Nat /\ Cardinality(Mutating') = Cardinality(Mutating) - 1
      /\ Cardinality(Mutating) \in Nat
  BY <1>1, Counting DEF AdjustmentLedger
<1>7. IsFiniteSet(Offered) /\ Cardinality(Offered) \in Nat
  BY FS_CardinalityType DEF AdjustmentLedger
<1>8. issued' = issued /\ issued \in Nat
  BY DEF AdjustmentTypes
<1>9. Cardinality(Logged') + Cardinality(Mutating') + Cardinality(Offered') <= issued'
  <2>1. Cardinality(Logged) + Cardinality(Mutating) + Cardinality(Offered) <= issued
    BY DEF AdjustmentLedger
  <2> DEFINE l == Cardinality(Logged)
             m == Cardinality(Mutating)
             o == Cardinality(Offered)
             k == Cardinality(Logged')
             n == Cardinality(Mutating')
             u == Cardinality(Logged \cup {x})
  <2>2. /\ l \in Nat /\ m \in Nat /\ o \in Nat /\ k \in Nat /\ n \in Nat /\ u \in Nat /\ issued \in Nat
        /\ l + m + o <= issued /\ u <= l + 1 /\ k <= u /\ n = m - 1
    BY <1>4, <1>5, <1>6, <1>7, <1>8, <2>1
  <2> HIDE DEF l, m, o, k, n, u
  <2>3. k + n + o <= issued
    BY <2>2
  <2>4. QED
    BY <1>2, <1>8, <2>3 DEF k, n, o
<1>10. QED
  BY <1>2, <1>5, <1>6, <1>7, <1>9 DEF AdjustmentLedger

\* A plan issued or voided, and a plan spent.
LEMMA OfferedOrNot ==
  ASSUME AdjustmentTypes, AdjustmentLedger, Logged' = Logged, Mutating' = Mutating,
         NEW a, \/ Offered' \in SUBSET (Offered \cup {a}) /\ issued' = issued + 1
                \/ Offered' \in SUBSET Offered /\ issued' = issued
  PROVE  AdjustmentLedger'
<1>1. /\ IsFiniteSet(Logged) /\ Cardinality(Logged) \in Nat
      /\ IsFiniteSet(Mutating) /\ Cardinality(Mutating) \in Nat
      /\ IsFiniteSet(Offered) /\ Cardinality(Offered) \in Nat /\ issued \in Nat
      /\ Cardinality(Logged) + Cardinality(Mutating) + Cardinality(Offered) <= issued
  BY FS_CardinalityType DEF AdjustmentLedger, AdjustmentTypes
<1>2. IsFiniteSet(Offered \cup {a}) /\ Cardinality(Offered \cup {a}) \in Nat
      /\ Cardinality(Offered \cup {a}) <= Cardinality(Offered) + 1
  BY <1>1, Counting
<1>3. /\ IsFiniteSet(Offered') /\ Cardinality(Offered') \in Nat
      /\ Cardinality(Offered') - issued' <= Cardinality(Offered) - issued /\ issued' \in Nat
  <2>1. CASE Offered' \in SUBSET (Offered \cup {a}) /\ issued' = issued + 1
    <3>1. IsFiniteSet(Offered') /\ Cardinality(Offered') \in Nat
          /\ Cardinality(Offered') <= Cardinality(Offered \cup {a})
      BY <1>2, <2>1, FS_Subset, FS_CardinalityType
    <3>2. QED
      BY <1>1, <1>2, <2>1, <3>1
  <2>2. CASE Offered' \in SUBSET Offered /\ issued' = issued
    <3>1. IsFiniteSet(Offered') /\ Cardinality(Offered') \in Nat /\ Cardinality(Offered') <= Cardinality(Offered)
      BY <1>1, <2>2, FS_Subset, FS_CardinalityType
    <3>2. QED
      BY <1>1, <2>2, <3>1
  <2>3. QED
    BY <2>1, <2>2
<1>4. Cardinality(Logged) + Cardinality(Mutating) + Cardinality(Offered') <= issued'
  BY <1>1, <1>3
<1>5. QED
  BY <1>1, <1>3, <1>4 DEF AdjustmentLedger

\* What is sent stays within what was reviewed.
LEMMA AdjustmentLedgerStep ==
  ASSUME AdjustmentTypes, AdjustmentLedger, Next
  PROVE  AdjustmentLedger'
<1>1. ASSUME NEW c \in Callers, NEW m, NEW a \in Actions, ReadAndPlan(c, m, a) PROVE AdjustmentLedger'
  <2>1. Offered' = Offered /\ Mutating' = Mutating /\ issued' = issued
    BY <1>1 DEF ReadAndPlan, call, Offered, Mutating, Goto, AdjustmentTypes
  <2>2. \A d \in Callers : Len(log'[d]) = Last(d)
    BY <1>1 DEF ReadAndPlan, Last
  <2>3. QED
    BY <2>1, <2>2, SameLengths, OfferedOrNot
<1>2. ASSUME NEW c \in Callers, Issue(c) PROVE AdjustmentLedger'
  <2> DEFINE a == plan[c].action
  <2>1. Offered' \in SUBSET (Offered \cup {a}) /\ issued' = issued + 1 /\ log' = log
    BY <1>2 DEF Issue, Offered, AdjustmentTypes
  <2>2. stage[c] = "planned" /\ stage'[c] = "idle" /\ \A d \in Callers : d # c => stage'[d] = stage[d]
    BY <1>2, Returned DEF Issue
  <2>3. Mutating' = Mutating
    BY <2>2 DEF Mutating
  <2>4. Logged' = Logged
    BY <2>1, SameLengths DEF Last
  <2> HIDE DEF a
  <2>5. QED
    BY <2>1, <2>3, <2>4, OfferedOrNot
<1>3. ASSUME NEW c \in Callers, Consume(c) PROVE AdjustmentLedger'
  <2>1. CASE offers[plan[c].action] # plan[c]
    <3>1. stage[c] = "planned" /\ Return(c) /\ UNCHANGED <<offers, log, issued>>
      BY <1>3, <2>1 DEF Consume
    <3>2. stage'[c] = "idle" /\ \A d \in Callers : d # c => stage'[d] = stage[d]
      BY <3>1, Returned
    <3>3. Mutating' = Mutating /\ Offered' = Offered
      BY <3>1, <3>2 DEF Mutating, Offered
    <3>4. Logged' = Logged
      BY <3>1, SameLengths DEF Last
    <3>5. QED
      BY <3>1, <3>3, <3>4, OfferedOrNot
  <2>2. CASE offers[plan[c].action] = plan[c]
    <3> DEFINE a == plan[c].action
    <3>1. stage[c] = "planned" /\ plan[c] \in Plan
      BY <1>3 DEF Consume, AdjustmentTypes
    <3>2. a \in Actions /\ plan[c] # NoPlan
      BY <3>1, PlanFields
    <3>3. /\ offers' = [offers EXCEPT ![a] = NoPlan] /\ stage' = [stage EXCEPT ![c] = "mutating"]
          /\ UNCHANGED <<log, issued>>
      BY <1>3, <2>2 DEF Consume, Spent, Goto
    <3>4. a \in Offered /\ Offered' = Offered \ {a}
      BY <2>2, <3>2, <3>3 DEF Offered, AdjustmentTypes
    <3>5. c \notin Mutating /\ Mutating' = Mutating \cup {c}
      BY <3>1, <3>3 DEF Mutating, AdjustmentTypes
    <3>6. Logged' = Logged
      BY <3>3, SameLengths DEF Last
    <3> HIDE DEF a
    <3>7. IsFiniteSet(Offered') /\ Cardinality(Offered') = Cardinality(Offered) - 1 /\ Cardinality(Offered) \in Nat
      BY <3>4, Counting DEF AdjustmentLedger
    <3>8. IsFiniteSet(Mutating') /\ Cardinality(Mutating') = Cardinality(Mutating) + 1 /\ Cardinality(Mutating) \in Nat
      BY <3>5, Counting DEF AdjustmentLedger
    <3>9. IsFiniteSet(Logged) /\ Cardinality(Logged) \in Nat /\ issued' = issued /\ issued \in Nat
      BY <3>3, FS_CardinalityType DEF AdjustmentLedger, AdjustmentTypes
    <3>10. Cardinality(Logged) + Cardinality(Mutating) + Cardinality(Offered) <= issued
      BY DEF AdjustmentLedger
    <3>11. Cardinality(Logged) + Cardinality(Mutating') + Cardinality(Offered') <= issued'
      BY <3>7, <3>8, <3>9, <3>10
    <3>12. QED
      BY <3>6, <3>7, <3>8, <3>9, <3>11 DEF AdjustmentLedger
  <2>3. QED
    BY <2>1, <2>2
<1>4. ASSUME NEW c \in Callers, MutateAnswered(c) PROVE AdjustmentLedger'
  <2>1. /\ stage[c] = "mutating" /\ stage'[c] = "reading" /\ UNCHANGED <<offers, issued>>
        /\ \A d \in Callers : d # c => stage'[d] = stage[d]
    BY <1>4 DEF MutateAnswered, Goto, AdjustmentTypes
  <2>2. PICK m : log' = [RacedBy(c) EXCEPT ![c] = Append(Raced(@), m)]
    BY <1>4 DEF MutateAnswered
  <2>3. PICK r : r = Raced(log[c])
    OBVIOUS
  <2>4. r \in Seq(Mutation) /\ Len(r) = Last(c)
    BY <2>3, RacedLength
  <2>5. log'[c] = Append(r, m) /\ \A d \in Callers : d # c => log'[d] = Raced(log[d])
    BY <2>2, <2>3 DEF RacedBy
  <2>6. Len(log'[c]) = Last(c) + 1
    BY <2>4, <2>5
  <2>7. \A d \in Callers : d # c => Len(log'[d]) = Last(d)
    BY <2>5, RacedLength
  <2>8. QED
    BY <2>1, <2>6, <2>7, LoggedOnce
<1>5. ASSUME NEW c \in Callers, NEW e, MutateFailed(c, e) PROVE AdjustmentLedger'
  <2>1. /\ stage[c] = "mutating" /\ stage'[c] = "idle" /\ UNCHANGED <<offers, issued>>
        /\ \A d \in Callers : d # c => stage'[d] = stage[d]
    BY <1>5, Returned DEF MutateFailed
  <2>2. PICK m : log' = [log EXCEPT ![c] = Append(@, m)]
    BY <1>5 DEF MutateFailed
  <2>3. log'[c] = Append(log[c], m) /\ log[c] \in Seq(Mutation) /\ \A d \in Callers : d # c => log'[d] = log[d]
    BY <2>2 DEF AdjustmentTypes
  <2>4. Len(log'[c]) = Last(c) + 1 /\ \A d \in Callers : d # c => Len(log'[d]) = Last(d)
    BY <2>3 DEF Last
  <2>5. QED
    BY <2>1, <2>4, LoggedOnce
<1>6. ASSUME NEW c \in Callers, NEW n \in 1..MaxMutations, n <= Last(c), LandsLate(c, n) PROVE AdjustmentLedger'
  <2>1. Offered' = Offered /\ Mutating' = Mutating /\ issued' = issued
    BY <1>6 DEF LandsLate, call, Offered, Mutating
  <2>2. PICK x : log' = [d \in Callers |-> IF d # c THEN Raced(log[d]) ELSE [Raced(log[d]) EXCEPT ![n] = x]]
    BY <1>6 DEF LandsLate
  <2>3. ASSUME NEW d \in Callers PROVE Len(log'[d]) = Last(d)
    <3>1. PICK r : r = Raced(log[d])
      OBVIOUS
    <3>2. r \in Seq(Mutation) /\ Len(r) = Last(d)
      BY <3>1, RacedLength
    <3>3. log'[d] = IF d # c THEN r ELSE [r EXCEPT ![n] = x]
      BY <2>2, <3>1
    <3>4. QED
      BY <3>2, <3>3
  <2>4. QED
    BY <2>1, <2>3, SameLengths, OfferedOrNot
<1>7. ASSUME NEW c \in Callers, ReadBack(c) PROVE AdjustmentLedger'
  <2>1. /\ stage[c] = "reading" /\ stage'[c] = "idle" /\ UNCHANGED <<offers, issued>>
        /\ \A d \in Callers : d # c => stage'[d] = stage[d]
    BY <1>7, Returned DEF ReadBack
  <2>2. Mutating' = Mutating /\ Offered' = Offered
    BY <2>1 DEF Mutating, Offered
  <2>3. PICK r : log' = [log EXCEPT ![c][Last(c)].report = r]
    BY <1>7 DEF ReadBack
  <2>4. PICK x : log' = [log EXCEPT ![c] = [log[c] EXCEPT ![Last(c)] = x]]
    BY <2>3 DEF AdjustmentTypes
  <2>5. \A d \in Callers : Len(log'[d]) = Last(d)
    BY <2>4 DEF AdjustmentTypes, Last
  <2>6. QED
    BY <2>1, <2>2, <2>5, SameLengths, OfferedOrNot
<1>8. ASSUME NEW a \in Actions, Void(a) PROVE AdjustmentLedger'
  <2>1. Offered' \in SUBSET Offered /\ Mutating' = Mutating /\ issued' = issued /\ log' = log
    BY <1>8 DEF Void, call, Offered, Mutating, AdjustmentTypes
  <2>2. Logged' = Logged
    BY <2>1, SameLengths DEF Last
  <2>3. QED
    BY <2>1, <2>2, OfferedOrNot
<1>9. ASSUME ForeignWrite PROVE AdjustmentLedger'
  <2>1. Offered' = Offered /\ Mutating' = Mutating /\ issued' = issued
    BY <1>9 DEF ForeignWrite, call, Offered, Mutating
  <2>2. \A d \in Callers : Len(log'[d]) = Last(d)
    BY <1>9, RacedLength DEF ForeignWrite
  <2>3. QED
    BY <2>1, <2>2, SameLengths, OfferedOrNot
<1>10. QED
  BY <1>1, <1>2, <1>3, <1>4, <1>5, <1>6, <1>7, <1>8, <1>9 DEF Next

\* Together, and from the start.
LEMMA AdjustmentStep ==
  ASSUME AdjustmentInv, Next
  PROVE  AdjustmentInv'
<1>1. AdjustmentTypes /\ ItemInv /\ AdjustmentLedger /\ SnapshotInv /\ RequestInv /\ ReadBackInv
  BY DEF AdjustmentInv
<1>2. item' \in Item /\ Whole(item)'
  BY <1>1, ItemStep
<1>3. LogsKept
  BY <1>1, LogsStep
<1>4. AdjustmentTypes'
  BY <1>1, <1>2, <1>3, AdjustmentTypesStep DEF LogsKept
<1>5. RequestInv'
  BY <1>3 DEF LogsKept, RequestInv, Last
<1>6. QED
  BY <1>1, <1>2, <1>4, <1>5, AdjustmentLedgerStep, SnapshotStep, ReadBackStep DEF AdjustmentInv, ItemInv

LEMMA AdjustmentStart ==
  ASSUME Init
  PROVE  AdjustmentInv
<1>1. AdjustmentTypes
  <2>1. log \in [Callers -> Seq(Mutation)] /\ meddled \in [Callers -> 0..2] /\ issued \in Nat
    BY DEF Init
  <2>2. QED
    BY <2>1 DEF Init, AdjustmentTypes
<1>2. ItemInv
  <2>1. item \in Item /\ item.exists /\ item.quantity = 1
    BY DEF Init
  <2>2. item.exists \in BOOLEAN /\ ~(item.frail /\ item.quantity = 0)
    BY <2>1, ItemFields
  <2>3. QED
    BY <2>1, <2>2 DEF ItemInv, Whole
<1>3. Logged = {} /\ Mutating = {} /\ Offered = {}
  <2>1. \A c \in Callers : Last(c) = 0
    BY DEF Init, Last
  <2>2. QED
    BY <2>1 DEF Init, Logged, Mutations, Mutating, Offered
<1>4. AdjustmentLedger
  BY <1>3, FS_EmptySet DEF Init, AdjustmentLedger
<1>5. SnapshotInv /\ RequestInv /\ ReadBackInv
  BY DEF Init, SnapshotInv, Snapshot, RequestInv, Last, ReadBackInv
<1>6. QED
  BY <1>1, <1>2, <1>4, <1>5 DEF AdjustmentInv

\* What the invariant says of what was sent.
LEMMA MutationsKept ==
  ASSUME AdjustmentInv
  PROVE  OneMutationPerReview /\ RejectedMeansUntouched /\ NonDestructive /\ SingleInterferenceNoticed
<1>1. OneMutationPerReview
  <2>1. /\ Cardinality(Logged) \in Nat /\ Cardinality(Mutating) \in Nat /\ Cardinality(Offered) \in Nat
        /\ Cardinality(Logged) + Cardinality(Mutating) + Cardinality(Offered) <= issued /\ issued \in Nat
    BY FS_CardinalityType DEF AdjustmentInv, AdjustmentLedger, AdjustmentTypes
  <2>2. QED
    BY <2>1 DEF OneMutationPerReview
<1>2. \A m \in Logged : Kept(log[m[1]][m[2]])
  <2>1. ASSUME NEW c \in Callers, NEW n \in 1..MaxMutations, n <= Last(c)
        PROVE  Kept(log[c][n])
    <3>1. n \in 1..Last(c)
      BY <2>1 DEF AdjustmentInv, AdjustmentTypes, Last
    <3>2. QED
      BY <3>1 DEF AdjustmentInv, RequestInv
  <2>2. QED
    BY <2>1 DEF Logged, Mutations
<1>3. RejectedMeansUntouched /\ NonDestructive
  BY <1>2 DEF RejectedMeansUntouched, NonDestructive, Sent, Kept
<1>4. SingleInterferenceNoticed
  BY <1>2 DEF SingleInterferenceNoticed, Sent, Kept, Telling
<1>5. QED
  BY <1>1, <1>3, <1>4

-----------------------------------------------------------------------------
(* All parts.                                                               *)

\* What stays the same keeps its invariant.
everything == <<vars, part, stocktakeVars, held, lifecycleVars>>

LEMMA AdjustmentStutters ==
  ASSUME AdjustmentInv, UNCHANGED <<item, stage, mode, plan, offers, log, meddled, issued>>
  PROVE  AdjustmentInv'
<1>1. AdjustmentTypes' /\ ItemInv' /\ SnapshotInv' /\ RequestInv'
  BY DEF AdjustmentInv, AdjustmentTypes, ItemInv, SnapshotInv, RequestInv, Last, Kept
<1>2. AdjustmentLedger'
  BY DEF AdjustmentInv, AdjustmentLedger, Logged, Mutating, Offered, Last
<1>3. ReadBackInv'
  BY DEF AdjustmentInv, ReadBackInv, Last, Answered
<1>4. QED
  BY <1>1, <1>2, <1>3 DEF AdjustmentInv

LEMMA LifecycleStutters ==
  ASSUME LifecycleInv, UNCHANGED <<order, stage, mode, plan, offers, requests, issued, warned, held, placed>>
  PROVE  LifecycleInv'
<1>1. LifecycleTypes' /\ LifecycleLedger'
  BY DEF LifecycleInv, LifecycleTypes, LifecycleLedger, L!Sent, Outstanding
<1>2. RequestsFollowCalls' /\ RequestsAreFresh'
  BY DEF LifecycleInv, RequestsFollowCalls, RequestsAreFresh, L!Sent
<1>3. OrderHistory'
  BY DEF LifecycleInv, OrderHistory, Remembers
<1>4. PlanHistory'
  BY DEF LifecycleInv, PlanHistory, Remembers, L!Sent, Outstanding, L!Warns
<1>5. L!RejectedMeansUntouched' /\ L!OrphansOnlyInWindow' /\ L!PlacedKnowingly'
  BY DEF LifecycleInv, L!RejectedMeansUntouched, L!OrphansOnlyInWindow, L!PlacedKnowingly, L!Sent
<1>6. QED
  BY <1>1, <1>2, <1>3, <1>4, <1>5 DEF LifecycleInv

LEMMA ReceiptStutters ==
  ASSUME ReceiptInv, UNCHANGED <<order, stage, mode, plan, offers, requests, issued>>
  PROVE  ReceiptInv'
<1>1. ReceiptTypes' /\ ReceiptLedger'
  BY DEF ReceiptInv, ReceiptTypes, ReceiptLedger
<1>2. ReceiptsFollowCalls'
  BY DEF ReceiptInv, ReceiptsFollowCalls, R!Sent
<1>3. LinesGrow' /\ OverInWindow'
  BY DEF ReceiptInv, LinesGrow, OverInWindow, R!Received, R!Sent
<1>4. R!ToldTheTruth'
  BY DEF ReceiptInv, R!ToldTheTruth, R!Sent
<1>5. QED
  BY <1>1, <1>2, <1>3, <1>4 DEF ReceiptInv

LEMMA StocktakeStutters ==
  ASSUME StocktakeInv, UNCHANGED <<stocktakeVars, stage, held>>
  PROVE  StocktakeInv'
<1>1. StocktakeTypes' /\ ReservationInv'
  BY DEF StocktakeInv, stocktakeVars, StocktakeTypes, ReservationInv, S!InFlight
<1>2. RoomInv'
  BY DEF StocktakeInv, stocktakeVars, RoomInv, Slots, Alive, AliveOf, S!Live, S!OfPrincipal
<1>3. TokenInv'
  BY DEF StocktakeInv, stocktakeVars, TokenInv, Owing
<1>4. S!OneGenerationPerPlan' /\ S!NoTaskForgotten'
  BY DEF StocktakeInv, stocktakeVars, S!OneGenerationPerPlan, S!NoTaskForgotten
<1>5. QED
  BY <1>1, <1>2, <1>3, <1>4 DEF StocktakeInv

\* The invariant holds at the start and is kept by every step of every part.
LEMMA Start ==
  ASSUME ReviewedInit
  PROVE  IInv
<1>1. CASE part = "adjustment" /\ Init
  BY <1>1, AdjustmentStart DEF IInv
<1>2. CASE part = "lifecycle" /\ L!Init
  BY <1>2, LifecycleStart DEF IInv
<1>3. CASE part = "receipt" /\ R!Init
  BY <1>3, ReceiptStart DEF IInv
<1>4. CASE part = "stocktake" /\ S!Init
  BY <1>4, StocktakeStart DEF IInv
<1>5. QED
  BY <1>1, <1>2, <1>3, <1>4 DEF ReviewedInit

LEMMA Step ==
  ASSUME IInv, [ReviewedNext]_everything
  PROVE  IInv'
<1>1. CASE part = "adjustment" /\ Next /\ part' = part
  BY <1>1, AdjustmentStep DEF IInv
<1>2. CASE part = "lifecycle" /\ L!Next /\ part' = part
  BY <1>2, LifecycleStep DEF IInv
<1>3. CASE part = "receipt" /\ R!Next /\ part' = part
  BY <1>3, ReceiptStep DEF IInv
<1>4. CASE part = "stocktake" /\ S!Next /\ part' = part
  BY <1>4, StocktakeStep DEF IInv
<1>5. CASE UNCHANGED everything
  <2>1. /\ UNCHANGED <<item, stage, mode, plan, offers, log, meddled, issued>>
        /\ UNCHANGED <<order, requests, warned, held, placed, part, stocktakeVars>>
    BY <1>5 DEF everything, vars, call, lifecycleVars
  <2>2. QED
    BY <2>1, AdjustmentStutters, LifecycleStutters, ReceiptStutters, StocktakeStutters DEF IInv
<1>6. QED
  BY <1>1, <1>2, <1>3, <1>4, <1>5 DEF ReviewedNext

\* Whatever the callers, their principals and other users do, and in whichever order,
\* the calls know what they were promised and the ledgers balance.
THEOREM Inductive == ReviewedSpec => []IInv
<1>1. ReviewedInit => IInv
  BY Start
<1>2. IInv /\ [ReviewedNext]_everything => IInv'
  BY Step
<1>3. QED
  BY <1>1, <1>2, PTL DEF ReviewedSpec, everything

\* executeStockPlan mutates once for each review, never after it said that the mutation
\* was rejected, and deletes a delete_on_deplete item only in a race.
THEOREM OneMutationEach == ReviewedSpec => []MutationsAsReviewed
<1>1. IInv => MutationsAsReviewed
  BY MutationsKept DEF IInv, MutationsAsReviewed
<1>2. QED
  BY <1>1, Inductive, PTL

\* The read-back of a relative adjustment notices that somebody else wrote the item once.
THEOREM ReadBackNotices == ReviewedSpec => []InterferenceNoticed
<1>1. IInv => InterferenceNoticed
  BY MutationsKept DEF IInv, InterferenceNoticed
<1>2. QED
  BY <1>1, Inductive, PTL

\* executePurchaseOrderLifecyclePlan sends what was reviewed, once, nothing it then calls
\* rejected, and places an order that never was only knowingly.
THEOREM OneTransitionEach == ReviewedSpec => []TransitionsAsReviewed
<1>1. ASSUME LifecycleInv
      PROVE  L!RequestsAsReviewed /\ L!PlacedKnowingly
  <2>1. \A T : L!Cardinality(T) = Cardinality(T)
    BY DEF Cardinality, L!Cardinality
  <2>2. /\ Cardinality(L!Sent) \in Nat /\ Cardinality(Outstanding) \in Nat /\ issued \in Nat
        /\ Cardinality(L!Sent) + Cardinality(Outstanding) <= issued
    BY <1>1, FS_CardinalityType DEF LifecycleInv, LifecycleLedger, LifecycleTypes
  <2>3. L!OneRequestPerReview
    BY <2>1, <2>2 DEF L!OneRequestPerReview
  <2>4. QED
    BY <1>1, <2>3 DEF LifecycleInv, L!RequestsAsReviewed
<1>2. IInv => TransitionsAsReviewed
  BY <1>1 DEF IInv, TransitionsAsReviewed
<1>3. QED
  BY <1>2, Inductive, PTL

\* cancelPurchaseOrder orphans received stock only in a race.
THEOREM OrphansOnlyInRaces == ReviewedSpec => []OrphansInWindow
<1>1. IInv => OrphansInWindow
  BY DEF IInv, LifecycleInv, OrphansInWindow
<1>2. QED
  BY <1>1, Inductive, PTL

\* receivePurchaseOrderItems receives what was reviewed, once, and says what it did.
THEOREM OneReceiptEach == ReviewedSpec => []ReceiptsAsReviewed
<1>1. IInv => ReceiptsAsReviewed
  BY ReceiptsCounted DEF IInv, ReceiptInv, ReceiptsAsReviewed
<1>2. QED
  BY <1>1, Inductive, PTL

\* A task InvenTree accepted finds room for its handle, and no reservation leaks.
THEOREM ReservationsBalance == ReviewedSpec => []Reservations
<1>1. ASSUME StocktakeInv
      PROVE  S!NoReservationLeak
  BY <1>1, SameCardinality DEF StocktakeInv, ReservationInv, S!NoReservationLeak
<1>2. IInv => Reservations
  BY <1>1, RoomFound DEF IInv, Reservations
<1>3. QED
  BY <1>2, Inductive, PTL

\* What generate_stocktake started was reviewed, once, and somebody knows of it.
THEOREM NoTaskIsLost == ReviewedSpec => []TasksAccountedFor
<1>1. IInv => TasksAccountedFor
  BY DEF IInv, StocktakeInv, TasksAccountedFor, S!AcceptedAccountedFor
<1>2. QED
  BY <1>1, Inductive, PTL

\* No step gives the handle of a task that has not expired to another principal.
THEOREM HandlesStayWithOwners == ReviewedSpec => HandlesKeepOwner
<1> DEFINE Keeps == part = "stocktake" =>
             \A h \in handles, g \in handles' :
               h.id = g.id /\ clock < h.expiresAt => g.principal = h.principal
<1>1. IInv /\ [ReviewedNext]_everything => [Keeps]_<<handles, clock>>
  <2>1. SUFFICES ASSUME IInv, [ReviewedNext]_everything, part = "stocktake", ~UNCHANGED <<handles, clock>>,
                        NEW h \in handles, NEW g \in handles', h.id = g.id, clock < h.expiresAt
                 PROVE  g.principal = h.principal
    OBVIOUS
  <2>2. S!Next
    BY <2>1 DEF ReviewedNext, everything, stocktakeVars
  <2>3. StocktakeInv
    BY <2>1 DEF IInv
  <2>4. QED
    BY <2>1, <2>2, <2>3, OwnersKept
<1>2. QED
  BY <1>1, Inductive, PTL DEF ReviewedSpec, HandlesKeepOwner, everything

=============================================================================
