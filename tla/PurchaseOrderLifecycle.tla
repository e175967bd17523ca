------------------------ MODULE PurchaseOrderLifecycle ------------------------
(***************************************************************************)
(* hold_purchase_order, resume_purchase_order and cancel_purchase_order      *)
(* (internal/tools/purchase_order_lifecycle_tools.go) on one order, called   *)
(* concurrently by one principal, with other users placing, holding,         *)
(* completing and receiving it in InvenTree's own interface.                 *)
(*                                                                          *)
(* The token store is what ConfirmationTokens says of it.  InvenTree is      *)
(* external: it enforces the states a transition may start from, and does    *)
(* not look at receipts when it cancels.                                     *)
(***************************************************************************)
EXTENDS Naturals, FiniteSets

CONSTANTS
  Callers,      \* concurrent tool calls
  MaxIssued,    \* bound of the model: plans issued
  MaxForeign    \* bound of the model: steps of other users

VARIABLES
  order,     \* the purchase order in InvenTree: its status, whether an ordinary
             \* line was received
  stage,     \* where each tool call is
  mode,      \* whether the call is a dry run or a confirmation
  plan,      \* the plan each call has built
  offers,    \* the outstanding plan of each action
  requests,  \* history: the requests sent and what became of them
  foreign,   \* steps of other users
  issued,    \* history: plans issued
  warned,    \* history: a dry run told that resuming would place the order
  held,      \* history: who put the order on hold while it was pending
  placed     \* history: who placed the order with its supplier

call == <<stage, mode, plan>>
vars == <<order, call, offers, requests, foreign, issued, warned, held, placed>>

Statuses == {"pending", "placed", "on_hold", "complete", "cancelled"}
Actions == {"hold", "resume", "cancel"}
Order == [status : Statuses, received : BOOLEAN]
NoPlan == [action |-> "none"]
Plan == [action : Actions, order : Order]

\* A request: `raced` when the order changed after the read its plan is from,
\* `open` while it may still take effect.
Request == [plan : Plan, raced : BOOLEAN, landed : BOOLEAN, open : BOOLEAN,
            orphans : BOOLEAN, report : {"sent", "ok", "recovered", "unknown", "rejected"}]

TypeOK ==
  /\ order \in Order
  /\ stage \in [Callers -> {"idle", "lines", "planned", "mutating", "reading", "recovering"}]
  /\ mode \in [Callers -> {"dry_run", "confirm"}]
  /\ plan \in [Callers -> Plan \cup {NoPlan}]
  /\ \A c \in Callers : stage[c] = "idle" <=> plan[c] = NoPlan
  /\ \A a \in Actions : offers[a] \in {p \in Plan : p.action = a} \cup {NoPlan}
  /\ DOMAIN offers = Actions
  /\ DOMAIN requests = Callers
  /\ \A c \in Callers : requests[c] \in Request \cup {NoPlan}
  /\ foreign \in 0..MaxForeign /\ issued \in 0..MaxIssued
  /\ warned \in BOOLEAN /\ {held, placed} \subseteq {"nobody", "a tool", "others"}

Init ==
  /\ order \in {[status |-> s, received |-> FALSE] : s \in {"pending", "placed"}}
  /\ stage = [c \in Callers |-> "idle"]
  /\ mode = [c \in Callers |-> "dry_run"]
  /\ plan = [c \in Callers |-> NoPlan]
  /\ offers = [a \in Actions |-> NoPlan]
  /\ requests = [c \in Callers |-> NoPlan]
  /\ foreign = 0 /\ issued = 0 /\ warned = FALSE
  /\ held = "nobody"
  /\ placed = IF order.status = "pending" THEN "nobody" ELSE "others"

-----------------------------------------------------------------------------
(* What the handlers decide; a faulty variant stands before the operator it *)
(* varies.                                                                  *)

Target == [hold |-> "on_hold", resume |-> "placed", cancel |-> "cancelled"]

\* The status each tool plans for.
Plannable == [hold |-> {"pending", "placed"}, resume |-> {"on_hold"},
              cancel |-> {"pending", "placed", "on_hold"}]

\* cancelPurchaseOrder refuses an order of which a line was received.
IgnoresReceipts(p) == FALSE
Refuses(p) == p.action = "cancel" /\ p.order.received

\* Holding a pending order warns that resuming it will place it.
Warns(p) == p.action = "hold" /\ p.order.status = "pending"

\* The plan digest covers the action, the order and its lines.
SamePlan(p, q) == p = q

\* The action a plan's token is good for.
OfferedFor(p) == p.action

\* What consume leaves of a plan it accepted.
Spent(p) == NoPlan

\* definiteMutationRejection
AnyClientError(e) == e \in {"rejected", "rate_limited"}
DefiniteRejection(e) == e = "rejected"

\* The refreshed order shows the planned status.
Reached(p, o) == o.status = Target[p.action]

-----------------------------------------------------------------------------
(* InvenTree.                                                               *)

Allowed == [hold |-> {"pending", "placed"}, resume |-> {"pending", "on_hold"},
            cancel |-> {"pending", "placed", "on_hold"}]
Applicable(p) == order.status \in Allowed[p.action]

\* A transition, and who may be named for it; requests in the air are raced.
Races(r) == IF r # NoPlan /\ (r.report = "sent" \/ r.open) THEN [r EXCEPT !.raced = TRUE] ELSE r
Lands(p, by) ==
  /\ Applicable(p)
  /\ order' = [order EXCEPT !.status = Target[p.action]]
  /\ held' = IF p.action = "hold" /\ order.status = "pending" THEN by ELSE held
  /\ placed' = IF p.action = "resume" /\ placed = "nobody" THEN by ELSE placed

-----------------------------------------------------------------------------
(* A tool call.                                                             *)

Goto(c, s) == stage' = [stage EXCEPT ![c] = s]
Return(c) ==
  /\ Goto(c, "idle")
  /\ mode' = [mode EXCEPT ![c] = "dry_run"]
  /\ plan' = [plan EXCEPT ![c] = NoPlan]

\* The handler reads the order; what it does not plan for ends the call.
ReadOrder(c, m, a) ==
  /\ stage[c] = "idle"
  /\ IF m = "dry_run" THEN issued < MaxIssued ELSE requests[c] = NoPlan
  /\ order.status \in Plannable[a]
  /\ plan' = [plan EXCEPT ![c] =
       [action |-> a, order |-> [status |-> order.status, received |-> FALSE]]]
  /\ mode' = [mode EXCEPT ![c] = m]
  /\ Goto(c, "lines")
  /\ UNCHANGED <<order, offers, requests, foreign, issued, warned, held, placed>>

\* The lines are read later, in requests of their own.
ReadLines(c) ==
  LET p == [plan[c] EXCEPT !.order.received = order.received] IN
  /\ stage[c] = "lines"
  /\ IF Refuses(p) THEN Return(c)
     ELSE plan' = [plan EXCEPT ![c] = p] /\ Goto(c, "planned") /\ UNCHANGED mode
  /\ UNCHANGED <<order, offers, requests, foreign, issued, warned, held, placed>>

\* executePurchaseOrderLifecyclePlan, dry run.
Issue(c) ==
  /\ stage[c] = "planned" /\ mode[c] = "dry_run" /\ issued < MaxIssued
  /\ offers' = [offers EXCEPT ![OfferedFor(plan[c])] = plan[c]]
  /\ issued' = issued + 1
  /\ warned' = (warned \/ Warns(plan[c]))
  /\ Return(c)
  /\ UNCHANGED <<order, requests, foreign, held, placed>>

\* executePurchaseOrderLifecyclePlan, confirmed.
Consume(c) ==
  LET a == plan[c].action IN
  /\ stage[c] = "planned" /\ mode[c] = "confirm"
  /\ IF SamePlan(offers[a], plan[c])
     THEN /\ offers' = [offers EXCEPT ![a] = Spent(@)]
          /\ Goto(c, "mutating")
          /\ requests' = [requests EXCEPT ![c] =
               [plan |-> plan[c], raced |-> order # plan[c].order, landed |-> FALSE,
                open |-> FALSE, orphans |-> FALSE, report |-> "sent"]]
          /\ UNCHANGED <<mode, plan>>
     ELSE UNCHANGED <<offers, requests>> /\ Return(c)
  /\ UNCHANGED <<order, foreign, issued, warned, held, placed>>

\* Every other request in the air has its order changed under it.
Landed(c) ==
  requests' = [d \in Callers |->
    IF d = c THEN [requests[c] EXCEPT !.landed = TRUE, !.open = FALSE,
                     !.orphans = requests[c].plan.action = "cancel" /\ order.received]
    ELSE Races(requests[d])]

MutateAnswered(c) ==
  /\ stage[c] = "mutating"
  /\ Lands(plan[c], "a tool") /\ Landed(c)
  /\ Goto(c, "reading")
  /\ UNCHANGED <<mode, plan, offers, foreign, issued, warned>>

\* An error that is not a rejection does not end the call: the refresh decides.
MutateFailed(c, e) ==
  /\ stage[c] = "mutating"
  /\ requests' = [requests EXCEPT ![c].open = e # "rejected",
                    ![c].report = IF DefiniteRejection(e) THEN "rejected" ELSE @]
  /\ IF DefiniteRejection(e) THEN Return(c) ELSE Goto(c, "recovering") /\ UNCHANGED <<mode, plan>>
  /\ UNCHANGED <<order, offers, foreign, issued, warned, held, placed>>

\* The request behind an error takes effect after all.
LandsLate(c) ==
  /\ requests[c] # NoPlan /\ requests[c].open
  /\ Lands(requests[c].plan, "a tool") /\ Landed(c)
  /\ UNCHANGED <<call, offers, foreign, issued, warned>>

\* The refresh fails, shows another status, or shows the target.
Refresh(c) ==
  /\ stage[c] \in {"reading", "recovering"}
  /\ \E r \in {"unknown", IF stage[c] = "reading" THEN "ok" ELSE "recovered"} :
       /\ r # "unknown" => Reached(plan[c], order)
       /\ requests' = [requests EXCEPT ![c].report = r]
  /\ Return(c)
  /\ UNCHANGED <<order, offers, foreign, issued, warned, held, placed>>

\* The token expires, or is crowded out.
Void(a) ==
  /\ offers[a] # NoPlan
  /\ offers' = [offers EXCEPT ![a] = NoPlan]
  /\ UNCHANGED <<order, call, requests, foreign, issued, warned, held, placed>>

\* Another user's step.
ForeignStep ==
  /\ foreign < MaxForeign /\ foreign' = foreign + 1
  /\ \/ /\ order.status = "placed" /\ ~order.received
        /\ order' = [order EXCEPT !.received = TRUE]
        /\ UNCHANGED <<held, placed>>
     \/ /\ order.status = "placed"
        /\ order' = [order EXCEPT !.status = "complete"]
        /\ UNCHANGED <<held, placed>>
     \/ \E a \in Actions :
          Applicable([action |-> a]) /\ Lands([action |-> a], "others")
  /\ requests' = [d \in Callers |-> Races(requests[d])]
  /\ UNCHANGED <<call, offers, issued, warned>>

Next ==
  \/ \E c \in Callers :
       \/ \E m \in {"dry_run", "confirm"}, a \in Actions : ReadOrder(c, m, a)
       \/ ReadLines(c) \/ Issue(c) \/ Consume(c)
       \/ MutateAnswered(c)
       \/ \E e \in {"rejected", "rate_limited", "lost"} : MutateFailed(c, e)
       \/ LandsLate(c)
       \/ Refresh(c)
  \/ \E a \in Actions : Void(a)
  \/ ForeignStep

Spec == Init /\ [][Next]_vars

-----------------------------------------------------------------------------
(* Properties.                                                              *)

Sent == {c \in Callers : requests[c] # NoPlan}

\* Every transition sent to InvenTree was paid for by a dry run of its own,
\* however the order moves to and fro between the states the plans name.
OneRequestPerReview == Cardinality(Sent) <= issued

\* A transition the tool reports as rejected never happens afterwards.
RejectedMeansUntouched ==
  \A c \in Sent : requests[c].report = "rejected" => ~requests[c].landed /\ ~requests[c].open

\* What InvenTree does to the order on a caller's behalf is what was reviewed,
\* once, and nothing it was told had been refused.
RequestsAsReviewed == OneRequestPerReview /\ RejectedMeansUntouched

\* Cancelling orphans received stock only when the receipt came after the
\* read the confirmation itself made: the refusal in cancelPurchaseOrder
\* covers everything earlier, the review and the token's five minutes included.
OrphansOnlyInWindow ==
  \A c \in Sent : requests[c].orphans => requests[c].raced

\* An order a tool put on hold before it was ever placed, and a tool then
\* resumed, is placed with its supplier only after a review said that this
\* would happen.
PlacedKnowingly ==
  placed = "a tool" => held = "others" \/ warned
=============================================================================
