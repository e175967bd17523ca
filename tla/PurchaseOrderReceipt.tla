-------------------------- MODULE PurchaseOrderReceipt --------------------------
(***************************************************************************)
(* receive_purchase_order_items (internal/tools/purchasing_tools.go) on one  *)
(* order, called concurrently while others receive, edit and close it.        *)
(*                                                                          *)
(* Its plan hash is a digest, not a token: it can be confirmed as often as     *)
(* the plan comes out the same.  InvenTree is external: it receives on a       *)
(* placed order whatever is asked for, may complete an order that has          *)
(* everything, and by request completes no other.                            *)
(***************************************************************************)
EXTENDS Integers, FiniteSets

CONSTANTS
  Callers,      \* concurrent tool calls
  Lines,        \* the ordinary lines of the order
  Ordered,      \* what each line is for
  Inputs,       \* what the tool may be called with
  MaxIssued,    \* bound of the model: dry runs answered
  MaxForeign    \* bound of the model: steps of other users

VARIABLES
  order,     \* in InvenTree: its status, and of each line what is ordered and received
  stage,     \* where each tool call is
  mode,      \* whether the call is a dry run or a confirmation
  plan,      \* the plan each call has built
  offers,    \* the plans whose hash a dry run has answered
  requests,  \* history: the requests sent and what became of them
  issued, foreign

call == <<stage, mode, plan>>
vars == <<order, call, offers, requests, issued, foreign>>

Line == [ordered : Nat, received : Nat]
Order == [status : {"placed", "complete", "closed"}, lines : [Lines -> Line]]
NoPlan == [items |-> <<>>]

\* The quantities asked for, of each line read so far what was seen of it, and with
\* complete_order all of them as the later scan saw them.
Plan(items, complete, seen, all) ==
  [items |-> items, complete |-> complete, seen |-> seen, all |-> all]
IsInput(i) ==
  i.complete \in BOOLEAN /\ \E L \in (SUBSET Lines) \ {{}} : i.items \in [L -> Nat \ {0}]

TypeOK ==
  /\ order \in Order /\ (\A i \in Inputs : IsInput(i))
  /\ stage \in [Callers -> {"idle", "lines", "scan", "planned", "receiving", "refreshing",
                            "completing", "reading"}]
  /\ mode \in [Callers -> {"dry_run", "confirm"}]
  /\ \A c \in Callers : plan[c] # NoPlan <=> stage[c] # "idle"
  /\ \A c \in Callers : requests[c] # NoPlan =>
       requests[c].report \in {"sent", "error", "unknown", "incomplete", "ok"}
  /\ NoPlan \notin offers
  /\ issued \in 0..MaxIssued /\ foreign \in 0..MaxForeign

Init ==
  /\ order = [status |-> "placed", lines |-> [l \in Lines |-> [ordered |-> Ordered[l], received |-> 0]]]
  /\ stage = [c \in Callers |-> "idle"]
  /\ mode = [c \in Callers |-> "dry_run"]
  /\ plan = [c \in Callers |-> NoPlan]
  /\ offers = {}
  /\ requests = [c \in Callers |-> NoPlan]
  /\ issued = 0 /\ foreign = 0

-----------------------------------------------------------------------------
(* What the handler decides; a faulty variant stands before the operator it  *)
(* varies.                                                                  *)

\* receivePlanHash covers what was received before.
WithoutHistory(p) == [items |-> p.items, complete |-> p.complete]
receivePlanHash(p) == p

\* A line that has everything, or not enough to come, is not received on.
Excessive(seen, quantity) == quantity > seen.ordered - seen.received

\* firstOutstandingPurchaseOrderLine, of the lines as they will be.
StaysOutstanding(p, lines) ==
  \E l \in Lines :
    lines[l].ordered - lines[l].received > IF l \in DOMAIN p.items THEN p.items[l] ELSE 0

-----------------------------------------------------------------------------
(* A tool call.                                                             *)

Goto(c, s) == stage' = [stage EXCEPT ![c] = s]
Return(c) ==
  /\ Goto(c, "idle")
  /\ mode' = [mode EXCEPT ![c] = "dry_run"]
  /\ plan' = [plan EXCEPT ![c] = NoPlan]
Reports(c, r) == requests' = [requests EXCEPT ![c].report = r]

\* Only a placed order is received on.
ReadOrder(c, m, input) ==
  /\ stage[c] = "idle" /\ order.status = "placed"
  /\ IF m = "dry_run" THEN issued < MaxIssued ELSE requests[c] = NoPlan
  /\ plan' = [plan EXCEPT ![c] = Plan(input.items, input.complete, <<>>, <<>>)]
  /\ mode' = [mode EXCEPT ![c] = m]
  /\ Goto(c, "lines")
  /\ UNCHANGED <<order, offers, requests, issued, foreign>>

\* The lines are read one by one.
ReadLine(c, l) ==
  LET p == plan[c]
      seen == [k \in DOMAIN p.seen \cup {l} |-> IF k = l THEN order.lines[l] ELSE p.seen[k]]
  IN  /\ stage[c] = "lines" /\ l \in DOMAIN p.items \ DOMAIN p.seen
      /\ IF Excessive(order.lines[l], p.items[l]) THEN Return(c)
         ELSE /\ plan' = [plan EXCEPT ![c].seen = seen]
              /\ Goto(c, IF DOMAIN seen # DOMAIN p.items THEN "lines"
                         ELSE IF p.complete THEN "scan" ELSE "planned")
              /\ UNCHANGED mode
      /\ UNCHANGED <<order, offers, requests, issued, foreign>>

\* With complete_order all lines are read again, and must then be full.
ScanLines(c) ==
  /\ stage[c] = "scan"
  /\ IF StaysOutstanding(plan[c], order.lines) THEN Return(c)
     ELSE /\ plan' = [plan EXCEPT ![c].all = order.lines]
          /\ Goto(c, "planned") /\ UNCHANGED mode
  /\ UNCHANGED <<order, offers, requests, issued, foreign>>

Issue(c) ==
  /\ stage[c] = "planned" /\ mode[c] = "dry_run" /\ issued < MaxIssued
  /\ offers' = offers \cup {receivePlanHash(plan[c])}
  /\ issued' = issued + 1
  /\ Return(c)
  /\ UNCHANGED <<order, requests, foreign>>

Confirm(c) ==
  /\ stage[c] = "planned" /\ mode[c] = "confirm"
  /\ IF receivePlanHash(plan[c]) \in offers
     THEN /\ Goto(c, "receiving")
          /\ requests' = [requests EXCEPT ![c] =
               [plan |-> plan[c], landed |-> FALSE, open |-> FALSE, raced |-> FALSE,
                over |-> FALSE, report |-> "sent"]]
          /\ UNCHANGED <<mode, plan>>
     ELSE Return(c) /\ UNCHANGED requests
  /\ UNCHANGED <<order, offers, issued, foreign>>

\* InvenTree receives: was a line changed since the call read it, does it now have
\* more than was ordered?
Full(lines) == \A l \in Lines : lines[l].received >= lines[l].ordered
Lands(c) ==
  LET p == requests[c].plan
      lines == [l \in Lines |->
        [order.lines[l] EXCEPT !.received = @ + IF l \in DOMAIN p.items THEN p.items[l] ELSE 0]]
  IN  /\ order.status = "placed"
      /\ \E s \in {"placed"} \cup IF Full(lines) THEN {"complete"} ELSE {} :
           order' = [status |-> s, lines |-> lines]
      /\ requests' = [requests EXCEPT
           ![c].landed = TRUE, ![c].open = FALSE,
           ![c].raced = \E l \in DOMAIN p.items : order.lines[l] # p.seen[l],
           ![c].over = \E l \in DOMAIN p.items : lines[l].received > lines[l].ordered]

ReceiveAnswered(c) ==
  /\ stage[c] = "receiving" /\ Lands(c)
  /\ Goto(c, "refreshing")
  /\ UNCHANGED <<mode, plan, offers, issued, foreign>>

\* Every 4xx is passed on as it is; what else fails, or answers without stock, is
\* unknown.  All but a plain rejection may take effect later.
AnswerLost == {"throttled", "lost"}
ReceiveFailed(c, e) ==
  /\ stage[c] = "receiving"
  /\ requests' = [requests EXCEPT ![c].open = e \in AnswerLost,
                                  ![c].report = IF e = "lost" THEN "unknown" ELSE "error"]
  /\ Return(c)
  /\ UNCHANGED <<order, offers, issued, foreign>>

LandsLate(c) ==
  /\ requests[c] # NoPlan /\ requests[c].open /\ Lands(c)
  /\ UNCHANGED <<call, offers, issued, foreign>>

\* The refresh fails, or shows what is left to do.
Refresh(c) ==
  /\ stage[c] = "refreshing"
  /\ \/ Reports(c, IF plan[c].complete THEN "incomplete" ELSE "unknown") /\ Return(c)
     \/ IF ~plan[c].complete \/ order.status = "complete" THEN Reports(c, "ok") /\ Return(c)
        ELSE IF order.status # "placed" THEN Reports(c, "incomplete") /\ Return(c)
        ELSE Goto(c, "completing") /\ UNCHANGED <<requests, mode, plan>>
  /\ UNCHANGED <<order, offers, issued, foreign>>

\* The completion is answered, fails or gets lost; the read-back decides.
CompleteOrder(c) ==
  /\ stage[c] = "completing"
  /\ \/ order.status = "placed" /\ Full(order.lines) /\ order' = [order EXCEPT !.status = "complete"]
     \/ UNCHANGED order
  /\ Goto(c, "reading")
  /\ UNCHANGED <<mode, plan, offers, requests, issued, foreign>>

ReadBack(c) ==
  /\ stage[c] = "reading"
  /\ \E r \in {"incomplete"} \cup IF order.status = "complete" THEN {"ok"} ELSE {} : Reports(c, r)
  /\ Return(c)
  /\ UNCHANGED <<order, offers, issued, foreign>>

\* Other users receive, reduce a line, and complete or close the order; a completion
\* that arrives late is such a step.
ForeignStep ==
  /\ foreign < MaxForeign /\ foreign' = foreign + 1
  /\ order.status = "placed"
  /\ \/ \E l \in Lines : order' = [order EXCEPT !.lines[l].received = @ + 1]
     \/ \E l \in Lines : /\ order.lines[l].ordered > 1
                         /\ order' = [order EXCEPT !.lines[l].ordered = @ - 1]
     \/ \E s \in {"complete", "closed"} : order' = [order EXCEPT !.status = s]
  /\ UNCHANGED <<call, offers, requests, issued>>

Next ==
  \/ \E c \in Callers :
       \/ \E m \in {"dry_run", "confirm"}, i \in Inputs : ReadOrder(c, m, i)
       \/ \E l \in Lines : ReadLine(c, l)
       \/ ScanLines(c) \/ Issue(c) \/ Confirm(c)
       \/ ReceiveAnswered(c)
       \/ \E e \in {"rejected", "throttled", "lost"} : ReceiveFailed(c, e)
       \/ LandsLate(c)
       \/ Refresh(c) \/ CompleteOrder(c) \/ ReadBack(c)
  \/ ForeignStep

Spec == Init /\ [][Next]_vars

-----------------------------------------------------------------------------
(* Properties.                                                              *)

Sent == {c \in Callers : requests[c] # NoPlan}
Received == {c \in Sent : requests[c].landed}

\* Although a plan hash can be presented again, every receipt was reviewed by a dry
\* run of its own and no line gets more than was ordered, unless a line changed
\* between the confirmation's own read of it and the receipt.
ReceivedAsReviewed ==
  /\ Cardinality({c \in Received : ~requests[c].raced}) <= issued
  /\ \A c \in Received : requests[c].over => requests[c].raced

\* What the caller is told of the receipt and of the completion is so: it is told
\* not to repeat only a receipt that took effect.
ToldTheTruth ==
  \A c \in Sent :
    /\ requests[c].report \in {"ok", "incomplete"} => requests[c].landed
    /\ requests[c].report = "ok" /\ requests[c].plan.complete => order.status = "complete"
=============================================================================
