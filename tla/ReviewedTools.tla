------------------------------ MODULE ReviewedTools ------------------------------
(***************************************************************************)
(* The tools of internal/tools that carry out a plan somebody reviewed: stock   *)
(* adjustments, the life cycle and the receipt of purchase orders and the      *)
(* generation of stocktakes.  Each has its own plans and InvenTree records and *)
(* nothing in common with the others but the server that calls it; so a        *)
(* behaviour of this module is of one part, and the variables are shared by    *)
(* name.                                                                      *)
(***************************************************************************)
EXTENDS StockAdjustment

CONSTANTS
  MaxReviews, MaxSteps,                      \* MaxIssued, MaxForeign of PurchaseOrderLifecycle
  Lines, Ordered, Inputs,                    \* of PurchaseOrderReceipt
  Generators,                                \* Callers of StocktakeTasks
  Principals, Tokens, TaskIDs, NoTask, PlanLifetime, TaskLifetime, MaxPlans,
  MaxPlansPerPrincipal, MaxTasks, MaxTasksPerPrincipal, MaxTime

ASSUME ReviewedAssumption ==
  /\ {MaxReviews, MaxSteps, MaxTime} \subseteq Nat /\ NoTask \notin TaskIDs
  /\ {PlanLifetime, TaskLifetime, MaxPlans, MaxPlansPerPrincipal, MaxTasks,
      MaxTasksPerPrincipal} \subseteq Nat \ {0}

VARIABLES
  part,                                     \* the part a behaviour is of
  order, requests,                          \* of PurchaseOrderLifecycle and -Receipt
  warned, held, placed,                     \* of PurchaseOrderLifecycle
  clock, drawn, plans, handles, reservations, who, token,
  enqueued, accepted, bound, lost           \* of StocktakeTasks

L == INSTANCE PurchaseOrderLifecycle WITH MaxIssued <- MaxReviews, MaxForeign <- MaxSteps
R == INSTANCE PurchaseOrderReceipt
S == INSTANCE StocktakeTasks WITH Callers <- Generators

\* A line is for some number of pieces; the tool refuses to be called with no items,
\* or with a quantity that is not positive.
ASSUME ReceiptAssumption == Ordered \in [Lines -> Nat] /\ \A i \in Inputs : R!IsInput(i)

tokenVars == <<mode, plan, offers, issued, foreign>>
adjustmentVars == <<item, log, meddled>>
lifecycleVars == <<order, requests, warned, placed>>
stocktakeVars ==
  <<clock, drawn, plans, handles, reservations, who, token, enqueued, accepted, bound, lost>>

NoTokens == mode = <<>> /\ plan = <<>> /\ offers = <<>> /\ issued = 0 /\ foreign = 0
NoAdjustment == item = <<>> /\ log = <<>> /\ meddled = <<>>
NoLifecycle == order = <<>> /\ requests = <<>> /\ warned = FALSE /\ placed = ""
NoStocktake ==
  /\ clock = 0 /\ drawn = {} /\ plans = {} /\ handles = {} /\ reservations = <<>>
  /\ who = <<>> /\ token = <<>> /\ enqueued = <<>>
  /\ accepted = {} /\ bound = {} /\ lost = {}

ReviewedInit ==
  \/ part = "adjustment" /\ Init /\ NoStocktake /\ held = "" /\ NoLifecycle
  \/ part = "lifecycle" /\ L!Init /\ NoStocktake /\ NoAdjustment
  \/ /\ part = "receipt" /\ R!Init /\ NoStocktake /\ NoAdjustment
     /\ warned = FALSE /\ held = "" /\ placed = ""
  \/ part = "stocktake" /\ S!Init /\ NoTokens /\ NoAdjustment /\ NoLifecycle

ReviewedNext ==
  \/ /\ part = "adjustment" /\ Next
     /\ UNCHANGED <<part, stocktakeVars, held, lifecycleVars>>
  \/ /\ part = "lifecycle" /\ L!Next
     /\ UNCHANGED <<part, stocktakeVars, adjustmentVars>>
  \/ /\ part = "receipt" /\ R!Next
     /\ UNCHANGED <<part, stocktakeVars, adjustmentVars, warned, held, placed>>
  \/ /\ part = "stocktake" /\ S!Next
     /\ UNCHANGED <<part, tokenVars, adjustmentVars, lifecycleVars>>

ReviewedSpec ==
  ReviewedInit /\ [][ReviewedNext]_<<vars, part, stocktakeVars, held, lifecycleVars>>

-----------------------------------------------------------------------------
(* Properties: those of the parts.                                          *)

\* executeStockPlan mutates once for each review, never after it said that the
\* mutation was rejected, and deletes a delete_on_deplete item only in a race.
MutationsAsReviewed ==
  part = "adjustment" => OneMutationPerReview /\ RejectedMeansUntouched /\ NonDestructive

\* The read-back notices one write of somebody else (stockStateMatches).
InterferenceNoticed == part = "adjustment" => SingleInterferenceNoticed

\* executePurchaseOrderLifecyclePlan sends what was reviewed, once, nothing it
\* then calls rejected, and places an order that never was only knowingly.
TransitionsAsReviewed ==
  part = "lifecycle" => L!RequestsAsReviewed /\ L!PlacedKnowingly

\* cancelPurchaseOrder orphans received stock only in a race.
OrphansInWindow == part = "lifecycle" => L!OrphansOnlyInWindow

\* receivePurchaseOrderItems receives what was reviewed, once, and says what it did.
ReceiptsAsReviewed ==
  part = "receipt" => R!ReceivedAsReviewed /\ R!ToldTheTruth

\* A task InvenTree accepted finds room for its handle, because reserve
\* counted it in and every call gives its reservation back once.
Reservations == part = "stocktake" => S!RoomForAccepted /\ S!NoReservationLeak

\* What a confirmed generate_stocktake started was reviewed, once, and has a
\* handle or somebody who was told to look for it.
TasksAccountedFor == part = "stocktake" => S!AcceptedAccountedFor

\* A task handle keeps its principal (bind's check).
HandlesKeepOwner ==
  [][part = "stocktake" =>
       \A h \in handles, g \in handles' :
         h.id = g.id /\ clock < h.expiresAt => g.principal = h.principal]_<<handles, clock>>
=============================================================================
