---------------------------- MODULE StockAdjustment ----------------------------
(***************************************************************************)
(* adjust_stock_quantity, stocktake_adjustment and set_stock_status         *)
(* (internal/tools/stock_adjustment_tools.go): a call reads the stock item, *)
(* plans the change, and either issues a confirmation token for the plan or *)
(* spends one and mutates, then reads the item back.                        *)
(*                                                                          *)
(* The calls are one principal's (stdio has no other); that one principal's *)
(* token is of no use to another is PlanStore's subject.  The token store   *)
(* is here what ConfirmationTokens says of it: at most one outstanding plan *)
(* for an action, spent at most once, void at any time.  InvenTree and its  *)
(* other users are external: they write between any two steps, and a        *)
(* request whose answer is an error may still take effect, later or never.  *)
(***************************************************************************)
EXTENDS Integers, Sequences, FiniteSets

CONSTANTS
  Callers,         \* concurrent tool calls
  MaxQuantity,     \* bound of the model: quantities 0..MaxQuantity
  MaxIssued,       \* bound of the model: plans issued
  MaxMutations,    \* bound of the model: mutations of each caller
  MaxForeign       \* bound of the model: writes by other users

ASSUME StockAssumption ==
  {MaxQuantity, MaxIssued, MaxMutations, MaxForeign} \subseteq Nat

VARIABLES
  item,      \* the stock item in InvenTree
  stage,     \* where each tool call is
  mode,      \* whether the call is a dry run or a confirmation
  plan,      \* the plan each call has built
  offers,    \* the outstanding plan of each action
  log,       \* history: each caller's mutations
  meddled,   \* history: writes by others since the call's read, up to 2
  issued,    \* history: plans issued
  foreign    \* writes by other users

call == <<stage, mode, plan>>
vars == <<item, call, offers, log, meddled, issued, foreign>>

Quantities == 0..MaxQuantity
Statuses == {"ok", "lost"}
Actions == {"adjust", "count", "status"}

\* `frail` is delete_on_deplete.
Item == [quantity : Quantities, status : Statuses, frail : BOOLEAN,
         serial : BOOLEAN, exists : BOOLEAN]
NoPlan == [action |-> "none"]
Plan == [action : Actions, before : Item, after : Item]

\* A mutation: whether it took effect, whether it still may, the writes that
\* came between its read and its effect or read-back, whether it deleted the
\* item, and what the tool said of it.
Mutation == [plan : Plan, landed : BOOLEAN, open : BOOLEAN, raced : 0..2,
             deleted : BOOLEAN, report : {"sent", "ok", "unknown", "rejected"}]

TypeOK ==
  /\ item \in Item
  /\ stage \in [Callers -> {"idle", "planned", "mutating", "reading"}]
  /\ mode \in [Callers -> {"dry_run", "confirm"}]
  /\ \A c \in Callers : stage[c] \in {"mutating", "reading"} => mode[c] = "confirm"
  /\ plan \in [Callers -> Plan \cup {NoPlan}]
  /\ offers \in [Actions -> Plan \cup {NoPlan}]
  /\ DOMAIN log = Callers
  /\ \A c \in Callers : /\ Len(log[c]) <= MaxMutations
                        /\ \A n \in 1..Len(log[c]) : log[c][n] \in Mutation
  /\ meddled \in [Callers -> 0..2]
  /\ issued \in 0..MaxIssued /\ foreign \in 0..MaxForeign

Init ==
  /\ item \in {i \in Item : /\ i.exists /\ i.quantity = 1 /\ i.status = "ok"
                            /\ i.serial => ~i.frail}
  /\ stage = [c \in Callers |-> "idle"]
  /\ mode = [c \in Callers |-> "dry_run"]
  /\ plan = [c \in Callers |-> NoPlan]
  /\ offers = [a \in Actions |-> NoPlan]
  /\ log = [c \in Callers |-> <<>>]
  /\ meddled = [c \in Callers |-> 0]
  /\ issued = 0 /\ foreign = 0

-----------------------------------------------------------------------------
(* Planning; a faulty variant stands before the operator it varies.         *)

\* The states a request can ask for: a relative change, an absolute count or
\* a status.
Requested(a, before) ==
  CASE a = "adjust" -> {[before EXCEPT !.quantity = q] : q \in Quantities}
    [] a = "count" -> {[before EXCEPT !.quantity = q] : q \in Quantities}
    [] a = "status" -> {[before EXCEPT !.status = s] : s \in Statuses}

\* What a tool asks about instead of planning: no change, serialized stock,
\* and a change that would delete the item.
WouldDelete(before, after) == before.frail /\ after.quantity = 0
Refuses(a, before, after) ==
  \/ after = before
  \/ a # "status" /\ (before.serial \/ WouldDelete(before, after))

\* executeStockPlan mutates for a confirmation only.
Confirmed(m) == m = "confirm"

\* What consume leaves of a plan it accepted.
Spent(p) == NoPlan

\* definiteMutationRejection: 4xx, but not 408, 425 or 429.
AnyClientError(e) == e \in {"rejected", "rate_limited"}
DefiniteRejection(e) == e = "rejected"

\* stockStateMatches
MatchesStatus(i, p) == i.status = p.after.status
Matches(i, p) == [i EXCEPT !.exists = TRUE] = p.after

-----------------------------------------------------------------------------
(* InvenTree.                                                               *)

\* What a mutation makes of the item: more than there is can be removed, and
\* an emptied delete_on_deplete item is deleted.
AtLeastNone(q) == IF q < 0 THEN 0 ELSE q
Stored(i) == [i EXCEPT !.exists = ~(i.frail /\ i.quantity = 0)]
Applied(p) ==
  CASE p.action = "adjust" ->
         Stored([item EXCEPT !.quantity =
                   AtLeastNone(@ + p.after.quantity - p.before.quantity)])
    [] p.action = "count" -> Stored([item EXCEPT !.quantity = p.after.quantity])
    [] p.action = "status" -> [item EXCEPT !.status = p.after.status]
Applicable(p) == item.exists /\ Applied(p).quantity \in Quantities

\* A write that changes the item races with every call and request but its own.
Up(n) == IF item' # item /\ n < 2 THEN n + 1 ELSE n
Pending(m) == m.open \/ m.report = "sent"
Raced(s) == [n \in 1..Len(s) |-> IF Pending(s[n]) THEN [s[n] EXCEPT !.raced = Up(@)] ELSE s[n]]
RacedBy(c) == [d \in Callers |-> IF d = c THEN log[d] ELSE Raced(log[d])]
Busy(d) == stage[d] # "idle"
MeddledBy(S) == [d \in Callers |-> IF d \notin S /\ Busy(d) THEN Up(meddled[d]) ELSE meddled[d]]

-----------------------------------------------------------------------------
(* A tool call.                                                             *)

Goto(c, s) == stage' = [stage EXCEPT ![c] = s]
Return(c) ==
  /\ stage' = [stage EXCEPT ![c] = "idle"]
  /\ mode' = [mode EXCEPT ![c] = "dry_run"]
  /\ plan' = [plan EXCEPT ![c] = NoPlan]
  /\ meddled' = [meddled EXCEPT ![c] = 0]
Last(c) == Len(log[c])

\* The handler reads the item and plans; what it refuses ends the call.
ReadAndPlan(c, m, a) ==
  /\ stage[c] = "idle" /\ item.exists
  /\ IF m = "dry_run" THEN issued < MaxIssued ELSE Last(c) < MaxMutations
  /\ \E after \in Requested(a, item) :
       /\ ~Refuses(a, item, after)
       /\ plan' = [plan EXCEPT ![c] = [action |-> a, before |-> item, after |-> after]]
  /\ mode' = [mode EXCEPT ![c] = m]
  /\ Goto(c, "planned")
  /\ UNCHANGED <<item, offers, log, meddled, issued, foreign>>

\* executeStockPlan, dry run: the plan replaces the earlier one for the action.
Issue(c) ==
  /\ stage[c] = "planned" /\ mode[c] = "dry_run" /\ issued < MaxIssued
  /\ offers' = [offers EXCEPT ![plan[c].action] = plan[c]]
  /\ issued' = issued + 1
  /\ Return(c)
  /\ UNCHANGED <<item, log, foreign>>

\* executeStockPlan, confirmed: the token must stand for the same plan.
Consume(c) ==
  LET a == plan[c].action IN
  /\ stage[c] = "planned" /\ Confirmed(mode[c]) /\ Last(c) < MaxMutations
  /\ IF offers[a] = plan[c]
     THEN /\ offers' = [offers EXCEPT ![a] = Spent(@)]
          /\ Goto(c, "mutating")
          /\ UNCHANGED <<mode, plan, meddled>>
     ELSE UNCHANGED offers /\ Return(c)
  /\ UNCHANGED <<item, log, issued, foreign>>

\* InvenTree applies the mutation and the answer arrives.
MutateAnswered(c) ==
  /\ stage[c] = "mutating" /\ Applicable(plan[c])
  /\ item' = Applied(plan[c])
  /\ log' = [RacedBy(c) EXCEPT ![c] =
       Append(Raced(@), [plan |-> plan[c], landed |-> TRUE, open |-> FALSE,
                         raced |-> meddled[c], deleted |-> ~item'.exists,
                         report |-> "sent"])]
  /\ meddled' = MeddledBy({c})
  /\ Goto(c, "reading")
  /\ UNCHANGED <<mode, plan, offers, issued, foreign>>

\* The mutation answers with an error; only a rejection is final.
MutateFailed(c, e) ==
  /\ stage[c] = "mutating"
  /\ log' = [log EXCEPT ![c] =
       Append(@, [plan |-> plan[c], landed |-> FALSE, open |-> e # "rejected",
                  raced |-> meddled[c], deleted |-> FALSE,
                  report |-> IF DefiniteRejection(e) THEN "rejected" ELSE "unknown"])]
  /\ Return(c)
  /\ UNCHANGED <<item, offers, issued, foreign>>

\* A request behind an error takes effect after all.
LandsLate(c, n) ==
  /\ log[c][n].open /\ Applicable(log[c][n].plan)
  /\ item' = Applied(log[c][n].plan)
  /\ log' = [d \in Callers |->
       LET s == Raced(log[d]) IN
       IF d # c THEN s
       ELSE [s EXCEPT ![n] = [log[c][n] EXCEPT !.landed = TRUE, !.open = FALSE,
                                                !.deleted = ~item'.exists]]]
  /\ meddled' = MeddledBy({})
  /\ UNCHANGED <<call, offers, issued, foreign>>

\* The read-back decides what is reported; it may fail.
ReadBack(c) ==
  /\ stage[c] = "reading"
  /\ \E r \in {"ok", "unknown"} :
       /\ r = "ok" => item.exists /\ Matches(item, plan[c])
       /\ log' = [log EXCEPT ![c][Last(c)].report = r]
  /\ Return(c)
  /\ UNCHANGED <<item, offers, issued, foreign>>

\* The token expires, or is crowded out.
Void(a) ==
  /\ offers' = [offers EXCEPT ![a] = NoPlan]
  /\ offers[a] # NoPlan
  /\ UNCHANGED <<item, call, log, meddled, issued, foreign>>

\* Another user writes the item's quantity or status.
ForeignWrite ==
  /\ item.exists /\ foreign < MaxForeign
  /\ \E a \in {"count", "status"} : item' \in {Stored(i) : i \in Requested(a, item)} \ {item}
  /\ log' = [d \in Callers |-> Raced(log[d])]
  /\ meddled' = MeddledBy({})
  /\ foreign' = foreign + 1
  /\ UNCHANGED <<call, offers, issued>>

Next ==
  \/ \E c \in Callers :
       \/ \E m \in {"dry_run", "confirm"}, a \in Actions : ReadAndPlan(c, m, a)
       \/ Issue(c) \/ Consume(c)
       \/ MutateAnswered(c)
       \/ \E e \in {"rejected", "rate_limited", "lost"} : MutateFailed(c, e)
       \/ \E n \in 1..MaxMutations : n <= Last(c) /\ LandsLate(c, n)
       \/ ReadBack(c)
  \/ \E a \in Actions : Void(a)
  \/ ForeignWrite

Spec == Init /\ [][Next]_vars

-----------------------------------------------------------------------------
(* Properties.                                                              *)

Mutations == {<<c, n>> : c \in Callers, n \in 1..MaxMutations}
Logged == {m \in Mutations : m[2] <= Last(m[1])}
Mutating == {c \in Callers : stage[c] = "mutating"}
Sent(P(_)) == \A m \in Logged : P(log[m[1]][m[2]])

\* Every mutation sent was paid for by a dry run of its own, however the calls
\* interleave, whatever fails, and whatever the item does in between:
\* executeStockPlan mutates only after store.consume took the plan away.
OneMutationPerReview ==
  Cardinality(Logged) + Cardinality(Mutating) <= issued

\* A mutation the tool reports as rejected never takes effect afterwards: the
\* status codes definiteMutationRejection excludes may hide a request that is
\* still on its way.
RejectedMeansUntouched ==
  Sent(LAMBDA m : m.report = "rejected" => ~m.landed /\ ~m.open)

\* A relative adjustment that lands on an item somebody else wrote exactly once
\* since it was planned, and is left with stock, is never reported as done: the
\* read-back compares the whole snapshot.  (An absolute count or a status
\* overwrites the other's write, and a removal that would go below zero is cut
\* off at zero: those two a read-back cannot tell.)
SingleInterferenceNoticed ==
  Sent(LAMBDA m : m.report = "ok" /\ m.plan.action = "adjust" /\ m.plan.after.quantity > 0
                    => m.raced # 1)

\* The tools are non-destructive: an adjustment or a count deletes a
\* delete_on_deplete item only if it raced with another write after the read
\* its plan was made from.
NonDestructive ==
  Sent(LAMBDA m : m.deleted => m.raced > 0)
=============================================================================
