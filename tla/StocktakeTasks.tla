---------------------------- MODULE StocktakeTasks ----------------------------
(***************************************************************************)
(* generate_stocktake and poll_stocktake_generation                         *)
(* (internal/tools/stocktake_generation_tools.go): a confirmed plan starts  *)
(* one asynchronous InvenTree task and binds its handle to the principal;   *)
(* room for the handle is reserved before the task is enqueued, because an  *)
(* accepted task cannot be called back.                                     *)
(*                                                                          *)
(* Both stores read the clock under their mutex, so a store operation is    *)
(* one step.  InvenTree is external: the answer to an enqueue may be lost,  *)
(* may lack the task's identifier, or may name a task already known.        *)
(***************************************************************************)
EXTENDS Integers, FiniteSets

CONSTANTS
  Callers,              \* goroutines serving tool calls
  Principals,
  Tokens,               \* plan tokens the random generator can return
  TaskIDs,              \* DataOutput primary keys
  NoTask,               \* no usable primary key
  PlanLifetime, TaskLifetime,
  MaxPlans,             \* stockPlanMaxEntries
  MaxPlansPerPrincipal, \* stockPlanMaxEntriesPerPrincipal
  MaxTasks,             \* stocktakeTaskMaxEntries
  MaxTasksPerPrincipal, \* stocktakeTaskMaxEntriesPerPrincipal
  MaxTime               \* bound of the model: the clock stops here

VARIABLES
  clock,
  drawn,        \* tokens the generator has returned
  plans,        \* stocktakePlanStore.entries
  handles,      \* stocktakeTaskStore.entries
  reservations, \* stocktakeTaskStore.reservations
  stage,        \* where each caller is
  who,          \* the principal each caller serves
  held,         \* the task a caller has been answered with, or polls
  enqueued,     \* history: how many tasks InvenTree accepted for each token
  token,        \* the token a caller's confirmed call consumed
  accepted,     \* InvenTree: the tasks it has accepted
  bound,        \* history: tasks whose handle was ever bound
  lost          \* history: tasks a caller was told to look for in InvenTree

stores == <<drawn, plans, handles, reservations>>
callers == <<stage, who, held, token>>
inventree == <<accepted, enqueued>>
history == <<bound, lost>>
vars == <<clock, stores, callers, inventree, history>>

Plan == [token : Tokens, principal : Principals, expiresAt : Nat]
Handle == [id : TaskIDs, principal : Principals, expiresAt : Nat]
Stages == {"idle", "reserving", "enqueuing", "binding", "releasing", "polling"}

TypeOK ==
  /\ clock \in 0..MaxTime
  /\ drawn \subseteq Tokens /\ plans \subseteq Plan /\ handles \subseteq Handle
  /\ \A h, g \in handles : h.id = g.id => h = g  \* handles is a map
  /\ reservations \in [Principals -> 0..Cardinality(Callers)]
  /\ stage \in [Callers -> Stages] /\ who \in [Callers -> Principals]
  /\ held \in [Callers -> TaskIDs \cup {NoTask}]
  /\ token \in [Callers -> Tokens]
  /\ enqueued \in [Tokens -> Nat]
  /\ accepted \subseteq TaskIDs /\ bound \subseteq TaskIDs /\ lost \subseteq TaskIDs

Init ==
  /\ clock = 0
  /\ drawn = {} /\ plans = {} /\ handles = {}
  /\ reservations = [p \in Principals |-> 0]
  /\ stage = [c \in Callers |-> "idle"]
  /\ who = [c \in Callers |-> CHOOSE p \in Principals : TRUE]
  /\ held = [c \in Callers |-> NoTask]
  /\ token = [c \in Callers |-> CHOOSE t \in Tokens : TRUE]
  /\ enqueued = [t \in Tokens |-> 0]
  /\ accepted = {} /\ bound = {} /\ lost = {}

-----------------------------------------------------------------------------
(* Helpers; a faulty variant stands before the operator it varies.          *)

Live(S) == {e \in S : clock < e.expiresAt}
OfPrincipal(S, p) == {e \in S : e.principal = p}

Goto(c, s) == stage' = [stage EXCEPT ![c] = s]

\* reservedTotal, the sum over all principals: each reservation is counted once.
Reserved == Cardinality(UNION {{p} \X (1..reservations[p]) : p \in Principals})

\* reserve's capacity check counts the tasks that are being enqueued as well.
NoRoomForHandles(p) ==
  \/ Cardinality(Live(handles)) >= MaxTasks
  \/ Cardinality(OfPrincipal(Live(handles), p)) >= MaxTasksPerPrincipal
NoRoom(p) ==
  \/ Cardinality(Live(handles)) + Reserved >= MaxTasks
  \/ Cardinality(OfPrincipal(Live(handles), p)) + reservations[p]
       >= MaxTasksPerPrincipal

\* bind's own capacity check.
Full(p) ==
  \/ Cardinality(Live(handles)) >= MaxTasks
  \/ Cardinality(OfPrincipal(Live(handles), p)) >= MaxTasksPerPrincipal

\* releaseReservationLocked: the last reservation's map entry is deleted.
WithoutReservation(p) ==
  [reservations EXCEPT ![p] = IF @ > 1 THEN @ - 1 ELSE 0]

\* What consume deletes.
Spends(e) == {e}

\* lookup's test.
Owns(h, p) == clock < h.expiresAt /\ h.principal = p

\* The tasks callers were told of: the outcome of the enqueue is ambiguous, or
\* the task could not be bound.
SaysNothingOf(k) == lost
Tells(k) == lost \cup {k}

-----------------------------------------------------------------------------
(* generate_stocktake.                                                      *)

TooManyPlans(p) ==
  \/ Cardinality(Live(plans)) >= MaxPlans
  \/ Cardinality(OfPrincipal(Live(plans), p)) >= MaxPlansPerPrincipal

\* A dry run.  Unlike the bulk tools' store, an older plan stays valid.
DryRun(c, p) ==
  /\ stage[c] = "idle"
  /\ \E t \in Tokens \ drawn :
       /\ drawn' = drawn \cup {t}
       /\ plans' = IF TooManyPlans(p) THEN Live(plans)
                   ELSE Live(plans) \cup
                          {[token |-> t, principal |-> p,
                            expiresAt |-> clock + PlanLifetime]}
  /\ UNCHANGED <<clock, handles, reservations, callers, inventree, history>>

\* A confirmed call whose token and plan match.
Consume(c, p) ==
  /\ stage[c] = "idle"
  /\ \E e \in Live(plans) :
       /\ e.principal = p
       /\ plans' = plans \ Spends(e)
       /\ token' = [token EXCEPT ![c] = e.token]
  /\ who' = [who EXCEPT ![c] = p]
  /\ Goto(c, "reserving")
  /\ UNCHANGED <<clock, drawn, handles, reservations, held, inventree, history>>

Reserve(c) ==
  LET p == who[c] IN
  /\ stage[c] = "reserving"
  /\ handles' = Live(handles)
  /\ IF NoRoom(p)
     THEN Goto(c, "idle") /\ UNCHANGED reservations
     ELSE /\ Goto(c, "enqueuing")
          /\ reservations' = [reservations EXCEPT ![p] = @ + 1]
  /\ UNCHANGED <<clock, drawn, plans, who, held, token, inventree, history>>

\* InvenTree accepts the task; the answer names it, lacks its key, is lost,
\* or names a task InvenTree has handed out before.
Accepted(c, k) ==
  /\ k \notin accepted /\ accepted' = accepted \cup {k}
  /\ enqueued' = [enqueued EXCEPT ![token[c]] = @ + 1]

\* queued.Output is there and has a positive key.
Usable(a) == a # NoTask

Answered(c, a) ==
  IF Usable(a) THEN held' = [held EXCEPT ![c] = a] /\ Goto(c, "binding")
               ELSE Goto(c, "releasing") /\ UNCHANGED held

Enqueue(c) ==
  /\ stage[c] = "enqueuing"
  /\ \/ \E k \in TaskIDs : Accepted(c, k) /\
          \/ Answered(c, k) /\ UNCHANGED history
          \/ Answered(c, NoTask) /\ lost' = Tells(k) /\ UNCHANGED bound
     \/ \E a \in accepted \cup {NoTask} :
          Answered(c, a) /\ UNCHANGED <<inventree, history>>
  /\ UNCHANGED <<clock, stores, who, token>>

\* bind's check against a handle that is already there.
NeverKnown(k) == FALSE
Known(k) == \E h \in Live(handles) : h.id = k

Bindable(c) ==
  /\ reservations[who[c]] > 0
  /\ ~Full(who[c])
  /\ ~Known(held[c])

Bind(c) ==
  /\ stage[c] = "binding" /\ Bindable(c)
  /\ handles' = {h \in Live(handles) : h.id # held[c]} \cup
                  {[id |-> held[c], principal |-> who[c],
                    expiresAt |-> clock + TaskLifetime]}
  /\ bound' = bound \cup {held[c]}
  /\ reservations' = WithoutReservation(who[c])
  /\ held' = [held EXCEPT ![c] = NoTask]
  /\ Goto(c, "idle")
  /\ UNCHANGED <<clock, drawn, plans, who, token, inventree, lost>>

\* The caller is told to inspect InvenTree's task queue.
FailToBind(c) ==
  /\ stage[c] = "binding" /\ ~Bindable(c)
  /\ handles' = Live(handles)
  /\ lost' = Tells(held[c])
  /\ held' = [held EXCEPT ![c] = NoTask]
  /\ Goto(c, "releasing")
  /\ UNCHANGED <<clock, drawn, plans, reservations, who, token, inventree, bound>>

Release(c) ==
  /\ stage[c] = "releasing"
  /\ reservations' = WithoutReservation(who[c])
  /\ Goto(c, "idle")
  /\ UNCHANGED <<clock, drawn, plans, handles, who, held, token, inventree, history>>

-----------------------------------------------------------------------------
(* poll_stocktake_generation.                                               *)

\* lookup; an expired handle is deleted on the way.
Lookup(c, p, k) ==
  /\ stage[c] = "idle"
  /\ \E h \in handles :
       /\ h.id = k
       /\ IF Owns(h, p)
          THEN /\ Goto(c, "polling")
               /\ who' = [who EXCEPT ![c] = p] /\ held' = [held EXCEPT ![c] = k]
               /\ UNCHANGED handles
          ELSE /\ handles' = IF clock < h.expiresAt THEN handles ELSE handles \ {h}
               /\ UNCHANGED <<stage, who, held>>
  /\ UNCHANGED <<clock, drawn, plans, reservations, token, inventree, history>>

\* waitForStocktakeOutput ends: the task is complete, its read failed, or the
\* wait is over (whichever the select or the request deadline sees first).
EndPoll(c) ==
  /\ stage[c] = "polling"
  /\ Goto(c, "idle") /\ held' = [held EXCEPT ![c] = NoTask]
  /\ UNCHANGED <<clock, stores, who, token, inventree, history>>

-----------------------------------------------------------------------------
(* The environment.                                                         *)

Tick ==
  /\ clock < MaxTime /\ clock' = clock + 1
  /\ UNCHANGED <<stores, callers, inventree, history>>

Next ==
  \/ \E c \in Callers, p \in Principals :
       \/ DryRun(c, p) \/ Consume(c, p)
       \/ \E k \in TaskIDs : Lookup(c, p, k)
  \/ \E c \in Callers :
       \/ Reserve(c) \/ Enqueue(c) \/ Bind(c) \/ FailToBind(c) \/ Release(c)
       \/ EndPoll(c)
  \/ Tick

Spec == Init /\ [][Next]_vars

-----------------------------------------------------------------------------
(* Properties.                                                              *)

InFlight(p) ==
  {c \in Callers : who[c] = p /\ stage[c] \in {"enqueuing", "binding", "releasing"}}

\* A task InvenTree accepted always finds room for its handle: however many
\* calls are between the reservation and the bind, bind never refuses one for
\* lack of capacity.
RoomForAccepted ==
  \A c \in Callers : stage[c] = "binding" => ~Full(who[c])

\* Reservations are neither leaked nor released twice: each principal has as
\* many as it has calls between the reservation and its bind or release.
NoReservationLeak ==
  \A p \in Principals : reservations[p] = Cardinality(InFlight(p))

\* A reviewed plan starts at most one generation, whatever concurrent
\* confirmed calls do with its token and however ambiguous the answer.
OneGenerationPerPlan == \A t \in Tokens : enqueued[t] <= 1

\* No accepted task disappears: it got a handle, or its caller was told to
\* look for it in InvenTree, or its call is still running.
NoTaskForgotten ==
  \A k \in accepted :
    k \in bound \cup lost \/ \E c \in Callers : stage[c] = "binding" /\ held[c] = k

\* What InvenTree accepted is what was reviewed, and somebody knows of it.
AcceptedAccountedFor == OneGenerationPerPlan /\ NoTaskForgotten

=============================================================================
