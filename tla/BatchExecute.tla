----------------------------- MODULE BatchExecute -----------------------------
(***************************************************************************)
(* One confirmed bulk call: batch.Execute (internal/batch/execute.go) runs  *)
(* the reviewed items through an adapter with bounded concurrency, and the  *)
(* progress reporter (internal/tools/bulk_progress.go) tells the client how *)
(* far it is.  The adapter is the one of bulk_update_parts                  *)
(* (internal/tools/catalog_bulk_tools.go); the other catalog adapters have  *)
(* the same three steps.                                                    *)
(*                                                                          *)
(* InvenTree is external: other actors write the same records, a PATCH may  *)
(* be answered, rejected, or lose its answer and land later or never, and   *)
(* the caller may cancel the call at any moment.                            *)
(***************************************************************************)
EXTENDS Integers, FiniteSets, Sequences

CONSTANTS
  N,               \* items of the batch
  Records,         \* InvenTree records the items may name
  Concurrency,     \* ExecuteOptions.Concurrency, as configured
  MaxForeignWrites \* bound of the model: writes by other actors

ASSUME BatchAssumption ==
  /\ N \in Nat \ {0}
  /\ Concurrency \in Int
  /\ MaxForeignWrites \in Nat

VARIABLES
  named,      \* the record each item names (fixed by the request)
  unfit,      \* items whose plan carries a FailReason of their own
  world,      \* what each record holds: as reviewed, the target, or other
  foreign,    \* writes other actors have made
  stage,      \* where each item's closure is
  outcome,    \* results[index]
  patch,      \* what became of each item's PATCH
  raced,      \* items whose record another actor wrote after their preflight
  achieved,   \* records that have held the target value
  cancelled,  \* ctx.Err() # nil
  completed,  \* Execute's atomic counter
  number,     \* the value the counter gave each item
  mutex,      \* holder of bulkProgressReporter.mu, 0 when free
  quiet,      \* less than bulkProgressMinInterval since lastSent
  notified    \* progress values sent to the client

work == <<stage, outcome, patch, raced>>
counter == <<completed, number>>
channel == <<mutex, quiet, notified>>
reporter == <<counter, channel>>
outside == <<world, foreign, achieved, cancelled>>
request == <<named, unfit>>
vars == <<request, outside, work, reporter>>

Items == 1..N
Values == {"reviewed", "target", "other"}
Stages == {"queued", "begun", "preflighted", "recovering", "mutated",
           "reporting", "sending", "done"}
Outcomes == {"applied", "skipped", "failed", "ambiguous", "unverified",
             "unattempted"}

TypeOK ==
  /\ named \in [Items -> Records]
  /\ unfit \subseteq Items
  /\ world \in [Records -> Values]
  /\ foreign \in 0..MaxForeignWrites
  /\ stage \in [Items -> Stages]
  /\ outcome \in [Items -> Outcomes \cup {"none"}]
  /\ patch \in [Items -> {"unsent", "inflight", "landed", "rejected"}]
  /\ raced \subseteq Items
  /\ achieved \subseteq Records
  /\ cancelled \in BOOLEAN
  /\ completed \in 0..N
  /\ number \in [Items -> 0..N]
  /\ mutex \in 0..N
  /\ quiet \in BOOLEAN
  /\ notified \in Seq(Items)

\* The plan was rebuilt and matched the reviewed digest just before Execute;
\* a record may have moved since that read.
Init ==
  /\ named \in [Items -> Records]
  /\ unfit \in SUBSET Items
  /\ world \in [Records -> Values]
  /\ achieved = {r \in Records : world[r] = "target"}
  /\ foreign = 0 /\ cancelled = FALSE
  /\ stage = [i \in Items |-> "queued"]
  /\ outcome = [i \in Items |-> "none"]
  /\ patch = [i \in Items |-> "unsent"]
  /\ raced = {}
  /\ completed = 0 /\ mutex = 0 /\ quiet = FALSE
  /\ number = [i \in Items |-> 0]
  /\ notified = <<>>

-----------------------------------------------------------------------------
(* Helpers; a faulty variant stands before the operator it varies.          *)

Running == {i \in Items : stage[i] \notin {"queued", "done"}}
Returned == \A i \in Items : stage[i] = "done"

\* duplicateBulkIDs: every item whose record another item names as well.
NoDuplicates == {}
Duplicates == {i \in Items : \E j \in Items \ {i} : named[i] = named[j]}

\* The concurrency limit after clamping.
Limit == IF Concurrency < 1 THEN 1 ELSE Concurrency

Held(i) == world[named[i]]
AtTarget(i) == Held(i) = "target"

\* Preflight's drift check: what is there now is neither target nor reviewed.
NeverDrifted(i) == FALSE
Drifted(i) == Held(i) = "other"

\* ctx.Err() at the top of an item's closure.
NotAttempted == cancelled

\* How Execute classifies an item whose Mutate returned an error.
MutateErrorIsFailure == "failed"
MutateErrorOutcome == "ambiguous"

\* Whether Verify accepts what it reads back.
Verifies(i) == AtTarget(i)

Goto(i, s) == stage' = [stage EXCEPT ![i] = s]

\* The atomic counter after one more item.
Counted == completed + 1

\* An item's result is recorded and its number drawn from the atomic counter.
Conclude(i, o) ==
  /\ outcome' = [outcome EXCEPT ![i] = o]
  /\ completed' = Counted
  /\ number' = [number EXCEPT ![i] = completed']
  /\ Goto(i, "reporting")

Continue(i, s) == Goto(i, s) /\ UNCHANGED <<outcome, completed, number>>

-----------------------------------------------------------------------------
(* The items' closures.                                                     *)

\* Execute's loop: items start in order, when the error group has a free slot.
Dispatch(i) ==
  /\ stage[i] = "queued"
  /\ \A j \in 1..(i - 1) : stage[j] # "queued"
  /\ Cardinality(Running) < Limit
  /\ Goto(i, "begun")
  /\ UNCHANGED <<request, outside, reporter, outcome, patch, raced>>

\* The cancellation check, and Preflight when it passes.  The read may fail
\* or identify another record; a cancelled context makes it fail.
Preflight(i) ==
  /\ stage[i] = "begun"
  /\ \/ NotAttempted /\ Conclude(i, "unattempted")
     \/ ~NotAttempted /\ Conclude(i, "failed")  \* FailReason, or a failed read
     \/ /\ ~NotAttempted /\ i \notin unfit \cup Duplicates
        /\ \/ AtTarget(i) /\ Conclude(i, "skipped")
           \/ ~AtTarget(i) /\ Drifted(i) /\ Conclude(i, "failed")
           \/ /\ ~AtTarget(i) /\ ~Drifted(i)
              /\ Continue(i, "preflighted")
  /\ UNCHANGED <<request, outside, channel, patch, raced>>

\* Mutate's PATCH is answered with success.  InvenTree may still have kept
\* another value than the one sent.
PatchAnswered(i) ==
  /\ stage[i] = "preflighted" /\ ~cancelled
  /\ patch' = [patch EXCEPT ![i] = "landed"]
  /\ \E v \in {"target", Held(i)} : world' = [world EXCEPT ![named[i]] = v]
  /\ achieved' = {r \in Records : r \in achieved \/ world'[r] = "target"}
  /\ Goto(i, "mutated")
  /\ UNCHANGED <<request, foreign, cancelled, reporter, outcome, raced>>

\* InvenTree rejects it definitely (a 4xx).
PatchRejected(i) ==
  /\ stage[i] = "preflighted" /\ ~cancelled
  /\ patch' = [patch EXCEPT ![i] = "rejected"]
  /\ Conclude(i, MutateErrorOutcome)
  /\ UNCHANGED <<request, outside, channel, raced>>

\* It fails ambiguously (no answer, or a 5xx): the request may still land.
\* A context that is already cancelled stops it before it is sent.
PatchUnanswered(i) ==
  /\ stage[i] = "preflighted"
  /\ patch' = IF cancelled THEN patch ELSE [patch EXCEPT ![i] = "inflight"]
  /\ Goto(i, "recovering")
  /\ UNCHANGED <<request, outside, reporter, outcome, raced>>

\* An unanswered PATCH takes effect, however late.
PatchLands(i) ==
  /\ patch[i] = "inflight"
  /\ patch' = [patch EXCEPT ![i] = "landed"]
  /\ world' = [world EXCEPT ![named[i]] = "target"]
  /\ achieved' = achieved \cup {named[i]}
  /\ UNCHANGED <<request, foreign, cancelled, reporter, stage, outcome, raced>>

\* Mutate's recovery read: it finds the target, or the error is returned (the
\* read may fail as well).
Recover(i) ==
  /\ stage[i] = "recovering"
  /\ \/ Conclude(i, MutateErrorOutcome)
     \/ ~cancelled /\ AtTarget(i) /\ Continue(i, "mutated")
  /\ UNCHANGED <<request, outside, channel, patch, raced>>

Verify(i) ==
  /\ stage[i] = "mutated"
  /\ \/ Conclude(i, "unverified")
     \/ ~cancelled /\ Verifies(i) /\ Conclude(i, "applied")
  /\ UNCHANGED <<request, outside, channel, patch, raced>>

-----------------------------------------------------------------------------
(* The progress report at the end of a closure.                             *)

\* The throttle lets everything pass except a report that is neither the
\* last one nor late enough.
PassesInterval(i) == ~quiet
Passes(i) == number[i] >= N \/ ~quiet

\* A report the throttle stops releases the mutex too.
StaysLocked(i) == i
Unlocked(i) == 0

Report(i) ==
  /\ stage[i] = "reporting" /\ mutex = 0
  /\ IF Passes(i) THEN Goto(i, "sending") /\ mutex' = i /\ quiet' = TRUE
                  ELSE Goto(i, "done") /\ mutex' = Unlocked(i) /\ UNCHANGED quiet
  /\ UNCHANGED <<request, outside, outcome, patch, raced, completed, number, notified>>

\* NotifyProgress, with the mutex held; a failure to deliver is only logged.
Notify(i) ==
  /\ stage[i] = "sending"
  /\ notified' = Append(notified, number[i])
  /\ mutex' = Unlocked(i)
  /\ Goto(i, "done")
  /\ UNCHANGED <<request, outside, outcome, patch, raced, completed, number, quiet>>

-----------------------------------------------------------------------------
(* The environment.                                                         *)

Cancel ==
  /\ ~cancelled /\ ~Returned
  /\ cancelled' = TRUE
  /\ UNCHANGED <<request, world, foreign, achieved, work, reporter>>

PastPreflight(r) ==
  {i \in Items : named[i] = r /\ stage[i] \in {"preflighted", "recovering"}}

ForeignWrite(r, v) ==
  /\ foreign < MaxForeignWrites /\ ~Returned
  /\ world[r] # v
  /\ foreign' = foreign + 1
  /\ world' = [world EXCEPT ![r] = v]
  /\ achieved' = IF v = "target" THEN achieved \cup {r} ELSE achieved
  /\ raced' = raced \cup PastPreflight(r)
  /\ UNCHANGED <<request, cancelled, stage, outcome, patch, reporter>>

IntervalPasses ==
  /\ quiet /\ ~Returned
  /\ quiet' = FALSE
  /\ UNCHANGED <<request, outside, work, completed, number, mutex, notified>>

Step(i) ==
  \/ Dispatch(i) \/ Preflight(i)
  \/ PatchAnswered(i) \/ PatchRejected(i) \/ PatchUnanswered(i)
  \/ Recover(i) \/ Verify(i)
  \/ Report(i) \/ Notify(i)

Next ==
  \/ \E i \in Items : Step(i) \/ PatchLands(i)
  \/ \E r \in Records, v \in Values : ForeignWrite(r, v)
  \/ Cancel \/ IntervalPasses

\* Every upstream call returns: the InvenTree client has a timeout.  Nothing
\* makes a lost PATCH land, another actor write or the caller cancel.
Spec == Init /\ [][Next]_vars /\ \A i \in Items : WF_vars(Step(i))

-----------------------------------------------------------------------------
(* Properties.                                                              *)

\* An outcome that tells the operator nothing was written is right: no PATCH
\* of that item has left the server (execute.go: "No write was attempted").
NothingWrittenMeansNothingSent ==
  \A i \in Items :
    outcome[i] \in {"failed", "skipped", "unattempted"} => patch[i] = "unsent"

\* An item reported as applied or skipped is one whose record really held the
\* target: a success answer alone, or a lost answer, is never taken for it.
SuccessWasReal ==
  \A i \in Items :
    outcome[i] \in {"applied", "skipped"} => named[i] \in achieved

\* What the bulk call says of an item is true of it (Execute, runOne).
OutcomesAreTrue == NothingWrittenMeansNothingSent /\ SuccessWasReal

\* However a request lists its records, no record is PATCHed by two items.
OneWriterPerRecord ==
  \A i, j \in Items :
    i # j /\ patch[i] # "unsent" /\ patch[j] # "unsent" => named[i] # named[j]

\* When the call returns, the client has been told of its completion exactly
\* once, and no count was announced twice.
CompletionAnnounced ==
  /\ \A j, k \in 1..Len(notified) : notified[j] = notified[k] => j = k
  /\ Returned => \E k \in 1..Len(notified) : notified[k] = N

\* A PATCH is sent over a value nobody reviewed only if another actor wrote
\* the record inside the item's own preflight-to-PATCH window.
StaleWriteOnlyInWindow ==
  [][\A i \in Items :
       patch[i] = "unsent" /\ patch'[i] # "unsent" /\ Held(i) = "other"
         => i \in raced]_vars

\* Every confirmed call ends, whatever fails, is throttled or is cancelled.
CallReturns == <>Returned

=============================================================================
