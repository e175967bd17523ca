------------------------------- MODULE Workflows -------------------------------
(***************************************************************************)
(* The two tools of internal/tools that write several records in a row:       *)
(* upsert_part_workflow (write_tools.go) and                                  *)
(* create_purchase_order_with_lines (purchasing_tools.go), and the fixtures of *)
(* the integration tests (internal/testenv/shared.go).  Each looks for every   *)
(* record it needs, reuses what it finds, creates what it does not, and stops   *)
(* at the first failure, a tool with an account of what it did, a fixture with *)
(* a mere error; the caller then calls again.                                 *)
(*                                                                          *)
(* A call runs a program of steps over slots, one request of InvenTree each.   *)
(* The first looks everything up before it writes anything, in a pass of its    *)
(* own; the second looks first and then writes.  InvenTree and its other users  *)
(* are external, and a write behind an error may take effect later or never.    *)
(***************************************************************************)
EXTENDS Integers, SequencesExt

CONSTANTS
  Callers,      \* concurrent calls of the tool, with the same input
  Inputs,       \* what the tool may be called with
  MaxCalls,     \* bound of the model: calls, retries among them
  MaxFailures,  \* bound of the model: requests that fail
  MaxForeign    \* bound of the model: records others add or change

ASSUME WorkflowAssumption == {MaxCalls, MaxFailures, MaxForeign} \subseteq Nat

VARIABLES
  input,      \* what the tool is called with
  records,    \* in InvenTree
  late,       \* writes behind an error that may still take effect
  pass,       \* what each call does: "idle", "dry_run", "preflight", "run"
  at,         \* its step
  held,       \* the record it has for each slot
  need,       \* what is to be done about each slot
  actions,    \* what its answer will list
  answer,     \* the last answer of each caller
  sent,       \* history: the writes of each caller's last call
  meddled,    \* history: somebody else wrote since the call began
  failed,     \* history: a request of the call failed
  calls, failures, foreign,
  disturbed   \* history: calls overlapped, others wrote, or a write was late

call == <<pass, at, held, need, actions>>
counts == <<calls, failures, foreign>>
vars == <<input, records, late, call, answer, sent, meddled, failed, counts, disturbed>>

-----------------------------------------------------------------------------
(* The programs.                                                             *)

Upsert == input.tool = "upsert"
Fixture == input.tool = "fixture"

\* The records a record hangs on; a fixture's part has its category and location.
HangsOn ==
  [part |-> {}, manufacturer |-> {}, manufacturer_part |-> {"part", "manufacturer"},
   supplier |-> {}, supplier_part |-> {"part", "supplier"},
   order |-> {"supplier"}, line |-> {"order"}, extra |-> {"order"},
   category |-> {}, location |-> {}, assembly |-> {"category", "location"},
   bom |-> {"assembly", "part"}, user |-> {}]
Slots == DOMAIN HangsOn
Parents == IF Fixture THEN [HangsOn EXCEPT !.part = {"category", "location"}] ELSE HangsOn
Companies == {"manufacturer", "supplier"}

Step(op, slot) == [op |-> op, slot |-> slot]
LookAndCreate(slot) == <<Step("look", slot), Step("write", slot)>>

resolveWorkflowPart == LookAndCreate("part")
resolveWorkflowCompany(role) == LookAndCreate(role)
resolveWorkflowManufacturerPart == LookAndCreate("manufacturer_part")
resolveWorkflowSupplierPart == LookAndCreate("supplier_part")
verifyPartUpsertLinks ==
  <<Step("verify", "manufacturer_part"), Step("verify", "supplier_part")>>

\* Company and link by turns, and a read-back of the links at the end.
runPartUpsertWorkflow ==
  resolveWorkflowPart
  \o resolveWorkflowCompany("manufacturer") \o resolveWorkflowManufacturerPart
  \o resolveWorkflowCompany("supplier") \o resolveWorkflowSupplierPart
  \o verifyPartUpsertLinks

OrderFirst == <<Step("look", "supplier"), Step("look", "order"), Step("create", "order")>>
WhatItHas == <<Step("look", "line"), Step("look", "extra")>>
OrderPatch == <<Step("update", "order")>>
LineWrites == <<Step("write", "line")>>
ExtraLineWrites == <<Step("write", "extra"), Step("verify", "extra")>>
Totals == <<Step("verify", "order")>>

\* The order, then what it has, its metadata, its lines and its extra lines, and
\* its totals at the end.
executePurchaseOrderWorkflow ==
  OrderFirst \o WhatItHas \o OrderPatch \o LineWrites \o ExtraLineWrites \o Totals

\* The fixtures a fixture needs come before it, each looked up again even if it
\* was a moment ago.
FixtureNeeds(kind) ==
  CASE kind \in {"part", "assembly"} -> <<"category", "location", kind>>
    [] kind = "supplier_part" -> <<"category", "location", "part", "supplier", kind>>
    [] kind = "order" -> <<"supplier", kind>>
    [] kind = "bom" -> <<"category", "location", "assembly", "category", "location", "part", kind>>
    [] OTHER -> <<kind>>
ensureFixture(kind) ==
  LET slots == FixtureNeeds(kind)
  IN [k \in 1..(2 * Len(slots)) |-> Step(IF k % 2 = 1 THEN "look" ELSE "write", slots[(k + 1) \div 2])]

\* The account of a test: its user, a new password, a token got with it.
createTestAccount ==
  LookAndCreate("user") \o <<Step("update", "user"), Step("verify", "user")>>

Program ==
  CASE Upsert -> runPartUpsertWorkflow
    [] Fixture -> IF input.kind = "user" THEN createTestAccount ELSE ensureFixture(input.kind)
    [] OTHER -> executePurchaseOrderWorkflow

\* An input: the slots it asks for, those it gives by stable ID, those it could
\* create (category, currency, MPN), whether it has fields to patch, and an SKU;
\* the fixture.
Input == [tool : {"upsert", "order", "fixture"}, asks : SUBSET Slots, byId : SUBSET Slots,
          able : SUBSET Slots, patch : BOOLEAN, sku : BOOLEAN, kind : Slots \cup {"none"}]

\* A part workflow is about a part and perhaps more; an order has its supplier, given by
\* its ID, and lines are never given so; a fixture comes with all that it needs, SKU
\* and all.
PartSlots == {"part", "manufacturer", "manufacturer_part", "supplier", "supplier_part"}
OrderSlots == {"supplier", "order", "line", "extra"}
FixtureSlots == Slots \ {"manufacturer_part", "line", "extra"}
InputOK(i) ==
  /\ i.tool = "upsert" => "part" \in i.asks /\ i.asks \subseteq PartSlots
  /\ i.tool = "order" => /\ {"supplier", "order"} \subseteq i.asks /\ i.asks \subseteq OrderSlots
                         /\ "supplier" \in i.byId /\ i.byId \subseteq {"supplier", "order"}
                         /\ "supplier" \notin i.able
  /\ i.tool = "fixture" => /\ i.kind \in FixtureSlots /\ i.asks = ToSet(FixtureNeeds(i.kind))
                           /\ i.sku
ASSUME InputAssumption == Inputs \subseteq Input /\ \A i \in Inputs : InputOK(i)

None == 0
Planned == -1
Statuses == {"reused", "created", "updated", "recovered", "skipped", "failed"}
Answers == {"none", "ok", "dry_run", "error", "clarification", "validation_failed", "partial_failure"}

TypeOK ==
  /\ input \in Inputs
  /\ \A r \in records : r.slot \in Slots /\ r.id \in Nat \ {None} /\ r.fits \in BOOLEAN
  /\ pass \in [Callers -> {"idle", "dry_run", "preflight", "run"}]
  /\ at \in [Callers -> 0..Len(Program)]
  /\ held \in [Callers -> [Slots -> Int]]
  /\ need \in [Callers -> [Slots -> {"nothing", "create", "update", "recovery"}]]
  /\ \A c \in Callers : /\ actions[c] \subseteq Slots \X Statuses
                        /\ answer[c].kind \in Answers
  /\ meddled \in [Callers -> BOOLEAN] /\ failed \in [Callers -> BOOLEAN]
  /\ calls \in 0..MaxCalls /\ failures \in 0..MaxFailures /\ foreign \in 0..MaxForeign
  /\ disturbed \in BOOLEAN

-----------------------------------------------------------------------------
(* What the handlers decide; a faulty variant stands before the operator it   *)
(* varies.                                                                   *)

\* Only the part workflow looks everything up before it writes.
StartsAtOnce(dry) == IF dry THEN "dry_run" ELSE "run"
FirstPass(dry) == IF dry THEN "dry_run" ELSE IF Upsert THEN "preflight" ELSE "run"
Writing(c) == pass[c] = "run"

\* hasAppliedPartUpsertAction
CountsCreated(done) == \E a \in done : a[2] = "created"
Applied(done) == \E a \in done : a[2] \in {"created", "updated"}

\* A record that hangs on one still to be created is not searched for.
Unborn(c, s) == \E p \in Parents[s] : held[c][p] = Planned
Under(c, s) == [p \in Parents[s] |-> held[c][p]]

\* What a lookup finds: the record of the ID, or every match; companies are searched
\* by their role (exactSupplierReferenceMatches for orders).  A fixture has a name of
\* its own, an order one made from its supplier, and nothing but the name is looked for.
FoundIfFit(c, s) ==
  IF Unborn(c, s) THEN {}
  ELSE {r \in records : /\ r.slot = s /\ r.fits
                        /\ IF s \in input.byId THEN r.id = 1 ELSE r.under = Under(c, s)}
Found(c, s) ==
  IF Unborn(c, s) THEN {}
  ELSE {r \in records : /\ r.slot = s
                        /\ IF Fixture THEN s = "order" => r.under = Under(c, s)
                           ELSE IF s \in input.byId THEN r.id = 1
                           ELSE r.under = Under(c, s) /\ (s \in Companies => r.fits)}

\* The one record found that cannot be used: a company without the role, an order
\* with another supplier or reference, a line with another supplier part.
Unusable(s, r) ==
  ~r.fits /\ \/ s \in Companies
             \/ s = "order" /\ s \in input.byId
             \/ s = "line"

\* A fixture must be as the test would have created it, a user need not.
validateFields(c, s, r) == r.fits /\ r.under = Under(c, s)

\* A record found is changed when there are fields for it; lines always are.
NeedOf(s) ==
  IF s \in {"line", "extra"} \/ (s \in {"part", "order"} /\ input.patch) THEN "update"
  ELSE "nothing"

\* What is asked for after a slot (remainingPartUpsertActions).
Turn(s) ==
  [part |-> 1, manufacturer |-> 2, manufacturer_part |-> 3, supplier |-> 4,
   supplier_part |-> 5, order |-> 6, line |-> 7, extra |-> 8][s]
remainingPartUpsertActions(s) == {t \in input.asks : Turn(t) > Turn(s)}

-----------------------------------------------------------------------------
(* A call.                                                                   *)

Now(c) == Program[at[c]]
Busy(c) == pass[c] # "idle"

\* The steps a pass has to take: none that writes or reads back before the last
\* pass, and none about a slot that is not asked for or needs nothing.
Due(p, needs, holds, step) ==
  LET s == step.slot IN
  /\ s \in input.asks
  /\ CASE step.op = "look" -> TRUE
       [] step.op = "verify" -> p = "run" /\ holds[s] # None
       [] step.op = "write" -> p = "run" /\ needs[s] # "nothing"
       [] OTHER -> p = "run" /\ (Fixture \/ needs[s] = step.op)
After(n, p, needs, holds) ==
  {k \in (n + 1)..Len(Program) : Due(p, needs, holds, Program[k])}
Least(S) == CHOOSE n \in S : \A m \in S : n <= m

Fresh == [s \in Slots |-> None]
Idle == [s \in Slots |-> "nothing"]

\* The call answers, and is over.
Answer(c, kind, done, remaining) ==
  /\ answer' = [answer EXCEPT ![c] = [kind |-> kind, actions |-> done, remaining |-> remaining]]
  /\ pass' = [pass EXCEPT ![c] = "idle"]
  /\ at' = [at EXCEPT ![c] = 0]
  /\ held' = [held EXCEPT ![c] = Fresh]
  /\ need' = [need EXCEPT ![c] = Idle]
  /\ actions' = [actions EXCEPT ![c] = {}]

\* On to the next step, from the preflight to the run, or to the answer.
Proceed(c, holds, needs, done) ==
  LET next == After(at[c], pass[c], needs, holds) IN
  IF next # {}
  THEN /\ at' = [at EXCEPT ![c] = Least(next)]
       /\ held' = [held EXCEPT ![c] = holds]
       /\ need' = [need EXCEPT ![c] = needs]
       /\ actions' = [actions EXCEPT ![c] = done]
       /\ UNCHANGED <<pass, answer>>
  ELSE IF pass[c] = "preflight"
  THEN /\ pass' = [pass EXCEPT ![c] = "run"]
       /\ at' = [at EXCEPT ![c] = Least(After(0, "run", Idle, Fresh))]
       /\ held' = [held EXCEPT ![c] = Fresh]
       /\ need' = [need EXCEPT ![c] = Idle]
       /\ actions' = [actions EXCEPT ![c] = {}]
       /\ UNCHANGED answer
  ELSE Answer(c, IF pass[c] = "run" THEN "ok" ELSE "dry_run", done, {})

Start(c, dry) ==
  /\ ~Busy(c) /\ calls < MaxCalls /\ (dry => ~Fixture)
  /\ calls' = calls + 1
  /\ pass' = [pass EXCEPT ![c] = FirstPass(dry)]
  /\ at' = [at EXCEPT ![c] = Least(After(0, FirstPass(dry), Idle, Fresh))]
  /\ sent' = [sent EXCEPT ![c] = {}]
  /\ meddled' = [meddled EXCEPT ![c] = FALSE]
  /\ failed' = [failed EXCEPT ![c] = FALSE]
  /\ answer' = [answer EXCEPT ![c] = [kind |-> "none", actions |-> {}, remaining |-> {}]]
  /\ disturbed' = (disturbed \/ \E d \in Callers : Busy(d))
  /\ UNCHANGED <<input, records, late, held, need, actions, failures, foreign>>

\* The bare answers, and the accounts of what was done before.
Failure(c) == Answer(c, "error", {}, {})

workflowFailure(c, s) == Answer(c, "partial_failure", actions[c] \cup {<<s, "failed">>}, {})

Stopped(c, s) ==
  Answer(c, "partial_failure", actions[c] \cup {<<s, "failed">>}, remainingPartUpsertActions(s))

partUpsertMutationFailure(c, s, rejected) ==
  Answer(c, IF rejected /\ ~Applied(actions[c]) THEN "validation_failed" ELSE "partial_failure",
         actions[c] \cup {<<s, "failed">>}, remainingPartUpsertActions(s))

partUpsertResolutionFailure(c, s) ==
  IF s = "part" \/ ~Applied(actions[c]) THEN Failure(c)
  ELSE Stopped(c, s)

partUpsertResolutionClarification(c, s) ==
  IF s = "part" \/ ~Applied(actions[c]) THEN Answer(c, "clarification", {}, {})
  ELSE Stopped(c, s)

\* Questions of the order workflow keep the list of its actions.
Clarify(c, s) ==
  IF Upsert THEN partUpsertResolutionClarification(c, s)
  ELSE Answer(c, "clarification", actions[c], {})

unchangedWorld == UNCHANGED <<input, records, late, sent, meddled, calls, foreign, disturbed>>

\* A fixture: the first of its name if it is as it should be, or a new one.
getOrCreateRecord(c, s, found) ==
  \/ /\ found = {}
     /\ Proceed(c, [held[c] EXCEPT ![s] = None], [need[c] EXCEPT ![s] = "create"], actions[c])
  \/ \E r \in found :
       IF s = "user" \/ validateFields(c, s, r)
       THEN Proceed(c, [held[c] EXCEPT ![s] = r.id], [need[c] EXCEPT ![s] = "nothing"],
                    actions[c] \cup {<<s, "reused">>})
       ELSE Failure(c)

\* A slot is looked up.  The SKU is asked for before the search.
Look(c) ==
  LET s == Now(c).slot
      found == Found(c, s)
  IN  /\ Busy(c) /\ Now(c).op = "look"
      /\ IF s = "supplier_part" /\ ~input.sku THEN Answer(c, "clarification", {}, {})
         ELSE IF Fixture THEN getOrCreateRecord(c, s, found)
         ELSE IF Cardinality(found) > 1 THEN Clarify(c, s)
         ELSE IF found # {}
         THEN LET r == CHOOSE r \in found : TRUE IN
              IF Unusable(s, r) THEN Clarify(c, s)
              ELSE Proceed(c, [held[c] EXCEPT ![s] = r.id], [need[c] EXCEPT ![s] = NeedOf(s)],
                           actions[c] \cup IF s \in {"line", "extra"} THEN {} ELSE {<<s, "reused">>})
         ELSE IF s \in input.able
         THEN Proceed(c, [held[c] EXCEPT ![s] = IF Writing(c) THEN None ELSE Planned],
                      [need[c] EXCEPT ![s] = "create"], actions[c])
         ELSE IF s = "manufacturer_part"
         THEN Proceed(c, held[c], need[c], actions[c] \cup {<<s, "skipped">>})
         ELSE Clarify(c, s)
      /\ unchangedWorld /\ UNCHANGED <<failures, failed>>

\* A read fails.  The order workflow answers with what it did as soon as it may
\* have created the order.
LookFails(c) ==
  LET s == Now(c).slot IN
  /\ Busy(c) /\ Now(c).op = "look" /\ ~Unborn(c, s) /\ failures < MaxFailures
  /\ failures' = failures + 1
  /\ failed' = [failed EXCEPT ![c] = TRUE]
  /\ CASE Upsert -> partUpsertResolutionFailure(c, s)
       [] ~Upsert /\ (Fixture \/ s \in {"supplier", "order"}) -> Failure(c)
       [] OTHER -> workflowFailure(c, s)
  /\ unchangedWorld

-----------------------------------------------------------------------------
(* Writing.                                                                  *)

OfSlot(s) == {r \in records : r.slot = s}
NewId(s) == Cardinality(OfSlot(s)) + 1

\* A write as InvenTree gets it, and what becomes of it.
Write(c) ==
  LET s == Now(c).slot IN [slot |-> s, id |-> held[c][s], under |-> Under(c, s), caller |-> c,
                             call |-> calls]
Stored(w) ==
  IF w.id = None
  THEN records \cup {[slot |-> w.slot, id |-> NewId(w.slot), under |-> w.under, fits |-> TRUE]}
  ELSE {IF r.slot = w.slot /\ r.id = w.id THEN [r EXCEPT !.fits = TRUE] ELSE r : r \in records}

MeddledBy(c) == [d \in Callers |-> meddled[d] \/ (d # c /\ Busy(d))]
Sends(c, fate) == sent' = [sent EXCEPT ![c] = @ \cup {[slot |-> Now(c).slot, fate |-> fate]}]

AtWrite(c) ==
  Writing(c) /\ Now(c).op \in {"create", "update", "write"} /\ need[c][Now(c).slot] # "recovery"

\* The status an acknowledged write is listed with.
Done(c) == IF need[c][Now(c).slot] = "create" THEN "created" ELSE "updated"

WriteAnswered(c) ==
  LET s == Now(c).slot IN
  /\ AtWrite(c)
  /\ records' = Stored(Write(c))
  /\ Sends(c, "applied")
  /\ meddled' = MeddledBy(c)
  /\ Proceed(c, [held[c] EXCEPT ![s] = IF @ = None THEN NewId(s) ELSE @],
             [need[c] EXCEPT ![s] = "nothing"], actions[c] \cup {<<s, Done(c)>>})
  /\ UNCHANGED <<input, late, failed, counts, disturbed>>

\* InvenTree refuses the write, for what is in it or for another reason.
WriteRejected(c) ==
  LET s == Now(c).slot IN
  /\ AtWrite(c) /\ failures < MaxFailures /\ failures' = failures + 1
  /\ Sends(c, "refused")
  /\ failed' = [failed EXCEPT ![c] = TRUE]
  /\ CASE Upsert -> \E invalid \in BOOLEAN : partUpsertMutationFailure(c, s, invalid)
       [] Fixture -> Failure(c)
       [] OTHER -> workflowFailure(c, s)
  /\ UNCHANGED <<input, records, late, meddled, calls, foreign, disturbed>>

\* The answer is lost: the write took effect, will, or will not.  Only an extra
\* line is then looked for.
WriteLost(c) ==
  LET s == Now(c).slot IN
  /\ AtWrite(c) /\ failures < MaxFailures /\ failures' = failures + 1
  /\ \/ records' = Stored(Write(c)) /\ UNCHANGED late /\ meddled' = MeddledBy(c)
     \/ late' = late \cup {Write(c)} /\ UNCHANGED <<records, meddled>>
     \/ UNCHANGED <<records, late, meddled>>
  /\ Sends(c, "unknown")
  /\ failed' = [failed EXCEPT ![c] = TRUE]
  /\ CASE s = "extra" -> /\ need' = [need EXCEPT ![c][s] = "recovery"]
                         /\ UNCHANGED <<pass, at, held, actions, answer>>
       [] s # "extra" /\ Upsert -> partUpsertMutationFailure(c, s, FALSE)
       [] s # "extra" /\ Fixture -> Failure(c)
       [] OTHER -> workflowFailure(c, s)
  /\ UNCHANGED <<input, calls, foreign, disturbed>>

\* The extra line is read again, by its ID or by its reference; only one that is as
\* it should be counts.
recoverExtraLine(c) ==
  LET s == Now(c).slot
      found == IF held[c][s] = None THEN Found(c, s) ELSE {r \in OfSlot(s) : r.id = held[c][s]}
  IN  /\ input.tool = "order" /\ Writing(c) /\ need[c][s] = "recovery"
      /\ \/ /\ Cardinality(found) = 1 /\ \A r \in found : r.fits
            /\ Proceed(c, [held[c] EXCEPT ![s] = None], [need[c] EXCEPT ![s] = "nothing"],
                       actions[c] \cup {<<s, "recovered">>})
            /\ UNCHANGED <<failures, failed>>
         \/ /\ ~(Cardinality(found) = 1 /\ \A r \in found : r.fits)
            /\ workflowFailure(c, s)
            /\ UNCHANGED <<failures, failed>>
         \/ /\ failures < MaxFailures /\ failures' = failures + 1
            /\ failed' = [failed EXCEPT ![c] = TRUE]
            /\ workflowFailure(c, s)
      /\ unchangedWorld

\* The read-back: of a link the call created it must show what was asked for, of an
\* extra line always, of the order only that it is there.  An extra line that cannot
\* be read back is listed as failed instead of as written.  For a user, a token is
\* asked for with the password just set.
Doubted(done, s) == IF s = "extra" THEN {a \in done : a[1] # s} ELSE done

partUpsertLinkReadbackFailure(c, s) ==
  IF Fixture THEN Failure(c)
  ELSE Answer(c, "partial_failure", Doubted(actions[c], s) \cup {<<s, "failed">>}, {})

Verify(c) ==
  LET s == Now(c).slot
      r == CHOOSE r \in OfSlot(s) : r.id = held[c][s]
      bad == ~r.fits /\ (s \in {"extra", "user"} \/ (Upsert /\ <<s, "created">> \in actions[c]))
  IN  /\ Writing(c) /\ Now(c).op = "verify"
      /\ \/ /\ IF bad THEN partUpsertLinkReadbackFailure(c, s)
               ELSE Proceed(c, held[c], need[c], actions[c])
            /\ UNCHANGED <<failures, failed>>
         \/ /\ failures < MaxFailures /\ failures' = failures + 1
            /\ failed' = [failed EXCEPT ![c] = TRUE]
            /\ partUpsertLinkReadbackFailure(c, s)
      /\ unchangedWorld

-----------------------------------------------------------------------------
(* InvenTree and its other users.                                            *)

\* A write behind an error takes effect; by then its caller may have called again.
Lands(w) ==
  /\ late' = late \ {w}
  /\ records' = Stored(w)
  /\ meddled' = [d \in Callers |-> meddled[d] \/ (Busy(d) /\ (d # w.caller \/ w.call # calls))]
  /\ disturbed' = (disturbed \/ w.call # calls)
  /\ UNCHANGED <<input, call, answer, sent, failed, counts>>

ForeignWrite ==
  /\ foreign < MaxForeign /\ foreign' = foreign + 1
  /\ \/ \E r \in records : records' = (records \ {r}) \cup {[r EXCEPT !.fits = ~@]}
     \/ \E r \in records :
          records' = records \cup {[r EXCEPT !.id = NewId(r.slot), !.fits = TRUE]}
  /\ meddled' = [d \in Callers |-> meddled[d] \/ Busy(d)]
  /\ disturbed' = TRUE
  /\ UNCHANGED <<input, late, call, answer, sent, failed, calls, failures>>

\* What is there before: some of the records, on those they belong to, one of them
\* perhaps not as it should be.
There(S, odd) ==
  {[slot |-> s, id |-> 1, under |-> [p \in Parents[s] |-> 1], fits |-> s # odd] : s \in S}

Init ==
  /\ input \in Inputs
  /\ \E S \in SUBSET input.asks, odd \in Slots \cup {"none"} :
       /\ input.byId \subseteq S /\ \A s \in S : Parents[s] \subseteq S
       /\ odd \in S \cup {"none"}
       /\ records = There(S, odd)
  /\ late = {}
  /\ pass = [c \in Callers |-> "idle"] /\ at = [c \in Callers |-> 0]
  /\ held = [c \in Callers |-> Fresh] /\ need = [c \in Callers |-> Idle]
  /\ actions = [c \in Callers |-> {}]
  /\ answer = [c \in Callers |-> [kind |-> "none", actions |-> {}, remaining |-> {}]]
  /\ sent = [c \in Callers |-> {}]
  /\ meddled = [c \in Callers |-> FALSE] /\ failed = [c \in Callers |-> FALSE]
  /\ calls = 0 /\ failures = 0 /\ foreign = 0 /\ disturbed = FALSE

Next ==
  \/ \E c \in Callers :
       \/ \E dry \in BOOLEAN : Start(c, dry)
       \/ Look(c) \/ LookFails(c)
       \/ WriteAnswered(c) \/ WriteRejected(c) \/ WriteLost(c)
       \/ recoverExtraLine(c) \/ Verify(c)
  \/ \E w \in late : Lands(w)
  \/ ForeignWrite

Spec == Init /\ [][Next]_vars

-----------------------------------------------------------------------------
(* Properties.                                                               *)

Answered(c) == ~Busy(c) /\ answer[c].kind # "none"
Listed(c) == {a[1] : a \in answer[c].actions}

\* No answer of a tool hides a write.  An error, a rejected validation and a dry run are given
\* only when nothing can have been written; every other answer lists each slot a
\* write was sent for, what was acknowledged as done (an extra line perhaps as failed,
\* if it could not be read back) and what was not as failed or found again; and what
\* a part workflow did not come to is listed as remaining.
NothingHidden ==
  \A c \in Callers : Answered(c) /\ ~Fixture =>
    LET a == answer[c] IN
    /\ a.kind \in {"error", "validation_failed", "dry_run"} => \A w \in sent[c] : w.fate = "refused"
    /\ \A w \in sent[c] :
         CASE w.fate = "applied" ->
                \/ \E s \in {"created", "updated"} : <<w.slot, s>> \in a.actions
                \/ w.slot = "extra" /\ <<w.slot, "failed">> \in a.actions
           [] w.fate = "unknown" -> \E s \in {"failed", "recovered"} : <<w.slot, s>> \in a.actions
           [] OTHER -> <<w.slot, "failed">> \in a.actions
    /\ Upsert /\ a.kind \in {"ok", "partial_failure", "validation_failed"} =>
         input.asks \subseteq Listed(c) \cup a.remaining

\* Calling again until it works leaves one record in every place, under the records
\* it belongs to (among companies, of those with the role; a line and a fixture as it
\* should be), whatever failed before:
\* unless calls overlap, others write, or a write takes effect after its caller has
\* called again.
RetriesConverge ==
  ~disturbed =>
    /\ \A q, r \in records :
         q.slot = r.slot /\ (Fixture \/ (q.under = r.under /\ (q.slot \in Companies => q.fits = r.fits)))
           => q = r
    /\ \A c \in Callers : Answered(c) /\ answer[c].kind = "ok" =>
         \A s \in input.asks :
           <<s, "skipped">> \in answer[c].actions \/
             \E r \in records : r.slot = s /\ (Fixture \/ s \in {"line", "extra"} => r.fits)

\* A workflow stops in the middle only if a request of it failed, or somebody else
\* wrote in the meantime: what it can know to be missing it asks for before.
PartialForCause ==
  \A c \in Callers :
    Answered(c) /\ answer[c].kind \in {"partial_failure", "validation_failed"} =>
      failed[c] \/ meddled[c]
=============================================================================
