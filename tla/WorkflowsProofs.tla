---------------------------- MODULE WorkflowsProofs ----------------------------
(***************************************************************************)
(* Proofs about the tools that write several records in a row (Workflows), for  *)
(* every number of callers, of calls, of failures and of foreign writes, and     *)
(* every input of the two tools: no answer of upsert_part_workflow or of          *)
(* create_purchase_order_with_lines hides a write.                               *)
(*                                                                          *)
(* A call that runs is on course: whatever it sent is in its list of actions or    *)
(* is being recovered, it has sent nothing before the steps that may answer with   *)
(* a bare error, and every slot it has come past is listed.  Each way to answer    *)
(* is then checked against the position it is taken from.                          *)
(*                                                                          *)
(* A call that nothing came in the way of does not stop in the middle: the records *)
(* of a slot are numbered, so what a call holds is there; what the preflight found *)
(* of the records it looked up is what the run finds, save under a part or a        *)
(* company the run created itself, where there is nothing yet; and a link or a line  *)
(* the call wrote is there when it is read back.                                     *)
(*                                                                          *)
(* Calling again until it works leaves one record in every place: a slot that a     *)
(* call, of a tool or of a fixture, is about to create a record for has none yet,    *)
(* and neither has one that a write behind an error may still fill.                 *)
(***************************************************************************)
EXTENDS Workflows, WellFoundedInduction, FiniteSetTheorems, TLAPS

-----------------------------------------------------------------------------
(* The programs of the two tools, step by step.                               *)

ToolSteps(tool) ==
  IF tool = "upsert" THEN runPartUpsertWorkflow ELSE executePurchaseOrderWorkflow

LEMMA Passed == \A S \in SUBSET Nat : S # {} => Least(S) \in S /\ \A m \in S : Least(S) <= m
<1>1. SUFFICES ASSUME NEW S \in SUBSET Nat, S # {}
               PROVE  Least(S) \in S /\ \A m \in S : Least(S) <= m
  OBVIOUS
<1>2. PICK x \in S : \A y \in S : ~ (<<y, x>> \in OpToRel(<, Nat))
  BY <1>1, WFMin, NatLessThanWellFounded
<1>3. \A y \in S : x <= y
  <2>1. SUFFICES ASSUME NEW y \in S, y < x PROVE FALSE
    BY <1>1
  <2>2. <<y, x>> \in OpToRel(<, Nat)
    BY <1>1, <2>1 DEF OpToRel
  <2>3. QED BY <1>2, <2>1, <2>2
<1>4. QED BY <1>3 DEF Least

LEMMA SlotNames ==
  Slots = {"part", "manufacturer", "manufacturer_part", "supplier", "supplier_part", "order",
           "line", "extra", "category", "location", "assembly", "bom", "user"}
BY DEF Slots, HangsOn

\* The steps of the part workflow: each slot in its turn, looked up and then written.
LEMMA UpsertSteps ==
  LET P == ToolSteps("upsert") IN
  /\ Len(P) = 12
  /\ P[1] = Step("look", "part") /\ P[2] = Step("write", "part")
  /\ P[3] = Step("look", "manufacturer") /\ P[4] = Step("write", "manufacturer")
  /\ P[5] = Step("look", "manufacturer_part") /\ P[6] = Step("write", "manufacturer_part")
  /\ P[7] = Step("look", "supplier") /\ P[8] = Step("write", "supplier")
  /\ P[9] = Step("look", "supplier_part") /\ P[10] = Step("write", "supplier_part")
  /\ P[11] = Step("verify", "manufacturer_part") /\ P[12] = Step("verify", "supplier_part")
BY DEF ToolSteps, runPartUpsertWorkflow, resolveWorkflowPart, resolveWorkflowCompany,
       resolveWorkflowManufacturerPart, resolveWorkflowSupplierPart, verifyPartUpsertLinks,
       LookAndCreate

LEMMA OrderSteps ==
  LET P == ToolSteps("order") IN
  /\ Len(P) = 10
  /\ P[1] = Step("look", "supplier") /\ P[2] = Step("look", "order")
  /\ P[3] = Step("create", "order")
  /\ P[4] = Step("look", "line") /\ P[5] = Step("look", "extra")
  /\ P[6] = Step("update", "order") /\ P[7] = Step("write", "line")
  /\ P[8] = Step("write", "extra") /\ P[9] = Step("verify", "extra")
  /\ P[10] = Step("verify", "order")
BY DEF ToolSteps, executePurchaseOrderWorkflow, OrderFirst, WhatItHas, OrderPatch, LineWrites,
       ExtraLineWrites, Totals

\* Where a slot of the part workflow is looked up and written.
LEMMA UpsertTurns ==
  /\ \A k \in 1..12 :
       LET step == ToolSteps("upsert")[k] IN
       /\ step.slot \in PartSlots
       /\ step.op \in {"look", "write", "verify"}
       /\ step.op = "look" => k = 2 * Turn(step.slot) - 1
       /\ step.op = "write" => k = 2 * Turn(step.slot)
       /\ step.op = "verify" => k > 10
       /\ step.slot = "supplier_part" /\ step.op = "look" => k = 9
  /\ \A t \in PartSlots :
       /\ Turn(t) \in 1..5
       /\ ToolSteps("upsert")[2 * Turn(t) - 1] = Step("look", t)
       /\ ToolSteps("upsert")[2 * Turn(t)] = Step("write", t)
       /\ \A u \in PartSlots : Turn(t) = Turn(u) => t = u
<1> DEFINE P == ToolSteps("upsert")
<1>1. /\ Turn("part") = 1 /\ Turn("manufacturer") = 2 /\ Turn("manufacturer_part") = 3
      /\ Turn("supplier") = 4 /\ Turn("supplier_part") = 5
  BY DEF Turn
<1>2. \A k \in 1..12 :
        \/ k = 1 \/ k = 2 \/ k = 3 \/ k = 4 \/ k = 5 \/ k = 6 \/ k = 7 \/ k = 8 \/ k = 9 \/ k = 10
        \/ k = 11 \/ k = 12
  OBVIOUS
<1> HIDE DEF P
<1>3. /\ P[1] = Step("look", "part") /\ P[2] = Step("write", "part")
      /\ P[3] = Step("look", "manufacturer") /\ P[4] = Step("write", "manufacturer")
      /\ P[5] = Step("look", "manufacturer_part") /\ P[6] = Step("write", "manufacturer_part")
      /\ P[7] = Step("look", "supplier") /\ P[8] = Step("write", "supplier")
      /\ P[9] = Step("look", "supplier_part") /\ P[10] = Step("write", "supplier_part")
      /\ P[11] = Step("verify", "manufacturer_part") /\ P[12] = Step("verify", "supplier_part")
  BY UpsertSteps DEF P
<1>4. \A k \in 1..12 :
        /\ P[k].slot \in PartSlots
        /\ P[k].op \in {"look", "write", "verify"}
        /\ P[k].op = "look" => k = 2 * Turn(P[k].slot) - 1
        /\ P[k].op = "write" => k = 2 * Turn(P[k].slot)
        /\ P[k].op = "verify" => k > 10
        /\ P[k].slot = "supplier_part" /\ P[k].op = "look" => k = 9
  BY <1>1, <1>2, <1>3 DEF Step, PartSlots
<1>5. \A t \in PartSlots :
        /\ Turn(t) \in 1..5
        /\ P[2 * Turn(t) - 1] = Step("look", t)
        /\ P[2 * Turn(t)] = Step("write", t)
        /\ \A u \in PartSlots : Turn(t) = Turn(u) => t = u
  BY <1>1, <1>3 DEF PartSlots
<1>6. QED BY <1>4, <1>5 DEF P

\* Only the first two lookups of an order come before its first write.
LEMMA OrderTurns ==
  /\ \A k \in 1..10 :
       LET step == ToolSteps("order")[k] IN
       /\ step.op \in {"look", "create", "update", "write", "verify"}
       /\ step.op = "look" /\ step.slot \in {"supplier", "order"} => k <= 2
       /\ step.op # "look" => k >= 3
       /\ step.op \in {"create", "update", "write"} /\ step.slot = "extra" => step = Step("write", "extra")
  /\ ToolSteps("order")[1] = Step("look", "supplier")
<1> DEFINE P == ToolSteps("order")
<1>2. \A k \in 1..10 :
        \/ k = 1 \/ k = 2 \/ k = 3 \/ k = 4 \/ k = 5 \/ k = 6 \/ k = 7 \/ k = 8 \/ k = 9 \/ k = 10
  OBVIOUS
<1> HIDE DEF P
<1>3. /\ P[1] = Step("look", "supplier") /\ P[2] = Step("look", "order")
      /\ P[3] = Step("create", "order")
      /\ P[4] = Step("look", "line") /\ P[5] = Step("look", "extra")
      /\ P[6] = Step("update", "order") /\ P[7] = Step("write", "line")
      /\ P[8] = Step("write", "extra") /\ P[9] = Step("verify", "extra")
      /\ P[10] = Step("verify", "order")
  BY OrderSteps DEF P
<1>4. \A k \in 1..10 :
        /\ P[k].op \in {"look", "create", "update", "write", "verify"}
        /\ P[k].op = "look" /\ P[k].slot \in {"supplier", "order"} => k <= 2
        /\ P[k].op # "look" => k >= 3
        /\ P[k].op \in {"create", "update", "write"} /\ P[k].slot = "extra" => P[k] = Step("write", "extra")
  BY <1>2, <1>3 DEF Step
<1>5. QED BY <1>3, <1>4 DEF P

-----------------------------------------------------------------------------
(* A call of a tool with the input i.                                         *)

IsUpsert(i) == i.tool = "upsert"
Noted(s, done) == \E a \in done : a[1] = s

\* The account an answer gives of the writes that were sent.
Reported(w, done) ==
  /\ w.fate = "applied" =>
       \/ \E s \in {"created", "updated"} : <<w.slot, s>> \in done
       \/ w.slot = "extra" /\ <<w.slot, "failed">> \in done
  /\ w.fate = "unknown" => \E s \in {"failed", "recovered"} : <<w.slot, s>> \in done
  /\ w.fate \notin {"applied", "unknown"} => <<w.slot, "failed">> \in done
Accounts(i, a, writes) ==
  /\ a.kind \in {"error", "validation_failed", "dry_run"} => \A w \in writes : w.fate = "refused"
  /\ \A w \in writes : Reported(w, a.actions)
  /\ IsUpsert(i) /\ a.kind \in {"ok", "partial_failure", "validation_failed"} =>
       \A s \in i.asks : Noted(s, a.actions) \/ s \in a.remaining

\* A write of a call that still runs.
Settled(i, w, done) ==
  \/ w.fate = "applied" /\ \E s \in {"created", "updated"} : <<w.slot, s>> \in done
  \/ w.fate = "unknown" /\ w.slot = "extra" /\ ~IsUpsert(i) /\ <<"extra", "recovered">> \in done

\* Where a call is, and what it may have sent by then.
Position(i, p, k) ==
  /\ p \in {"dry_run", "preflight", "run"} /\ (p = "preflight" => IsUpsert(i))
  /\ k \in 1..Len(ToolSteps(i.tool))
  /\ ToolSteps(i.tool)[k].slot \in i.asks
  /\ ToolSteps(i.tool)[k].op = "look" \/ p = "run"
FirstWrite(i) == IF IsUpsert(i) THEN 2 ELSE 3
HasSku(i) == "supplier_part" \in i.asks => i.sku

\* The slots of the part workflow that a call has come past.
Sought(i, k, done) ==
  \A t \in i.asks : 2 * Turn(t) - 1 < k => Noted(t, done) \/ k = 2 * Turn(t)

OnCourse(i, p, k, needs, done, writes) ==
  /\ Position(i, p, k)
  /\ writes # {} => p = "run" /\ k > FirstWrite(i) - 1
  /\ \A w \in writes :
       \/ Settled(i, w, done)
       \/ w.fate = "unknown" /\ w.slot = "extra" /\ ~IsUpsert(i) /\ needs["extra"] = "recovery"
  /\ \A t \in Slots : needs[t] = "recovery" =>
       t = "extra" /\ ToolSteps(i.tool)[k] = Step("write", "extra") /\ ~IsUpsert(i)
  /\ p # "run" => ~Applied(done)
  /\ p = "run" /\ IsUpsert(i) => HasSku(i) /\ Sought(i, k, done)

CallInv(i, p, k, needs, done, a, writes) ==
  IF p = "idle" THEN needs = Idle /\ done = {} /\ (a.kind # "none" => Accounts(i, a, writes))
  ELSE OnCourse(i, p, k, needs, done, writes)

Shape ==
  /\ input \in Inputs
  /\ DOMAIN pass = Callers /\ DOMAIN at = Callers /\ DOMAIN need = Callers
  /\ DOMAIN actions = Callers /\ DOMAIN answer = Callers /\ DOMAIN sent = Callers
  /\ \A c \in Callers : DOMAIN need[c] = Slots

CallsInv ==
  ~Fixture => \A c \in Callers :
    CallInv(input, pass[c], at[c], need[c], actions[c], answer[c], sent[c])

IInv == Shape /\ CallsInv

-----------------------------------------------------------------------------
(* Moving on, and answering.                                                  *)

\* What an action does to the call of c, and to no other.
Others(c) ==
  /\ DOMAIN pass' = Callers /\ DOMAIN at' = Callers /\ DOMAIN need' = Callers
  /\ DOMAIN actions' = Callers /\ DOMAIN answer' = Callers
  /\ \A d \in Callers : DOMAIN need'[d] = Slots
  /\ \A d \in Callers \ {c} :
       /\ pass'[d] = pass[d] /\ at'[d] = at[d] /\ need'[d] = need[d]
       /\ actions'[d] = actions[d] /\ answer'[d] = answer[d]

\* The input is one of the tools'.
LEMMA Asked ==
  ASSUME InputAssumption, Shape, ~Fixture
  PROVE  /\ IsUpsert(input) <=> Upsert
         /\ Program = ToolSteps(input.tool)
         /\ input.asks \subseteq Slots
         /\ IsUpsert(input) => input.tool = "upsert" /\ "part" \in input.asks /\ input.asks \subseteq PartSlots
         /\ ~IsUpsert(input) => input.tool = "order" /\ {"supplier", "order"} \subseteq input.asks
                              /\ input.asks \subseteq OrderSlots
<1>1. input \in Inputs /\ input.tool \in {"upsert", "order", "fixture"} /\ input.asks \subseteq Slots
  BY DEF InputAssumption, InputOK, Shape, Input
<1>2. input.tool # "fixture"
  BY DEF Fixture
<1>3. Program = ToolSteps(input.tool)
  BY <1>1, <1>2 DEF Program, ToolSteps, Upsert, Fixture
<1>4. QED BY <1>1, <1>2, <1>3 DEF InputAssumption, InputOK, IsUpsert, Upsert

\* An answer ends the call of c.
LEMMA AnswerEnds ==
  ASSUME Shape, NEW c \in Callers, NEW kind, NEW done, NEW remaining,
         Answer(c, kind, done, remaining)
  PROVE  /\ Others(c)
         /\ pass'[c] = "idle" /\ need'[c] = Idle /\ actions'[c] = {}
         /\ answer'[c] = [kind |-> kind, actions |-> done, remaining |-> remaining]
<1>1. DOMAIN Idle = Slots
  BY DEF Idle
<1>2. /\ DOMAIN pass' = Callers /\ DOMAIN at' = Callers /\ DOMAIN need' = Callers
      /\ DOMAIN actions' = Callers /\ DOMAIN answer' = Callers
  BY DEF Answer, Shape
<1>3. /\ pass'[c] = "idle" /\ need'[c] = Idle /\ actions'[c] = {}
      /\ answer'[c] = [kind |-> kind, actions |-> done, remaining |-> remaining]
  BY DEF Answer, Shape
<1>4. \A d \in Callers \ {c} :
        /\ pass'[d] = pass[d] /\ at'[d] = at[d] /\ need'[d] = need[d]
        /\ actions'[d] = actions[d] /\ answer'[d] = answer[d]
  BY DEF Answer, Shape
<1>5. \A d \in Callers : DOMAIN need'[d] = Slots
  BY <1>1, <1>3, <1>4 DEF Shape
<1>6. QED BY <1>2, <1>3, <1>4, <1>5 DEF Others

\* The steps after the present one: each is due, and no lookup that is asked for is left out.
LEMMA StepsAfter ==
  ASSUME InputAssumption, Shape, ~Fixture, NEW n \in Nat, NEW p, NEW needs, NEW holds
  PROVE  LET next == After(n, p, needs, holds)
             P == ToolSteps(input.tool)
         IN  /\ next \in SUBSET Nat
             /\ \A k \in next : /\ k \in (n + 1)..Len(P) /\ P[k].slot \in input.asks
                                /\ P[k].op = "look" \/ p = "run"
             /\ \A k \in (n + 1)..Len(P) :
                  /\ P[k].slot \in input.asks /\ P[k].op = "look" => k \in next
                  /\ P[k].slot \in input.asks /\ P[k].op = "write" /\ p = "run"
                       /\ needs[P[k].slot] # "nothing" => k \in next
<1> DEFINE next == After(n, p, needs, holds)
<1> DEFINE P == ToolSteps(input.tool)
<1>1. Program = P
  BY Asked
<1>2. next = {k \in (n + 1)..Len(P) : Due(p, needs, holds, P[k])}
  BY <1>1 DEF After
<1>3. Len(P) \in Nat
  BY Asked, UpsertSteps, OrderSteps
<1> HIDE DEF next, P
<1>4. next \in SUBSET Nat
  BY <1>2, <1>3
<1>5. ASSUME NEW step, Due(p, needs, holds, step)
      PROVE  step.slot \in input.asks /\ (step.op = "look" \/ p = "run")
  BY <1>5 DEF Due
<1>6. ASSUME NEW step, step.slot \in input.asks, step.op = "look"
      PROVE  Due(p, needs, holds, step)
  BY <1>6 DEF Due
<1>7. ASSUME NEW step, step.slot \in input.asks, step.op = "write", p = "run",
             needs[step.slot] # "nothing"
      PROVE  Due(p, needs, holds, step)
  BY <1>7 DEF Due
<1>8. QED BY <1>2, <1>3, <1>4, <1>5, <1>6, <1>7 DEF next, P

\* What a step must have seen to before the call may proceed.
Ready(i, p, k, needs, done, writes) ==
  /\ Position(i, p, k)
  /\ writes # {} => p = "run" /\ k >= FirstWrite(i)
  /\ \A w \in writes : Settled(i, w, done)
  /\ DOMAIN needs = Slots /\ \A t \in Slots : needs[t] # "recovery"
  /\ p = "preflight" /\ k = 9 => i.sku
  /\ p # "run" => ~Applied(done)
  /\ p = "run" /\ IsUpsert(i) =>
       /\ HasSku(i)
       /\ \A t \in i.asks : 2 * Turn(t) - 1 <= k =>
            Noted(t, done) \/ (k = 2 * Turn(t) - 1 /\ needs[t] # "nothing")

LEMMA Reports ==
  ASSUME NEW i, NEW w, NEW done, Settled(i, w, done)
  PROVE  Reported(w, done)
BY DEF Settled, Reported

LEMMA Proceeding ==
  ASSUME InputAssumption, Shape, ~Fixture, NEW c \in Callers, NEW holds, NEW needs, NEW done,
         NEW writes, Ready(input, pass[c], at[c], needs, done, writes),
         Proceed(c, holds, needs, done)
  PROVE  /\ Others(c)
         /\ CallInv(input, pass'[c], at'[c], need'[c], actions'[c], answer'[c], writes)
<1> DEFINE p == pass[c]
<1> DEFINE k == at[c]
<1> DEFINE P == ToolSteps(input.tool)
<1> DEFINE next == After(k, p, needs, holds)
<1>1. /\ Position(input, p, k) /\ k \in 1..Len(P) /\ Len(P) \in Nat /\ k \in Nat
      /\ p \in {"dry_run", "preflight", "run"} /\ (p = "preflight" => IsUpsert(input))
  <2>1. Len(P) \in Nat
    BY Asked, UpsertSteps, OrderSteps
  <2>2. QED BY <2>1 DEF Ready, Position
<1>2. /\ next \in SUBSET Nat
      /\ \A m \in next : /\ m \in (k + 1)..Len(P) /\ P[m].slot \in input.asks
                         /\ P[m].op = "look" \/ p = "run"
      /\ \A m \in (k + 1)..Len(P) :
           /\ P[m].slot \in input.asks /\ P[m].op = "look" => m \in next
           /\ P[m].slot \in input.asks /\ P[m].op = "write" /\ p = "run"
                /\ needs[P[m].slot] # "nothing" => m \in next
  BY <1>1, StepsAfter
<1>3. DOMAIN needs = Slots /\ \A t \in Slots : needs[t] # "recovery"
  BY DEF Ready
<1>4. \A w \in writes : Settled(input, w, done)
  BY DEF Ready
<1>5. IsUpsert(input) => /\ P = ToolSteps("upsert") /\ Len(P) = 12 /\ input.asks \subseteq PartSlots
                         /\ "part" \in input.asks
  BY Asked, UpsertSteps
<1>6. p = "run" /\ IsUpsert(input) =>
       /\ HasSku(input)
       /\ \A t \in input.asks : 2 * Turn(t) - 1 <= k =>
            Noted(t, done) \/ (k = 2 * Turn(t) - 1 /\ needs[t] # "nothing")
  BY DEF Ready
<1>7. writes # {} => p = "run" /\ k >= FirstWrite(input) /\ FirstWrite(input) \in {2, 3}
  BY DEF Ready, FirstWrite
<1>8. /\ p = "preflight" /\ k = 9 => input.sku
      /\ p # "run" => ~Applied(done)
  BY DEF Ready
<1>9. IsUpsert(input) => \A t \in input.asks :
        /\ Turn(t) \in 1..5 /\ P[2 * Turn(t) - 1] = Step("look", t)
        /\ P[2 * Turn(t)] = Step("write", t)
  BY <1>5, UpsertTurns
\* What is asked for and was not looked up lies ahead.
<1> HIDE DEF p, k, P
<1>10. ASSUME IsUpsert(input), NEW t \in input.asks, 2 * Turn(t) - 1 > k
       PROVE  2 * Turn(t) - 1 \in next
  <2> DEFINE m == 2 * Turn(t) - 1
  <2>1. Turn(t) \in 1..5 /\ P[m] = Step("look", t)
    BY <1>9, <1>10
  <2>2. m \in (k + 1)..Len(P)
    BY <1>1, <1>5, <1>10, <2>1
  <2> HIDE DEF m, next
  <2>3. P[m].slot \in input.asks /\ P[m].op = "look"
    BY <1>10, <2>1 DEF Step
  <2>4. m \in next
    BY <1>2, <2>2, <2>3
  <2>5. QED BY <2>4 DEF m
<1>11. ASSUME IsUpsert(input), p = "run", NEW t \in input.asks, k = 2 * Turn(t) - 1,
              needs[t] # "nothing"
       PROVE  2 * Turn(t) \in next
  <2> DEFINE m == 2 * Turn(t)
  <2>1. Turn(t) \in 1..5 /\ P[m] = Step("write", t)
    BY <1>9, <1>11
  <2>2. m \in (k + 1)..Len(P)
    BY <1>1, <1>5, <1>11, <2>1
  <2> HIDE DEF m, next
  <2>3. P[m].slot \in input.asks /\ P[m].op = "write" /\ needs[P[m].slot] # "nothing"
    BY <1>11, <2>1 DEF Step
  <2>4. m \in next
    BY <1>2, <1>11, <2>2, <2>3
  <2>5. QED BY <2>4 DEF m
<1> HIDE DEF next
<1>12. CASE next # {}
  <2> DEFINE m == Least(next)
  <2>1. m \in next /\ \A n \in next : m <= n
    BY <1>2, <1>12, Passed
  <2> HIDE DEF m
  <2>2. /\ at' = [at EXCEPT ![c] = m] /\ need' = [need EXCEPT ![c] = needs]
        /\ actions' = [actions EXCEPT ![c] = done] /\ UNCHANGED <<pass, answer>>
    BY <1>12 DEF Proceed, next, m, p, k
  <2>3. Others(c) /\ at'[c] = m /\ need'[c] = needs /\ actions'[c] = done /\ pass'[c] = p
    BY <2>2, <1>3 DEF Others, Shape, p
  <2>4. m \in (k + 1)..Len(P) /\ m \in Nat
    BY <2>1, <1>1, <1>2
  <2>5. Position(input, p, m)
    BY <1>1, <1>2, <2>1, <2>4 DEF Position, P
  <2>6. writes # {} => p = "run" /\ m > FirstWrite(input) - 1
    BY <1>1, <1>7, <2>4
  <2>7. p = "run" /\ IsUpsert(input) => HasSku(input) /\ Sought(input, m, done)
    <3>1. SUFFICES ASSUME p = "run", IsUpsert(input), NEW t \in input.asks, 2 * Turn(t) - 1 < m
                   PROVE  Noted(t, done) \/ m = 2 * Turn(t)
      BY <1>6 DEF Sought
    <3>2. Turn(t) \in 1..5
      BY <1>9, <3>1
    <3>3. 2 * Turn(t) - 1 <= k
      BY <1>1, <1>10, <2>1, <2>4, <3>1, <3>2
    <3>4. CASE k = 2 * Turn(t) - 1 /\ needs[t] # "nothing"
      <4>1. m <= 2 * Turn(t)
        BY <1>11, <2>1, <3>1, <3>4
      <4>2. QED BY <4>1, <2>4, <1>1, <3>2, <3>4
    <3>5. QED BY <1>6, <3>1, <3>3, <3>4
  <2>8. OnCourse(input, p, m, needs, done, writes)
    BY <1>3, <1>4, <1>8, <2>5, <2>6, <2>7 DEF OnCourse
  <2>9. QED BY <1>1, <2>3, <2>8 DEF CallInv
<1>13. CASE next = {} /\ p = "preflight"
  <2> DEFINE first == After(0, "run", Idle, Fresh)
  <2>1. /\ pass' = [pass EXCEPT ![c] = "run"] /\ at' = [at EXCEPT ![c] = Least(first)]
        /\ need' = [need EXCEPT ![c] = Idle] /\ actions' = [actions EXCEPT ![c] = {}]
        /\ UNCHANGED answer
    BY <1>13 DEF Proceed, next, p, k
  <2>2. IsUpsert(input)
    BY <1>1, <1>13
  <2>3. /\ first \in SUBSET Nat /\ \A n \in first : n \in 1..Len(P)
        /\ \A n \in 1..Len(P) : P[n].slot \in input.asks /\ P[n].op = "look" => n \in first
    <3>1. 0 + 1 = 1
      OBVIOUS
    <3>2. QED BY <3>1, StepsAfter DEF P
  <2>4. P[1] = Step("look", "part") /\ 1 \in 1..Len(P)
    BY <1>5, <2>2, UpsertSteps
  <2>5. 1 \in first
    BY <1>5, <2>2, <2>3, <2>4 DEF Step
  <2>6. Least(first) = 1
    <3>1. Least(first) \in first /\ Least(first) <= 1
      BY <2>3, <2>5, Passed
    <3>2. QED BY <3>1, <2>3, <1>1
  <2> HIDE DEF first
  <2>7. DOMAIN Idle = Slots /\ \A t \in Slots : Idle[t] # "recovery"
    BY DEF Idle
  <2>8. Others(c) /\ at'[c] = 1 /\ need'[c] = Idle /\ actions'[c] = {} /\ pass'[c] = "run"
    BY <2>1, <2>6, <2>7 DEF Others, Shape
  <2>9. Position(input, "run", 1)
    BY <1>5, <2>2, <2>4 DEF Position, Step, P
  <2>10. writes = {}
    BY <1>7, <1>13
  <2>11. Sought(input, 1, {})
    BY <1>9, <2>2 DEF Sought
  <2>12. HasSku(input)
    <3>1. SUFFICES ASSUME "supplier_part" \in input.asks PROVE input.sku
      BY DEF HasSku
    <3>2. Turn("supplier_part") = 5
      BY DEF Turn
    <3>3. k >= 9
      BY <1>1, <1>10, <1>13, <2>2, <3>1, <3>2
    <3>4. P[k].op = "look"
      BY <1>1, <1>13 DEF Position, P
    <3>5. k <= 9
      <4>1. k = 2 * Turn(P[k].slot) - 1 /\ P[k].slot \in PartSlots
        BY <1>1, <1>5, <2>2, <3>4, UpsertTurns
      <4>2. Turn(P[k].slot) \in 1..5
        BY <4>1, UpsertTurns
      <4>3. QED BY <4>1, <4>2, <1>1
    <3>6. QED BY <1>1, <1>8, <1>13, <3>3, <3>5
  <2>13. OnCourse(input, "run", 1, Idle, {}, writes)
    BY <2>7, <2>9, <2>10, <2>11, <2>12 DEF OnCourse
  <2>14. QED BY <2>8, <2>13 DEF CallInv
<1>14. CASE next = {} /\ p # "preflight"
  <2> DEFINE kind == IF p = "run" THEN "ok" ELSE "dry_run"
  <2>1. Answer(c, kind, done, {})
    BY <1>14 DEF Proceed, next, p, k
  <2>0. (kind = "ok" => p = "run") /\ (kind = "dry_run" => p # "run") /\ kind \in {"ok", "dry_run"}
    OBVIOUS
  <2> HIDE DEF kind
  <2>2. /\ Others(c) /\ pass'[c] = "idle" /\ need'[c] = Idle /\ actions'[c] = {}
        /\ answer'[c] = [kind |-> kind, actions |-> done, remaining |-> {}]
    BY <2>1, AnswerEnds
  <2>3. \A w \in writes : Reported(w, done)
    BY <1>4, Reports
  <2>4. kind = "dry_run" => writes = {}
    BY <1>7, <2>0
  <2>6. ASSUME IsUpsert(input), kind = "ok", NEW s \in input.asks
        PROVE  Noted(s, done)
    <3>1. p = "run" /\ Turn(s) \in 1..5
      BY <1>9, <2>0, <2>6
    <3>2. 2 * Turn(s) - 1 <= k
      BY <1>1, <1>10, <1>14, <2>6, <3>1
    <3>3. ~ (k = 2 * Turn(s) - 1 /\ needs[s] # "nothing")
      BY <1>11, <1>14, <2>6, <3>1
    <3>4. QED BY <1>6, <2>6, <3>1, <3>2, <3>3
  <2>5. Accounts(input, answer'[c], writes)
    BY <2>2, <2>0, <2>3, <2>4, <2>6 DEF Accounts
  <2>7. QED BY <2>2, <2>5 DEF CallInv
<1>15. QED BY <1>12, <1>13, <1>14

-----------------------------------------------------------------------------
(* Where a call is when it takes a step.                                      *)

LEMMA Running ==
  ASSUME InputAssumption, IInv, ~Fixture, NEW c \in Callers, Busy(c)
  PROVE  /\ OnCourse(input, pass[c], at[c], need[c], actions[c], sent[c])
         /\ Position(input, pass[c], at[c])
         /\ Now(c) = ToolSteps(input.tool)[at[c]] /\ Now(c).slot \in input.asks
         /\ Now(c).slot \in Slots
         /\ IsUpsert(input) => at[c] \in 1..12 /\ Now(c) = ToolSteps("upsert")[at[c]]
         /\ ~IsUpsert(input) => at[c] \in 1..10 /\ Now(c) = ToolSteps("order")[at[c]]
         /\ DOMAIN need[c] = Slots
<1>1. OnCourse(input, pass[c], at[c], need[c], actions[c], sent[c])
  BY DEF IInv, CallsInv, CallInv, Busy
<1>2. Position(input, pass[c], at[c])
  BY <1>1 DEF OnCourse
<1>3. Shape
  BY DEF IInv
<1>4. Now(c) = ToolSteps(input.tool)[at[c]]
  BY <1>3, Asked DEF Now
<1>5. Now(c).slot \in input.asks
  BY <1>2, <1>4 DEF Position
<1>6. /\ IsUpsert(input) => at[c] \in 1..12 /\ Now(c) = ToolSteps("upsert")[at[c]]
      /\ ~IsUpsert(input) => at[c] \in 1..10 /\ Now(c) = ToolSteps("order")[at[c]]
  <2>1. at[c] \in 1..Len(ToolSteps(input.tool))
    BY <1>2 DEF Position
  <2>2. /\ IsUpsert(input) => input.tool = "upsert"
        /\ ~IsUpsert(input) => input.tool = "order"
    BY <1>3, Asked
  <2>3. Len(ToolSteps("upsert")) = 12 /\ Len(ToolSteps("order")) = 10
    BY UpsertSteps, OrderSteps
  <2>4. QED BY <1>4, <2>1, <2>2, <2>3
<1>7. QED BY <1>1, <1>2, <1>3, <1>4, <1>5, <1>6, Asked DEF Shape

\* Unless an extra line is being recovered, all that was sent is settled.
LEMMA AllSettled ==
  ASSUME InputAssumption, IInv, ~Fixture, NEW c \in Callers, Busy(c),
         Now(c).op # "write" \/ need[c][Now(c).slot] # "recovery"
  PROVE  /\ \A t \in Slots : need[c][t] # "recovery"
         /\ \A w \in sent[c] : Settled(input, w, actions[c])
<1>1. /\ OnCourse(input, pass[c], at[c], need[c], actions[c], sent[c])
      /\ Now(c) = ToolSteps(input.tool)[at[c]]
  BY Running
<1>2. \A t \in Slots : need[c][t] # "recovery"
  <2>1. SUFFICES ASSUME NEW t \in Slots, need[c][t] = "recovery" PROVE FALSE
    OBVIOUS
  <2>2. t = "extra" /\ Now(c) = Step("write", "extra")
    BY <1>1, <2>1 DEF OnCourse
  <2>3. QED BY <2>1, <2>2 DEF Step
<1>3. "extra" \in Slots
  BY SlotNames
<1>4. QED BY <1>1, <1>2, <1>3 DEF OnCourse

\* What is listed of a call stays listed.
LEMMA Relisted ==
  ASSUME NEW i, NEW w, NEW done, NEW more, done \subseteq more, Settled(i, w, done)
  PROVE  Settled(i, w, more)
BY DEF Settled

\* A part workflow that stops lists what it came past, and what it did not.
LEMMA StoppedAccounts ==
  ASSUME InputAssumption, IInv, ~Fixture, NEW c \in Callers, Busy(c), IsUpsert(input), pass[c] = "run",
         Now(c).op \in {"look", "write"}
  PROVE  \A t \in input.asks :
           \/ Noted(t, actions[c] \cup {<<Now(c).slot, "failed">>})
           \/ t \in remainingPartUpsertActions(Now(c).slot)
<1> DEFINE s == Now(c).slot
<1> DEFINE k == at[c]
<1>1. /\ k \in 1..12 /\ s \in input.asks /\ Now(c) = ToolSteps("upsert")[k]
      /\ Sought(input, k, actions[c])
  BY Running DEF OnCourse
<1>2. input.asks \subseteq PartSlots
  BY Asked DEF IInv
<1>3. /\ Turn(s) \in 1..5
      /\ k = 2 * Turn(s) - 1 \/ k = 2 * Turn(s)
  BY <1>1, <1>2, UpsertTurns
<1> HIDE DEF s, k
<1>4. SUFFICES ASSUME NEW t \in input.asks, ~ (t \in remainingPartUpsertActions(s))
               PROVE  Noted(t, actions[c] \cup {<<s, "failed">>})
  BY DEF s
<1>5. Turn(t) \in 1..5 /\ (Turn(t) = Turn(s) => t = s)
  BY <1>1, <1>2, <1>4, UpsertTurns
<1>6. ~ (Turn(t) > Turn(s))
  BY <1>4 DEF remainingPartUpsertActions
<1>7. CASE Turn(t) = Turn(s)
  <2>1. <<s, "failed">>[1] = t
    BY <1>5, <1>7
  <2>2. QED BY <2>1 DEF Noted
<1>8. CASE Turn(t) < Turn(s)
  <2>1. 2 * Turn(t) - 1 < k /\ k # 2 * Turn(t)
    BY <1>3, <1>5, <1>8
  <2>2. Noted(t, actions[c])
    BY <1>1, <2>1 DEF Sought
  <2>3. QED BY <2>2 DEF Noted
<1>9. QED BY <1>3, <1>5, <1>6, <1>7, <1>8

\* Before the first acknowledged write a part workflow has sent nothing.
LEMMA NothingSent ==
  ASSUME InputAssumption, IInv, ~Fixture, NEW c \in Callers, Busy(c), IsUpsert(input),
         \/ ~Applied(actions[c]) /\ (Now(c).op # "write" \/ need[c][Now(c).slot] # "recovery")
         \/ Now(c).op = "look" /\ Now(c).slot = "part"
  PROVE  sent[c] = {}
<1>1. CASE ~Applied(actions[c]) /\ (Now(c).op # "write" \/ need[c][Now(c).slot] # "recovery")
  <2>1. SUFFICES ASSUME NEW w \in sent[c] PROVE FALSE
    OBVIOUS
  <2>2. Settled(input, w, actions[c])
    BY <1>1, AllSettled
  <2>3. PICK s \in {"created", "updated"} : <<w.slot, s>> \in actions[c]
    BY <2>2 DEF Settled
  <2>4. <<w.slot, s>>[2] \in {"created", "updated"}
    BY <2>3
  <2>5. QED BY <1>1, <2>3, <2>4 DEF Applied
<1>2. CASE Now(c).op = "look" /\ Now(c).slot = "part"
  <2>1. at[c] \in 1..12 /\ Now(c) = ToolSteps("upsert")[at[c]]
    BY Running
  <2>2. at[c] = 2 * Turn("part") - 1
    BY <1>2, <2>1, UpsertTurns
  <2>3. Turn("part") = 1
    BY DEF Turn
  <2>4. ~ (at[c] > FirstWrite(input) - 1)
    BY <2>1, <2>2, <2>3 DEF FirstWrite
  <2>5. QED BY <2>4, Running DEF OnCourse
<1>3. QED BY <1>1, <1>2

-----------------------------------------------------------------------------
(* The ways to answer.                                                        *)

LEMMA Ends ==
  ASSUME Shape, NEW c \in Callers, NEW kind, NEW done, NEW remaining, NEW writes,
         Answer(c, kind, done, remaining),
         kind \in {"error", "validation_failed", "dry_run"} => \A w \in writes : w.fate = "refused",
         \A w \in writes : Reported(w, done),
         IsUpsert(input) /\ kind \in {"ok", "partial_failure", "validation_failed"} =>
           \A s \in input.asks : Noted(s, done) \/ s \in remaining
  PROVE  CallInv(input, pass'[c], at'[c], need'[c], actions'[c], answer'[c], writes)
<1>1. /\ pass'[c] = "idle" /\ need'[c] = Idle /\ actions'[c] = {}
      /\ answer'[c] = [kind |-> kind, actions |-> done, remaining |-> remaining]
  BY AnswerEnds
<1>2. Accounts(input, [kind |-> kind, actions |-> done, remaining |-> remaining], writes)
  BY DEF Accounts
<1>3. QED BY <1>1, <1>2 DEF CallInv

\* A bare error, when nothing was sent.
LEMMA FailureInv ==
  ASSUME Shape, NEW c \in Callers, Failure(c)
  PROVE  CallInv(input, pass'[c], at'[c], need'[c], actions'[c], answer'[c], {})
BY Ends DEF Failure

\* What was sent and is settled is reported by a list with a failed slot more.
LEMMA ReportsMore ==
  ASSUME InputAssumption, IInv, ~Fixture, NEW c \in Callers, Busy(c),
         Now(c).op # "write" \/ need[c][Now(c).slot] # "recovery",
         NEW more, actions[c] \subseteq more
  PROVE  \A w \in sent[c] : Reported(w, more)
BY AllSettled, Relisted, Reports

LEMMA StoppedInv ==
  ASSUME InputAssumption, IInv, ~Fixture, NEW c \in Callers, Busy(c), IsUpsert(input), pass[c] = "run",
         Now(c).op = "look", Stopped(c, Now(c).slot)
  PROVE  CallInv(input, pass'[c], at'[c], need'[c], actions'[c], answer'[c], sent[c])
<1> DEFINE more == actions[c] \cup {<<Now(c).slot, "failed">>}
<1>1. \A w \in sent[c] : Reported(w, more)
  BY ReportsMore
<1>2. \A t \in input.asks : Noted(t, more) \/ t \in remainingPartUpsertActions(Now(c).slot)
  BY StoppedAccounts
<1>3. Answer(c, "partial_failure", more, remainingPartUpsertActions(Now(c).slot))
  BY DEF Stopped
<1>4. Shape
  BY DEF IInv
<1> HIDE DEF more
<1>5. QED BY <1>1, <1>2, <1>3, <1>4, Ends

LEMMA WorkflowFailureInv ==
  ASSUME InputAssumption, IInv, ~Fixture, NEW c \in Callers, Busy(c), ~IsUpsert(input),
         NEW writes, \A w \in writes : Reported(w, actions[c] \cup {<<Now(c).slot, "failed">>}),
         workflowFailure(c, Now(c).slot)
  PROVE  CallInv(input, pass'[c], at'[c], need'[c], actions'[c], answer'[c], writes)
<1> DEFINE more == actions[c] \cup {<<Now(c).slot, "failed">>}
<1>1. Answer(c, "partial_failure", more, {})
  BY DEF workflowFailure
<1>2. Shape /\ \A w \in writes : Reported(w, more)
  BY DEF IInv
<1> HIDE DEF more
<1>3. QED BY <1>1, <1>2, Ends

LEMMA ClarifyInv ==
  ASSUME InputAssumption, IInv, ~Fixture, NEW c \in Callers, Busy(c), Now(c).op = "look",
         Clarify(c, Now(c).slot)
  PROVE  CallInv(input, pass'[c], at'[c], need'[c], actions'[c], answer'[c], sent[c])
<1> DEFINE s == Now(c).slot
<1>1. Shape /\ (IsUpsert(input) <=> Upsert)
  BY Asked DEF IInv
<1>2. CASE ~IsUpsert(input)
  <2>1. Answer(c, "clarification", actions[c], {})
    BY <1>1, <1>2 DEF Clarify
  <2>2. \A w \in sent[c] : Reported(w, actions[c])
    BY ReportsMore
  <2>3. QED BY <1>1, <1>2, <2>1, <2>2, Ends
<1>3. CASE IsUpsert(input)
  <2>1. CASE s = "part" \/ ~Applied(actions[c])
    <3>1. Answer(c, "clarification", {}, {})
      BY <1>1, <1>3, <2>1 DEF Clarify, partUpsertResolutionClarification
    <3>2. sent[c] = {}
      BY <1>3, <2>1, NothingSent
    <3>3. QED BY <1>1, <3>1, <3>2, Ends
  <2>2. CASE ~ (s = "part" \/ ~Applied(actions[c]))
    <3>1. Stopped(c, s)
      BY <1>1, <1>3, <2>2 DEF Clarify, partUpsertResolutionClarification
    <3>2. pass[c] = "run"
      BY <2>2, Running DEF OnCourse
    <3>3. QED BY <1>3, <3>1, <3>2, StoppedInv
  <2>3. QED BY <2>1, <2>2
<1>4. QED BY <1>2, <1>3

-----------------------------------------------------------------------------
(* The steps of a call.                                                       *)

\* A slot looked up is listed, or something is to be done about it.
LEMMA LookReady ==
  ASSUME InputAssumption, IInv, ~Fixture, NEW c \in Callers, Busy(c), Now(c).op = "look",
         ~ (Now(c).slot = "supplier_part" /\ ~input.sku),
         NEW needs, NEW status \in {"reused", "skipped", "none"},
         DOMAIN needs = Slots, \A t \in Slots : needs[t] # "recovery",
         status # "none" \/ needs[Now(c).slot] # "nothing",
         NEW done, done = actions[c] \cup IF status = "none" THEN {} ELSE {<<Now(c).slot, status>>}
  PROVE  Ready(input, pass[c], at[c], needs, done, sent[c])
<1> DEFINE s == Now(c).slot
<1> DEFINE k == at[c]
<1>1. /\ OnCourse(input, pass[c], k, need[c], actions[c], sent[c])
      /\ Position(input, pass[c], k) /\ s \in input.asks /\ s \in Slots
      /\ IsUpsert(input) => k \in 1..12 /\ Now(c) = ToolSteps("upsert")[k]
      /\ ~IsUpsert(input) => k \in 1..10
  BY Running
<1>2. \A w \in sent[c] : Settled(input, w, done)
  BY AllSettled, Relisted
<1>3. sent[c] # {} => pass[c] = "run" /\ k >= FirstWrite(input)
  BY <1>1 DEF OnCourse, FirstWrite
<1>4. pass[c] = "preflight" /\ k = 9 => input.sku
  <2>1. SUFFICES ASSUME IsUpsert(input), k = 9 PROVE s = "supplier_part"
    BY <1>1 DEF Position
  <2>2. QED BY <1>1, <2>1, UpsertSteps DEF Step
<1>5. pass[c] # "run" => ~Applied(done)
  <2>1. SUFFICES ASSUME pass[c] # "run", NEW a \in done, a[2] \in {"created", "updated"} PROVE FALSE
    BY DEF Applied
  <2>2. a \notin actions[c]
    BY <1>1, <2>1 DEF OnCourse, Applied
  <2>3. a = <<Now(c).slot, status>>
    BY <2>1, <2>2
  <2>4. a[2] = status
    BY <2>3
  <2>5. QED BY <2>1, <2>4
<1>6. ASSUME pass[c] = "run", IsUpsert(input), NEW t \in input.asks, 2 * Turn(t) - 1 <= k
      PROVE  Noted(t, done) \/ (k = 2 * Turn(t) - 1 /\ needs[t] # "nothing")
  <2>1. t \in PartSlots /\ s \in PartSlots
    BY <1>1, <1>6, Asked DEF IInv
  <2>2. Turn(t) \in 1..5 /\ Turn(s) \in 1..5 /\ k = 2 * Turn(s) - 1 /\ (Turn(t) = Turn(s) => t = s)
    BY <1>1, <1>6, <2>1, UpsertTurns
  <2> HIDE DEF k
  <2>3. CASE t = s
    <3>1. CASE status = "none"
      BY <2>2, <2>3, <3>1
    <3>2. CASE status # "none"
      <4>1. <<s, status>> \in done /\ <<s, status>>[1] = t
        BY <2>3, <3>2
      <4>2. QED BY <4>1 DEF Noted
    <3>3. QED BY <3>1, <3>2
  <2>4. CASE t # s
    <3>1. 2 * Turn(t) - 1 < k /\ k # 2 * Turn(t)
      BY <1>6, <2>2, <2>4
    <3>2. Noted(t, actions[c])
      BY <1>1, <1>6, <3>1 DEF OnCourse, Sought
    <3>3. QED BY <3>2 DEF Noted
  <2>5. QED BY <2>3, <2>4
<1>7. pass[c] = "run" /\ IsUpsert(input) => HasSku(input)
  BY <1>1 DEF OnCourse
<1>8. QED BY <1>1, <1>2, <1>3, <1>4, <1>5, <1>6, <1>7 DEF Ready

LEMMA LookInv ==
  ASSUME InputAssumption, IInv, ~Fixture, NEW c \in Callers, Look(c)
  PROVE  CallInv(input, pass'[c], at'[c], need'[c], actions'[c], answer'[c], sent[c])
<1> DEFINE s == Now(c).slot
<1> DEFINE found == Found(c, s)
<1>1. Shape /\ Busy(c) /\ Now(c).op = "look"
  BY DEF IInv, Look
<1>2. /\ s \in Slots /\ s \in input.asks /\ DOMAIN need[c] = Slots
      /\ \A t \in Slots : need[c][t] # "recovery"
  BY <1>1, Running, AllSettled
<1>3. CASE s = "supplier_part" /\ ~input.sku
  <2>1. Answer(c, "clarification", {}, {})
    BY <1>3 DEF Look
  <2>2. sent[c] = {}
    <3>1. IsUpsert(input)
      BY <1>1, <1>2, <1>3, Asked DEF OrderSlots
    <3>2. sent[c] # {} => pass[c] = "run" /\ HasSku(input)
      BY <1>1, <3>1, Running DEF OnCourse
    <3>3. QED BY <1>2, <1>3, <3>2 DEF HasSku
  <2>3. QED BY <1>1, <2>1, <2>2, Ends
<1>4. CASE ~ (s = "supplier_part" /\ ~input.sku)
  <2>1. \/ Clarify(c, s)
        \/ \E r \in found :
              Proceed(c, [held[c] EXCEPT ![s] = r.id], [need[c] EXCEPT ![s] = NeedOf(s)],
                      actions[c] \cup IF s \in {"line", "extra"} THEN {} ELSE {<<s, "reused">>})
        \/ Proceed(c, [held[c] EXCEPT ![s] = IF Writing(c) THEN None ELSE Planned],
                    [need[c] EXCEPT ![s] = "create"], actions[c])
        \/ Proceed(c, held[c], need[c], actions[c] \cup {<<s, "skipped">>})
    <3>1. found # {} => (CHOOSE r \in found : TRUE) \in found
      OBVIOUS
    <3> HIDE DEF s
    <3>2. QED BY <1>1, <1>4, <3>1 DEF Look, s
  <2>2. CASE Clarify(c, s)
    BY <1>1, <2>2, ClarifyInv
  <2>3. ASSUME NEW r \in found,
               Proceed(c, [held[c] EXCEPT ![s] = r.id], [need[c] EXCEPT ![s] = NeedOf(s)],
                       actions[c] \cup IF s \in {"line", "extra"} THEN {} ELSE {<<s, "reused">>})
        PROVE  CallInv(input, pass'[c], at'[c], need'[c], actions'[c], answer'[c], sent[c])
    <3> DEFINE needs == [need[c] EXCEPT ![s] = NeedOf(s)]
    <3> DEFINE status == IF s \in {"line", "extra"} THEN "none" ELSE "reused"
    <3> DEFINE done == actions[c] \cup IF s \in {"line", "extra"} THEN {} ELSE {<<s, "reused">>}
    <3>1. NeedOf(s) \in {"update", "nothing"} /\ (s \in {"line", "extra"} => NeedOf(s) = "update")
      BY DEF NeedOf
    <3>2. DOMAIN needs = Slots /\ needs[s] = NeedOf(s) /\ \A t \in Slots : needs[t] # "recovery"
      BY <1>2, <3>1
    <3>3. status \in {"reused", "skipped", "none"} /\ (status # "none" \/ needs[s] # "nothing")
      BY <3>1, <3>2
    <3>4. done = actions[c] \cup IF status = "none" THEN {} ELSE {<<s, status>>}
      OBVIOUS
    <3>5. Proceed(c, [held[c] EXCEPT ![s] = r.id], needs, done)
      BY <2>3
    <3> HIDE DEF needs, status, done
    <3>6. Ready(input, pass[c], at[c], needs, done, sent[c])
      BY <1>1, <1>4, <3>2, <3>3, <3>4, LookReady
    <3>7. QED BY <1>1, <3>5, <3>6, Proceeding
  <2>4. CASE Proceed(c, [held[c] EXCEPT ![s] = IF Writing(c) THEN None ELSE Planned],
                     [need[c] EXCEPT ![s] = "create"], actions[c])
    <3> DEFINE needs == [need[c] EXCEPT ![s] = "create"]
    <3>1. DOMAIN needs = Slots /\ needs[s] = "create" /\ \A t \in Slots : needs[t] # "recovery"
      BY <1>2
    <3>2. actions[c] = actions[c] \cup IF "none" = "none" THEN {} ELSE {<<s, "none">>}
      OBVIOUS
    <3> HIDE DEF needs
    <3>3. Ready(input, pass[c], at[c], needs, actions[c], sent[c])
      BY <1>1, <1>4, <3>1, <3>2, LookReady
    <3>4. QED BY <1>1, <2>4, <3>3, Proceeding DEF needs
  <2>5. CASE Proceed(c, held[c], need[c], actions[c] \cup {<<s, "skipped">>})
    <3> DEFINE done == actions[c] \cup {<<s, "skipped">>}
    <3>1. done = actions[c] \cup IF "skipped" = "none" THEN {} ELSE {<<s, "skipped">>}
      OBVIOUS
    <3> HIDE DEF done
    <3>2. Ready(input, pass[c], at[c], need[c], done, sent[c])
      BY <1>1, <1>2, <1>4, <3>1, LookReady
    <3>3. QED BY <1>1, <2>5, <3>2, Proceeding DEF done
  <2>6. QED BY <2>1, <2>2, <2>3, <2>4, <2>5
<1>5. QED BY <1>3, <1>4

LEMMA LookFailsInv ==
  ASSUME InputAssumption, IInv, ~Fixture, NEW c \in Callers, LookFails(c)
  PROVE  CallInv(input, pass'[c], at'[c], need'[c], actions'[c], answer'[c], sent[c])
<1> DEFINE s == Now(c).slot
<1>1. Shape /\ Busy(c) /\ Now(c).op = "look" /\ (IsUpsert(input) <=> Upsert)
  BY Asked DEF IInv, LookFails
<1>2. CASE IsUpsert(input)
  <2>1. partUpsertResolutionFailure(c, s)
    BY <1>1, <1>2 DEF LookFails
  <2>2. CASE s = "part" \/ ~Applied(actions[c])
    <3>1. Failure(c)
      BY <2>1, <2>2 DEF partUpsertResolutionFailure
    <3>2. sent[c] = {}
      BY <1>1, <1>2, <2>2, NothingSent
    <3>3. QED BY <1>1, <3>1, <3>2, FailureInv
  <2>3. CASE ~ (s = "part" \/ ~Applied(actions[c]))
    <3>1. Stopped(c, s)
      BY <2>1, <2>3 DEF partUpsertResolutionFailure
    <3>2. pass[c] = "run"
      BY <1>1, <2>3, Running DEF OnCourse
    <3>3. QED BY <1>1, <1>2, <3>1, <3>2, StoppedInv
  <2>4. QED BY <2>2, <2>3
<1>3. CASE ~IsUpsert(input) /\ s \in {"supplier", "order"}
  <2>1. Failure(c)
    BY <1>1, <1>3 DEF LookFails
  <2>2. at[c] \in 1..10 /\ Now(c) = ToolSteps("order")[at[c]]
    BY <1>1, <1>3, Running
  <2>3. at[c] <= 2
    BY <1>1, <1>3, <2>2, OrderTurns
  <2>4. ~ (at[c] > FirstWrite(input) - 1)
    BY <1>3, <2>2, <2>3 DEF FirstWrite
  <2>5. sent[c] = {}
    BY <1>1, <2>4, Running DEF OnCourse
  <2>6. QED BY <1>1, <2>1, <2>5, FailureInv
<1>4. CASE ~IsUpsert(input) /\ s \notin {"supplier", "order"}
  <2>1. workflowFailure(c, s)
    BY <1>1, <1>4 DEF LookFails
  <2>2. \A w \in sent[c] : Reported(w, actions[c] \cup {<<s, "failed">>})
    BY <1>1, ReportsMore
  <2>3. QED BY <1>1, <1>4, <2>1, <2>2, WorkflowFailureInv
<1>5. QED BY <1>2, <1>3, <1>4

\* Where a write is sent from.
LEMMA WritePlace ==
  ASSUME InputAssumption, IInv, ~Fixture, NEW c \in Callers, AtWrite(c)
  PROVE  /\ Busy(c) /\ pass[c] = "run" /\ need[c][Now(c).slot] # "recovery"
         /\ at[c] >= FirstWrite(input) /\ at[c] \in Nat
         /\ IsUpsert(input) => Now(c).op = "write" /\ at[c] = 2 * Turn(Now(c).slot)
         /\ Now(c).slot = "extra" => ~IsUpsert(input) /\ Now(c) = Step("write", "extra")
<1>1. /\ pass[c] = "run" /\ Now(c).op \in {"create", "update", "write"}
      /\ need[c][Now(c).slot] # "recovery"
  BY DEF AtWrite, Writing
<1>2. Busy(c)
  BY <1>1 DEF Busy
<1>3. /\ IsUpsert(input) => at[c] \in 1..12 /\ Now(c) = ToolSteps("upsert")[at[c]]
      /\ ~IsUpsert(input) => at[c] \in 1..10 /\ Now(c) = ToolSteps("order")[at[c]]
  BY <1>2, Running
<1>4. CASE IsUpsert(input)
  <2>1. Now(c).op = "write" /\ at[c] = 2 * Turn(Now(c).slot) /\ Now(c).slot \in PartSlots
    BY <1>1, <1>3, <1>4, UpsertTurns
  <2>2. Turn(Now(c).slot) \in 1..5
    BY <2>1, UpsertTurns
  <2>3. at[c] >= 2
    BY <2>1, <2>2
  <2>4. Now(c).slot # "extra"
    BY <2>1 DEF PartSlots
  <2>5. QED BY <1>1, <1>2, <1>3, <1>4, <2>1, <2>3, <2>4 DEF FirstWrite
<1>5. CASE ~IsUpsert(input)
  <2>1. at[c] \in 1..10 /\ Now(c) = ToolSteps("order")[at[c]]
    BY <1>3, <1>5
  <2>2. at[c] >= 3 /\ (Now(c).slot = "extra" => Now(c) = Step("write", "extra"))
    BY <1>1, <2>1, OrderTurns
  <2>3. QED BY <1>1, <1>2, <1>5, <2>1, <2>2 DEF FirstWrite
<1>6. QED BY <1>4, <1>5

LEMMA WriteAnsweredInv ==
  ASSUME InputAssumption, IInv, ~Fixture, NEW c \in Callers, WriteAnswered(c)
  PROVE  CallInv(input, pass'[c], at'[c], need'[c], actions'[c], answer'[c], sent'[c])
<1> DEFINE s == Now(c).slot
<1> DEFINE k == at[c]
<1> DEFINE needs == [need[c] EXCEPT ![s] = "nothing"]
<1> DEFINE done == actions[c] \cup {<<s, Done(c)>>}
<1> DEFINE w == [slot |-> s, fate |-> "applied"]
<1>1. Shape /\ AtWrite(c) /\ sent'[c] = sent[c] \cup {w}
  BY DEF IInv, WriteAnswered, Sends, Shape
<1>2. /\ Busy(c) /\ pass[c] = "run" /\ need[c][s] # "recovery" /\ k >= FirstWrite(input) /\ k \in Nat
      /\ IsUpsert(input) => k = 2 * Turn(s)
  BY <1>1, WritePlace
<1>3. \E holds : Proceed(c, holds, needs, done)
  BY DEF WriteAnswered
<1>4. /\ DOMAIN need[c] = Slots /\ \A t \in Slots : need[c][t] # "recovery"
      /\ \A v \in sent[c] : Settled(input, v, actions[c])
      /\ Position(input, pass[c], k) /\ s \in input.asks
      /\ OnCourse(input, pass[c], k, need[c], actions[c], sent[c])
  BY <1>2, Running, AllSettled
<1>5. Done(c) \in {"created", "updated"} /\ <<s, Done(c)>> \in done /\ <<s, Done(c)>>[1] = s
  BY DEF Done
<1>6. \A v \in sent'[c] : Settled(input, v, done)
  <2>1. \A v \in sent[c] : Settled(input, v, done)
    BY <1>4, Relisted
  <2>2. Settled(input, w, done)
    BY <1>5 DEF Settled
  <2>3. QED BY <1>1, <2>1, <2>2
<1>7. DOMAIN needs = Slots /\ \A t \in Slots : needs[t] # "recovery"
  BY <1>4
<1>8. ASSUME IsUpsert(input), NEW t \in input.asks, 2 * Turn(t) - 1 <= k
      PROVE  Noted(t, done)
  <2>1. t \in PartSlots /\ s \in PartSlots
    BY <1>1, <1>4, <1>8, Asked
  <2>2. Turn(t) \in 1..5 /\ Turn(s) \in 1..5 /\ (Turn(t) = Turn(s) => t = s)
    BY <2>1, UpsertTurns
  <2>3. CASE t = s
    BY <1>5, <2>3 DEF Noted
  <2>4. CASE t # s
    <3> HIDE DEF s, k
    <3>1. 2 * Turn(t) - 1 < k /\ k # 2 * Turn(t)
      BY <1>2, <1>8, <2>2, <2>4
    <3>2. Noted(t, actions[c])
      BY <1>2, <1>4, <1>8, <3>1 DEF OnCourse, Sought
    <3>3. QED BY <3>2 DEF Noted
  <2>5. QED BY <2>3, <2>4
<1>9. IsUpsert(input) => HasSku(input)
  BY <1>2, <1>4 DEF OnCourse
<1> HIDE DEF needs, done, w
<1>10. Ready(input, pass[c], k, needs, done, sent'[c])
  BY <1>2, <1>4, <1>6, <1>7, <1>8, <1>9 DEF Ready
<1>11. QED BY <1>1, <1>3, <1>10, Proceeding

\* A part workflow whose write fails.
LEMMA MutationFailureInv ==
  ASSUME InputAssumption, IInv, ~Fixture, NEW c \in Callers, AtWrite(c), IsUpsert(input),
         NEW rejected \in BOOLEAN, NEW w, w.slot = Now(c).slot, w.fate \in {"refused", "unknown"},
         rejected => w.fate = "refused",
         partUpsertMutationFailure(c, Now(c).slot, rejected)
  PROVE  CallInv(input, pass'[c], at'[c], need'[c], actions'[c], answer'[c], sent[c] \cup {w})
<1> DEFINE s == Now(c).slot
<1> DEFINE kind == IF rejected /\ ~Applied(actions[c]) THEN "validation_failed" ELSE "partial_failure"
<1> DEFINE more == actions[c] \cup {<<s, "failed">>}
<1>1. Shape /\ Busy(c) /\ pass[c] = "run" /\ need[c][s] # "recovery" /\ Now(c).op = "write"
  BY WritePlace DEF IInv
<1>2. Answer(c, kind, more, remainingPartUpsertActions(s))
  BY DEF partUpsertMutationFailure
<1>3. \A t \in input.asks : Noted(t, more) \/ t \in remainingPartUpsertActions(s)
  BY <1>1, StoppedAccounts
<1>4. \A v \in sent[c] \cup {w} : Reported(v, more)
  <2>1. \A v \in sent[c] : Reported(v, more)
    BY <1>1, ReportsMore
  <2>2. Reported(w, more)
    <3>1. <<w.slot, "failed">> \in more
      OBVIOUS
    <3> HIDE DEF more
    <3>2. QED BY <3>1 DEF Reported
  <2>3. QED BY <2>1, <2>2
<1>5. kind = "validation_failed" => sent[c] = {} /\ w.fate = "refused"
  BY <1>1, NothingSent
<1>6. kind \in {"validation_failed", "partial_failure"}
  OBVIOUS
<1> HIDE DEF kind, more, s
<1>7. QED BY <1>1, <1>2, <1>3, <1>4, <1>5, <1>6, Ends

LEMMA WriteRejectedInv ==
  ASSUME InputAssumption, IInv, ~Fixture, NEW c \in Callers, WriteRejected(c)
  PROVE  CallInv(input, pass'[c], at'[c], need'[c], actions'[c], answer'[c], sent'[c])
<1> DEFINE s == Now(c).slot
<1> DEFINE w == [slot |-> s, fate |-> "refused"]
<1>1. Shape /\ AtWrite(c) /\ sent'[c] = sent[c] \cup {w} /\ (IsUpsert(input) <=> Upsert)
  BY Asked DEF IInv, WriteRejected, Sends, Shape
<1>2. Busy(c) /\ need[c][s] # "recovery" /\ w.slot = s /\ w.fate = "refused"
  BY <1>1, WritePlace
<1>3. CASE IsUpsert(input)
  <2>1. PICK invalid \in BOOLEAN : partUpsertMutationFailure(c, s, invalid)
    BY <1>1, <1>3 DEF WriteRejected
  <2> HIDE DEF w
  <2>2. QED BY <1>1, <1>2, <1>3, <2>1, MutationFailureInv
<1>4. CASE ~IsUpsert(input)
  <2>1. workflowFailure(c, s)
    BY <1>1, <1>4 DEF WriteRejected
  <2>2. \A v \in sent[c] : Reported(v, actions[c] \cup {<<s, "failed">>})
    BY <1>2, ReportsMore
  <2>3. Reported(w, actions[c] \cup {<<s, "failed">>})
    BY DEF Reported
  <2>4. QED BY <1>1, <1>2, <1>4, <2>1, <2>2, <2>3, WorkflowFailureInv
<1>5. QED BY <1>3, <1>4

\* Of an order only the extra lines are looked for again; until then their write is open.
LEMMA WriteLostInv ==
  ASSUME InputAssumption, IInv, ~Fixture, NEW c \in Callers, WriteLost(c)
  PROVE  CallInv(input, pass'[c], at'[c], need'[c], actions'[c], answer'[c], sent'[c])
<1> DEFINE s == Now(c).slot
<1> DEFINE w == [slot |-> s, fate |-> "unknown"]
<1>1. Shape /\ AtWrite(c) /\ sent'[c] = sent[c] \cup {w} /\ (IsUpsert(input) <=> Upsert)
  BY Asked DEF IInv, WriteLost, Sends, Shape
<1>2. /\ Busy(c) /\ need[c][s] # "recovery" /\ w.slot = s /\ w.fate = "unknown"
      /\ pass[c] = "run" /\ at[c] >= FirstWrite(input) /\ at[c] \in Nat
      /\ s = "extra" => ~IsUpsert(input) /\ Now(c) = Step("write", "extra")
  BY <1>1, WritePlace
<1>3. CASE s = "extra"
  <2>1. need' = [need EXCEPT ![c][s] = "recovery"] /\ UNCHANGED <<pass, at, held, actions, answer>>
    BY <1>3 DEF WriteLost
  <2>2. /\ DOMAIN need[c] = Slots /\ \A t \in Slots : need[c][t] # "recovery"
        /\ \A v \in sent[c] : Settled(input, v, actions[c])
        /\ Position(input, pass[c], at[c]) /\ s \in Slots
        /\ Now(c) = ToolSteps(input.tool)[at[c]]
    BY <1>2, Running, AllSettled
  <2>3. need'[c]["extra"] = "recovery" /\ \A t \in Slots : need'[c][t] = "recovery" => t = "extra"
    BY <1>1, <1>3, <2>1, <2>2 DEF Shape
  <2>4. FirstWrite(input) \in {2, 3}
    BY DEF FirstWrite
  <2>5. at[c] > FirstWrite(input) - 1
    BY <1>2, <2>4
  <2>6. OnCourse(input, pass[c], at[c], need'[c], actions[c], sent'[c])
    BY <1>1, <1>2, <1>3, <2>2, <2>3, <2>5 DEF OnCourse
  <2>7. QED BY <1>2, <2>1, <2>6 DEF CallInv, Busy
<1>4. CASE s # "extra" /\ IsUpsert(input)
  <2>1. partUpsertMutationFailure(c, s, FALSE)
    BY <1>1, <1>4 DEF WriteLost
  <2> HIDE DEF w
  <2>2. QED BY <1>1, <1>2, <1>4, <2>1, MutationFailureInv
<1>5. CASE s # "extra" /\ ~IsUpsert(input)
  <2>1. workflowFailure(c, s)
    BY <1>1, <1>5 DEF WriteLost
  <2>2. \A v \in sent[c] : Reported(v, actions[c] \cup {<<s, "failed">>})
    BY <1>2, ReportsMore
  <2>3. Reported(w, actions[c] \cup {<<s, "failed">>})
    BY DEF Reported
  <2>4. QED BY <1>1, <1>2, <1>5, <2>1, <2>2, <2>3, WorkflowFailureInv
<1>6. QED BY <1>3, <1>4, <1>5

LEMMA RecoverInv ==
  ASSUME InputAssumption, IInv, ~Fixture, NEW c \in Callers, recoverExtraLine(c)
  PROVE  CallInv(input, pass'[c], at'[c], need'[c], actions'[c], answer'[c], sent[c])
<1> DEFINE s == Now(c).slot
<1> DEFINE needs == [need[c] EXCEPT ![s] = "nothing"]
<1> DEFINE done == actions[c] \cup {<<s, "recovered">>}
<1>1. Shape /\ pass[c] = "run" /\ need[c][s] = "recovery" /\ Busy(c)
  BY DEF IInv, recoverExtraLine, Writing, Busy
<1>2. /\ OnCourse(input, pass[c], at[c], need[c], actions[c], sent[c])
      /\ Position(input, pass[c], at[c]) /\ s \in Slots /\ DOMAIN need[c] = Slots
      /\ at[c] \in 1..12 \/ at[c] \in 1..10
  BY <1>1, Running
<1>3. s = "extra" /\ ~IsUpsert(input) /\ \A t \in Slots : need[c][t] = "recovery" => t = "extra"
  BY <1>1, <1>2 DEF OnCourse
<1>4. \A w \in sent[c] :
        Settled(input, w, actions[c]) \/ (w.fate = "unknown" /\ w.slot = "extra")
  BY <1>2 DEF OnCourse
<1>5. (\E holds : Proceed(c, holds, needs, done)) \/ workflowFailure(c, s)
  BY DEF recoverExtraLine
<1>6. CASE \E holds : Proceed(c, holds, needs, done)
  <2>1. \A w \in sent[c] : Settled(input, w, done)
    <3>1. SUFFICES ASSUME NEW w \in sent[c] PROVE Settled(input, w, done)
      OBVIOUS
    <3>2. CASE Settled(input, w, actions[c])
      BY <3>2, Relisted
    <3>3. CASE w.fate = "unknown" /\ w.slot = "extra"
      BY <1>3, <3>3 DEF Settled
    <3>4. QED BY <1>4, <3>2, <3>3
  <2>2. DOMAIN needs = Slots /\ \A t \in Slots : needs[t] # "recovery"
    BY <1>2, <1>3
  <2>3. at[c] >= FirstWrite(input)
    <3>1. sent[c] # {} => at[c] > FirstWrite(input) - 1
      BY <1>2 DEF OnCourse
    <3>2. at[c] \in 1..10 /\ Now(c) = ToolSteps("order")[at[c]]
      BY <1>1, <1>3, Running
    <3>3. Now(c).op # "look"
      <4>1. ToolSteps(input.tool)[at[c]] = Step("write", "extra")
        BY <1>1, <1>2, <1>3 DEF OnCourse
      <4>2. Now(c) = ToolSteps(input.tool)[at[c]]
        BY <1>1, Running
      <4>3. QED BY <4>1, <4>2 DEF Step
    <3>4. QED BY <1>3, <3>2, <3>3, OrderTurns DEF FirstWrite
  <2> HIDE DEF needs, done
  <2>4. Ready(input, pass[c], at[c], needs, done, sent[c])
    BY <1>1, <1>2, <1>3, <2>1, <2>2, <2>3 DEF Ready
  <2>5. QED BY <1>1, <1>6, <2>4, Proceeding
<1>7. CASE workflowFailure(c, s)
  <2>1. \A w \in sent[c] : Reported(w, actions[c] \cup {<<s, "failed">>})
    <3>1. SUFFICES ASSUME NEW w \in sent[c]
                   PROVE  Reported(w, actions[c] \cup {<<s, "failed">>})
      OBVIOUS
    <3>2. CASE Settled(input, w, actions[c])
      BY <3>2, Relisted, Reports
    <3>3. CASE w.fate = "unknown" /\ w.slot = "extra"
      BY <1>3, <3>3 DEF Reported
    <3>4. QED BY <1>4, <3>2, <3>3
  <2>2. QED BY <1>1, <1>3, <1>7, <2>1, WorkflowFailureInv
<1>8. QED BY <1>5, <1>6, <1>7

LEMMA VerifyInv ==
  ASSUME InputAssumption, IInv, ~Fixture, NEW c \in Callers, Verify(c)
  PROVE  CallInv(input, pass'[c], at'[c], need'[c], actions'[c], answer'[c], sent[c])
<1> DEFINE s == Now(c).slot
<1> DEFINE k == at[c]
<1> DEFINE more == Doubted(actions[c], s) \cup {<<s, "failed">>}
<1>1. Shape /\ pass[c] = "run" /\ Busy(c) /\ Now(c).op = "verify"
  BY DEF IInv, Verify, Writing, Busy
<1>2. /\ OnCourse(input, pass[c], k, need[c], actions[c], sent[c])
      /\ Position(input, pass[c], k) /\ s \in input.asks /\ DOMAIN need[c] = Slots
      /\ IsUpsert(input) => k \in 1..12 /\ Now(c) = ToolSteps("upsert")[k]
      /\ ~IsUpsert(input) => k \in 1..10 /\ Now(c) = ToolSteps("order")[k]
      /\ \A t \in Slots : need[c][t] # "recovery"
      /\ \A w \in sent[c] : Settled(input, w, actions[c])
  BY <1>1, Running, AllSettled
<1>3. IsUpsert(input) => k > 10 /\ s \in PartSlots
  BY <1>1, <1>2, UpsertTurns
<1>4. ~IsUpsert(input) => k >= 3
  BY <1>1, <1>2, OrderTurns
\* Everything a part workflow was asked for is listed by now.
<1>5. ASSUME IsUpsert(input), NEW t \in input.asks PROVE Noted(t, actions[c])
  <2>1. Turn(t) \in 1..5
    BY <1>1, <1>5, Asked, UpsertTurns
  <2> HIDE DEF k
  <2>2. 2 * Turn(t) - 1 < k /\ k # 2 * Turn(t)
    BY <1>2, <1>3, <1>5, <2>1
  <2>3. QED BY <1>1, <1>2, <1>5, <2>2 DEF OnCourse, Sought
<1>6. \/ partUpsertLinkReadbackFailure(c, s)
      \/ Proceed(c, held[c], need[c], actions[c])
  BY DEF Verify
<1>7. CASE Proceed(c, held[c], need[c], actions[c])
  <2>1. k >= FirstWrite(input)
    BY <1>2, <1>3, <1>4 DEF FirstWrite
  <2>2. IsUpsert(input) => HasSku(input)
    BY <1>1, <1>2 DEF OnCourse
  <2> HIDE DEF k
  <2>3. Ready(input, pass[c], k, need[c], actions[c], sent[c])
    BY <1>1, <1>2, <1>5, <2>1, <2>2 DEF Ready
  <2>4. QED BY <1>1, <1>7, <2>3, Proceeding DEF k
<1>8. CASE partUpsertLinkReadbackFailure(c, s)
  <2>1. Answer(c, "partial_failure", more, {})
    BY <1>8 DEF partUpsertLinkReadbackFailure
  <2>2. \A w \in sent[c] : Reported(w, more)
    <3>1. SUFFICES ASSUME NEW w \in sent[c] PROVE Reported(w, more)
      OBVIOUS
    <3>2. Settled(input, w, actions[c])
      BY <1>2
    <3>3. CASE s # "extra"
      <4>1. actions[c] \subseteq more
        BY <3>3 DEF Doubted
      <4>2. QED BY <3>2, <4>1, Relisted, Reports
    <3>4. CASE s = "extra" /\ w.slot = "extra"
      <4>1. <<w.slot, "failed">> \in more
        BY <3>4
      <4>2. w.fate \in {"applied", "unknown"}
        BY <3>2 DEF Settled
      <4> HIDE DEF more
      <4>3. QED BY <3>4, <4>1, <4>2 DEF Reported
    <3>5. CASE s = "extra" /\ w.slot # "extra"
      <4>1. PICK x \in {"created", "updated"} : <<w.slot, x>> \in actions[c] /\ w.fate = "applied"
        BY <3>2, <3>5 DEF Settled
      <4>2. <<w.slot, x>>[1] # s
        BY <3>5
      <4>3. <<w.slot, x>> \in more
        BY <4>1, <4>2 DEF Doubted
      <4> HIDE DEF more
      <4>4. QED BY <4>1, <4>3 DEF Reported
    <3>6. QED BY <3>3, <3>4, <3>5
  <2>3. ASSUME IsUpsert(input), NEW t \in input.asks PROVE Noted(t, more)
    <3>1. s # "extra"
      BY <1>3, <2>3 DEF PartSlots
    <3>2. actions[c] \subseteq more
      BY <3>1 DEF Doubted
    <3> HIDE DEF more
    <3>3. QED BY <1>5, <2>3, <3>2 DEF Noted
  <2> HIDE DEF more
  <2>4. QED BY <1>1, <2>1, <2>2, <2>3, Ends
<1>9. QED BY <1>6, <1>7, <1>8

LEMMA StartInv ==
  ASSUME InputAssumption, IInv, ~Fixture, NEW c \in Callers, NEW dry \in BOOLEAN, Start(c, dry)
  PROVE  CallInv(input, pass'[c], at'[c], need'[c], actions'[c], answer'[c], sent'[c])
<1> DEFINE p == FirstPass(dry)
<1> DEFINE first == After(0, p, Idle, Fresh)
<1> DEFINE P == ToolSteps(input.tool)
<1>1. Shape /\ pass[c] = "idle"
  BY DEF IInv, Start, Busy
<1>2. need[c] = Idle /\ actions[c] = {}
  BY <1>1 DEF IInv, CallsInv, CallInv
<1>3. /\ pass'[c] = p /\ at'[c] = Least(first) /\ sent'[c] = {}
      /\ need'[c] = Idle /\ actions'[c] = {}
  BY <1>1, <1>2 DEF Start, Shape
<1>4. /\ IsUpsert(input) <=> Upsert
      /\ P[1].op = "look" /\ P[1].slot \in input.asks /\ 1 \in 1..Len(P) /\ Len(P) \in Nat
  <2>1. /\ IsUpsert(input) <=> Upsert
        /\ IsUpsert(input) => input.tool = "upsert" /\ "part" \in input.asks
        /\ ~IsUpsert(input) => input.tool = "order" /\ "supplier" \in input.asks
    BY <1>1, Asked
  <2>2. CASE IsUpsert(input)
    <3>1. P = ToolSteps("upsert") /\ Len(P) = 12 /\ P[1] = Step("look", "part")
      BY <2>1, <2>2, UpsertSteps
    <3> HIDE DEF P
    <3> QED
      BY <2>1, <2>2, <3>1 DEF Step
  <2>3. CASE ~IsUpsert(input)
    <3>1. P = ToolSteps("order") /\ Len(P) = 10 /\ P[1] = Step("look", "supplier")
      BY <2>1, <2>3, OrderSteps
    <3> HIDE DEF P
    <3> QED
      BY <2>1, <2>3, <3>1 DEF Step
  <2>4. QED BY <2>1, <2>2, <2>3
<1>5. p \in {"dry_run", "preflight", "run"} /\ (p = "preflight" => IsUpsert(input))
      /\ (p = "run" => ~IsUpsert(input))
  BY <1>4 DEF FirstPass
<1>6. /\ first \in SUBSET Nat /\ \A n \in first : n \in 1..Len(P)
      /\ \A n \in 1..Len(P) : P[n].slot \in input.asks /\ P[n].op = "look" => n \in first
  <2>1. 0 + 1 = 1
    OBVIOUS
  <2> HIDE DEF p
  <2>2. QED BY <1>1, <2>1, StepsAfter
<1> HIDE DEF first, P, p
<1>7. Least(first) = 1
  <2>1. 1 \in first
    BY <1>4, <1>6
  <2>2. Least(first) \in first /\ Least(first) <= 1
    BY <1>6, <2>1, Passed
  <2>3. Least(first) \in 1..Len(P)
    BY <1>6, <2>2
  <2>4. QED BY <1>4, <2>2, <2>3
<1>8. Position(input, p, 1)
  BY <1>4, <1>5 DEF Position, P
<1>9. \A t \in Slots : Idle[t] # "recovery"
  BY DEF Idle
<1>10. ~Applied({})
  BY DEF Applied
<1>11. OnCourse(input, p, 1, Idle, {}, {})
  BY <1>5, <1>8, <1>9, <1>10 DEF OnCourse
<1>12. QED BY <1>3, <1>5, <1>7, <1>11 DEF CallInv

-----------------------------------------------------------------------------
(* No step of a call touches another.                                         *)

Moves(c) ==
  \/ \E kind, done, remaining : Answer(c, kind, done, remaining)
  \/ \E holds, needs, done : DOMAIN needs = Slots /\ Proceed(c, holds, needs, done)

LEMMA MovesAlone ==
  ASSUME Shape, NEW c \in Callers, Moves(c)
  PROVE  Others(c)
<1>1. CASE \E kind, done, remaining : Answer(c, kind, done, remaining)
  BY <1>1, AnswerEnds
<1>2. ASSUME NEW holds, NEW needs, NEW done, DOMAIN needs = Slots, Proceed(c, holds, needs, done)
      PROVE  Others(c)
  <2> DEFINE next == After(at[c], pass[c], needs, holds)
  <2>1. CASE next # {}
    <3>1. /\ at' = [at EXCEPT ![c] = Least(next)] /\ need' = [need EXCEPT ![c] = needs]
          /\ actions' = [actions EXCEPT ![c] = done] /\ UNCHANGED <<pass, answer>>
      BY <1>2, <2>1 DEF Proceed
    <3> HIDE DEF next
    <3>2. QED BY <1>2, <3>1 DEF Others, Shape
  <2>2. CASE next = {} /\ pass[c] = "preflight"
    <3> DEFINE first == After(0, "run", Idle, Fresh)
    <3>1. /\ pass' = [pass EXCEPT ![c] = "run"] /\ at' = [at EXCEPT ![c] = Least(first)]
          /\ need' = [need EXCEPT ![c] = Idle] /\ actions' = [actions EXCEPT ![c] = {}]
          /\ UNCHANGED answer
      BY <1>2, <2>2 DEF Proceed
    <3> HIDE DEF first
    <3>2. DOMAIN Idle = Slots
      BY DEF Idle
    <3>3. QED BY <3>1, <3>2 DEF Others, Shape
  <2>3. CASE next = {} /\ pass[c] # "preflight"
    <3>1. Answer(c, IF pass[c] = "run" THEN "ok" ELSE "dry_run", done, {})
      BY <1>2, <2>3 DEF Proceed
    <3>2. QED BY <3>1, AnswerEnds
  <2>4. QED BY <2>1, <2>2, <2>3
<1>3. QED BY <1>1, <1>2 DEF Moves

\* A call's own history is all it writes of the histories.
Alone(c) ==
  /\ input' = input /\ Others(c) /\ DOMAIN sent' = Callers
  /\ \A d \in Callers \ {c} : sent'[d] = sent[d]

LEMMA FailuresMove ==
  ASSUME NEW c \in Callers, NEW s, NEW rejected,
         \/ Failure(c) \/ workflowFailure(c, s) \/ partUpsertMutationFailure(c, s, rejected)
         \/ partUpsertResolutionFailure(c, s) \/ Clarify(c, s) \/ partUpsertLinkReadbackFailure(c, s)
  PROVE  Moves(c)
<1>1. CASE Failure(c)
  BY <1>1 DEF Moves, Failure
<1>2. CASE workflowFailure(c, s)
  BY <1>2 DEF Moves, workflowFailure
<1>3. CASE partUpsertMutationFailure(c, s, rejected)
  BY <1>3 DEF Moves, partUpsertMutationFailure
<1>4. CASE Stopped(c, s)
  BY <1>4 DEF Moves, Stopped
<1>5. CASE partUpsertResolutionFailure(c, s)
  <2>1. Failure(c) \/ Stopped(c, s)
    BY <1>5 DEF partUpsertResolutionFailure
  <2>2. QED BY <1>1, <1>4, <2>1
<1>6. CASE Clarify(c, s)
  <2>1. Answer(c, "clarification", actions[c], {}) \/ Answer(c, "clarification", {}, {}) \/ Stopped(c, s)
    BY <1>6 DEF Clarify, partUpsertResolutionClarification
  <2>2. QED BY <1>4, <2>1 DEF Moves
<1>7. CASE partUpsertLinkReadbackFailure(c, s)
  <2>1. \/ Failure(c)
        \/ Answer(c, "partial_failure", Doubted(actions[c], s) \cup {<<s, "failed">>}, {})
    BY <1>7 DEF partUpsertLinkReadbackFailure
  <2>2. QED BY <1>1, <2>1 DEF Moves
<1>8. QED BY <1>1, <1>2, <1>3, <1>5, <1>6, <1>7

LEMMA StepsAlone ==
  ASSUME Shape, NEW c \in Callers, NEW dry \in BOOLEAN,
         \/ Start(c, dry) \/ Look(c) \/ LookFails(c) \/ WriteAnswered(c) \/ WriteRejected(c)
         \/ WriteLost(c) \/ recoverExtraLine(c) \/ Verify(c)
  PROVE  Alone(c)
<1> DEFINE s == Now(c).slot
<1>1. ASSUME NEW v PROVE DOMAIN [need[c] EXCEPT ![s] = v] = Slots
  BY DEF Shape
<1>2. DOMAIN need[c] = Slots
  BY DEF Shape
<1>3. ASSUME Moves(c), input' = input, UNCHANGED sent \/ \E fate : Sends(c, fate) PROVE Alone(c)
  BY <1>3, MovesAlone DEF Alone, Sends, Shape
<1>4. CASE Start(c, dry)
  BY <1>4 DEF Alone, Others, Start, Shape
<1>5. CASE Look(c)
  <2>1. input' = input /\ UNCHANGED sent
    BY <1>5 DEF Look, unchangedWorld
  <2>2. \/ Answer(c, "clarification", {}, {}) \/ Clarify(c, s) \/ Failure(c)
        \/ \E holds, v, done : \/ Proceed(c, holds, [need[c] EXCEPT ![s] = v], done)
                              \/ Proceed(c, holds, need[c], done)
    <3>1. CASE Fixture /\ ~ (s = "supplier_part" /\ ~input.sku)
      <4>1. getOrCreateRecord(c, s, Found(c, s))
        BY <1>5, <3>1 DEF Look
      <4>2. QED BY <4>1 DEF getOrCreateRecord
    <3>2. CASE ~Fixture \/ (s = "supplier_part" /\ ~input.sku)
      <4> HIDE DEF s
      <4>1. QED BY <1>5, <3>2 DEF Look, s
    <3>3. QED BY <3>1, <3>2
  <2>3. Moves(c)
    <3> HIDE DEF s
    <3>1. CASE Clarify(c, s) \/ Failure(c)
      BY <3>1, FailuresMove
    <3>2. CASE ~ (Clarify(c, s) \/ Failure(c))
      BY <1>1, <1>2, <2>2, <3>2 DEF Moves
    <3>3. QED BY <3>1, <3>2
  <2>4. QED BY <1>3, <2>1, <2>3
<1>6. CASE LookFails(c)
  <2>1. partUpsertResolutionFailure(c, s) \/ Failure(c) \/ workflowFailure(c, s)
    BY <1>6 DEF LookFails
  <2>2. input' = input /\ UNCHANGED sent
    BY <1>6 DEF LookFails, unchangedWorld
  <2>3. QED BY <1>3, <2>1, <2>2, FailuresMove
<1>7. CASE WriteAnswered(c)
  <2>1. Moves(c)
    BY <1>1, <1>7 DEF WriteAnswered, Moves
  <2>2. QED BY <1>3, <1>7, <2>1 DEF WriteAnswered
<1>8. CASE WriteRejected(c)
  <2>1. (\E invalid \in BOOLEAN : partUpsertMutationFailure(c, s, invalid)) \/ Failure(c) \/ workflowFailure(c, s)
    BY <1>8 DEF WriteRejected
  <2>2. Moves(c)
    BY <2>1, FailuresMove
  <2>3. QED BY <1>3, <1>8, <2>2 DEF WriteRejected
<1>9. CASE WriteLost(c)
  <2>1. CASE s = "extra"
    <3>1. need' = [need EXCEPT ![c][s] = "recovery"] /\ UNCHANGED <<pass, at, held, actions, answer>>
      BY <1>9, <2>1 DEF WriteLost
    <3>2. input' = input /\ sent' = [sent EXCEPT ![c] = @ \cup {[slot |-> s, fate |-> "unknown"]}]
      BY <1>9 DEF WriteLost, Sends
    <3> HIDE DEF s
    <3>3. QED BY <3>1, <3>2 DEF Alone, Others, Shape
  <2>2. CASE s # "extra"
    <3>1. partUpsertMutationFailure(c, s, FALSE) \/ Failure(c) \/ workflowFailure(c, s)
      BY <1>9, <2>2 DEF WriteLost
    <3>2. Moves(c)
      BY <3>1, FailuresMove
    <3>3. QED BY <1>3, <1>9, <3>2 DEF WriteLost
  <2>3. QED BY <2>1, <2>2
<1>10. CASE recoverExtraLine(c)
  <2>1. (\E holds, done : Proceed(c, holds, [need[c] EXCEPT ![s] = "nothing"], done)) \/ workflowFailure(c, s)
    BY <1>10 DEF recoverExtraLine
  <2>2. Moves(c)
    BY <1>1, <2>1, FailuresMove DEF Moves
  <2>3. QED BY <1>3, <1>10, <2>2 DEF recoverExtraLine, unchangedWorld
<1>11. CASE Verify(c)
  <2>1. Proceed(c, held[c], need[c], actions[c]) \/ partUpsertLinkReadbackFailure(c, s)
    BY <1>11 DEF Verify
  <2>2. Moves(c)
    BY <1>2, <2>1, FailuresMove DEF Moves
  <2>3. QED BY <1>3, <1>11, <2>2 DEF Verify, unchangedWorld
<1>12. QED BY <1>4, <1>5, <1>6, <1>7, <1>8, <1>9, <1>10, <1>11

-----------------------------------------------------------------------------
(* Every call, and everybody else.                                            *)

LEMMA InitInv ==
  ASSUME InputAssumption, Init
  PROVE  IInv
<1>1. DOMAIN Idle = Slots
  BY DEF Idle
<1>2. Shape
  BY <1>1 DEF Init, Shape
<1>3. ASSUME NEW c \in Callers
      PROVE  CallInv(input, pass[c], at[c], need[c], actions[c], answer[c], sent[c])
  BY DEF Init, CallInv
<1>4. QED BY <1>2, <1>3 DEF IInv, CallsInv

LEMMA CallStep ==
  ASSUME InputAssumption, IInv, NEW c \in Callers, NEW dry \in BOOLEAN,
         \/ Start(c, dry) \/ Look(c) \/ LookFails(c) \/ WriteAnswered(c) \/ WriteRejected(c)
         \/ WriteLost(c) \/ recoverExtraLine(c) \/ Verify(c)
  PROVE  IInv'
<1>1. Shape /\ CallsInv
  BY DEF IInv
<1>2. Alone(c)
  BY <1>1, StepsAlone
<1>3. Shape'
  BY <1>1, <1>2 DEF Shape, Alone, Others
<1>4. ASSUME ~Fixture
      PROVE  CallInv(input, pass'[c], at'[c], need'[c], actions'[c], answer'[c], sent'[c])
  <2>1. CASE Start(c, dry)
    BY <1>4, <2>1, StartInv
  <2>2. CASE Look(c)
    <3>1. sent' = sent
      BY <2>2 DEF Look, unchangedWorld
    <3>2. QED BY <1>4, <2>2, <3>1, LookInv
  <2>3. CASE LookFails(c)
    <3>1. sent' = sent
      BY <2>3 DEF LookFails, unchangedWorld
    <3>2. QED BY <1>4, <2>3, <3>1, LookFailsInv
  <2>4. CASE WriteAnswered(c)
    BY <1>4, <2>4, WriteAnsweredInv
  <2>5. CASE WriteRejected(c)
    BY <1>4, <2>5, WriteRejectedInv
  <2>6. CASE WriteLost(c)
    BY <1>4, <2>6, WriteLostInv
  <2>7. CASE recoverExtraLine(c)
    <3>1. sent' = sent
      BY <2>7 DEF recoverExtraLine, unchangedWorld
    <3>2. QED BY <1>4, <2>7, <3>1, RecoverInv
  <2>8. CASE Verify(c)
    <3>1. sent' = sent
      BY <2>8 DEF Verify, unchangedWorld
    <3>2. QED BY <1>4, <2>8, <3>1, VerifyInv
  <2>9. QED BY <2>1, <2>2, <2>3, <2>4, <2>5, <2>6, <2>7, <2>8
<1>5. input' = input /\ (Fixture' <=> Fixture)
  BY <1>2 DEF Alone, Fixture
<1>6. ASSUME ~Fixture, NEW d \in Callers
      PROVE  CallInv(input', pass'[d], at'[d], need'[d], actions'[d], answer'[d], sent'[d])
  <2>1. CASE d = c
    BY <1>4, <1>5, <1>6, <2>1
  <2>2. CASE d # c
    <3>1. CallInv(input, pass[d], at[d], need[d], actions[d], answer[d], sent[d])
      BY <1>1, <1>6 DEF CallsInv
    <3>2. QED BY <1>2, <1>5, <2>2, <3>1 DEF Alone, Others
  <2>3. QED BY <2>1, <2>2
<1>7. QED BY <1>3, <1>5, <1>6 DEF IInv, CallsInv

LEMMA OtherStep ==
  ASSUME IInv,
         (\E w \in late : Lands(w)) \/ ForeignWrite \/ UNCHANGED vars
  PROVE  IInv'
<1>1. UNCHANGED <<input, pass, at, need, actions, answer, sent>>
  BY DEF Lands, ForeignWrite, vars, call
<1>2. QED BY <1>1 DEF IInv, Shape, CallsInv, Fixture

LEMMA Invariance == Spec => []IInv
<1>1. Init => IInv
  BY InitInv, InputAssumption
<1>2. IInv /\ [Next]_vars => IInv'
  <2>1. SUFFICES ASSUME IInv, [Next]_vars PROVE IInv'
    OBVIOUS
  <2>2. ASSUME NEW c \in Callers,
               \/ \E dry \in BOOLEAN : Start(c, dry)
               \/ Look(c) \/ LookFails(c)
               \/ WriteAnswered(c) \/ WriteRejected(c) \/ WriteLost(c)
               \/ recoverExtraLine(c) \/ Verify(c)
        PROVE  IInv'
    BY <2>1, <2>2, CallStep, InputAssumption
  <2>3. CASE (\E w \in late : Lands(w)) \/ ForeignWrite \/ UNCHANGED vars
    BY <2>1, <2>3, OtherStep
  <2>4. QED BY <2>1, <2>2, <2>3 DEF Next
<1>3. QED BY <1>1, <1>2, PTL DEF Spec

\* No answer of the two tools hides a write: a bare error, a rejected validation and a
\* dry run mean that nothing was written, any other answer lists every slot a write was
\* sent for, and a part workflow lists or leaves as remaining all it was asked for
\* (hasAppliedPartUpsertAction, remainingPartUpsertActions, purchaseOrderWorkflowFailure).
THEOREM NoWriteHidden == Spec => []NothingHidden
<1>1. ASSUME IInv PROVE NothingHidden
  <2>1. SUFFICES ASSUME NEW c \in Callers, Answered(c), ~Fixture
                 PROVE  LET a == answer[c] IN
    /\ a.kind \in {"error", "validation_failed", "dry_run"} => \A w \in sent[c] : w.fate = "refused"
    /\ \A w \in sent[c] :
         CASE w.fate = "applied" ->
                \/ \E s \in {"created", "updated"} : <<w.slot, s>> \in a.actions
                \/ w.slot = "extra" /\ <<w.slot, "failed">> \in a.actions
           [] w.fate = "unknown" -> \E s \in {"failed", "recovered"} : <<w.slot, s>> \in a.actions
           [] OTHER -> <<w.slot, "failed">> \in a.actions
    /\ Upsert /\ a.kind \in {"ok", "partial_failure", "validation_failed"} =>
         input.asks \subseteq Listed(c) \cup a.remaining
    BY DEF NothingHidden
  <2>2. Accounts(input, answer[c], sent[c])
    BY <1>1, <2>1 DEF IInv, CallsInv, CallInv, Answered, Busy
  <2>3. IsUpsert(input) <=> Upsert
    BY DEF IsUpsert, Upsert
  <2>4. \A s \in input.asks : Noted(s, answer[c].actions) => s \in Listed(c)
    BY DEF Noted, Listed
  <2>5. \A w \in sent[c] : Reported(w, answer[c].actions)
    BY <2>2 DEF Accounts
  <2>6. \A w \in sent[c] :
         CASE w.fate = "applied" ->
                \/ \E s \in {"created", "updated"} : <<w.slot, s>> \in answer[c].actions
                \/ w.slot = "extra" /\ <<w.slot, "failed">> \in answer[c].actions
           [] w.fate = "unknown" -> \E s \in {"failed", "recovered"} : <<w.slot, s>> \in answer[c].actions
           [] OTHER -> <<w.slot, "failed">> \in answer[c].actions
    BY <2>5 DEF Reported
  <2>7. QED BY <2>2, <2>3, <2>4, <2>6 DEF Accounts
<1>2. QED BY <1>1, Invariance, PTL

-----------------------------------------------------------------------------
(* Why a call stops.                                                         *)

\* The records of a slot have the numbers from 1 to how many they are.
In(R, s) == {r \in R : r.slot = s}
Count(R, s) == Cardinality(In(R, s))
NumberedTo(R, s, n) ==
  /\ n \in Nat
  /\ \A r \in In(R, s) : r.id \in 1..n
  /\ \A id \in 1..n : \E r \in In(R, s) : r.id = id
  /\ \A q, r \in In(R, s) : q.id = r.id => q = r
Numbered(R, s) == NumberedTo(R, s, Count(R, s))
\* What hangs on a record hangs on one there is.
Hung(R, s, under) ==
  /\ under \in [HangsOn[s] -> Nat]
  /\ \A p \in HangsOn[s] : under[p] <= Count(R, p)
Unders == UNION {[HangsOn[s] -> Nat] : s \in Slots}
RecordsOK(R) ==
  /\ R \subseteq [slot : Slots, id : Nat, under : Unders, fits : BOOLEAN]
  /\ \A s \in Slots : Numbered(R, s)
  /\ \A r \in R : Hung(R, r.slot, r.under)

\* A write is over a record there is, or for a new one.
WriteOK(R, w) == w.slot \in Slots /\ w.id \in 0..Count(R, w.slot) /\ Hung(R, w.slot, w.under)
LateOK ==
  /\ calls \in Nat
  /\ \A w \in late :
       /\ WriteOK(records, w) /\ w.caller \in Callers /\ w.call \in Nat /\ w.call <= calls
       /\ w.call = calls /\ Busy(w.caller) => failed[w.caller]

\* What a call holds is there, or planned before the last pass.
HoldsOK(R, p, h) ==
  /\ h \in [Slots -> Int]
  /\ \A s \in Slots : h[s] = Planned \/ h[s] \in 0..Count(R, s)
  /\ p \in {"idle", "run"} => \A s \in Slots : h[s] # Planned
  /\ p = "idle" => h = Fresh

\* What a lookup finds of the records R when the slots before are held as in h.
Tops == {"part", "manufacturer", "supplier"}
Hits(i, R, h, t) ==
  IF \E p \in HangsOn[t] : h[p] = Planned THEN {}
  ELSE {r \in R : /\ r.slot = t
                  /\ IF t \in i.byId THEN r.id = 1
                     ELSE r.under = [p \in HangsOn[t] |-> h[p]] /\ (t \in Companies => r.fits)}

\* The lookup of slot t can go on: it finds one record it may use, or none and that can be
\* created or done without.  Of a top, g is what it will be held as.
GoesWell(i, hits, t, g) ==
  \/ \E r : hits = {r} /\ (t \in Companies => r.fits) /\ (t \in Tops => g = r.id)
  \/ hits = {} /\ t \in i.able /\ (t \in Tops => g = Planned)
  \/ hits = {} /\ t = "manufacturer_part"

\* The lookup of a slot is not before step k.
Ahead(t, k) == 2 * Turn(t) - 1 >= k

\* What the preflight has found out before step k.
Preflighted(i, R, k, h) ==
  /\ \A t \in i.asks : ~Ahead(t, k) => GoesWell(i, Hits(i, R, h, t), t, h[t])
  /\ \A t \in Tops \ i.asks : h[t] = None

\* A record created by the call: nothing that it will look up hangs on it.
Newborn(i, R, k, h, t) ==
  /\ h[t] # None
  /\ \A u \in i.asks : Ahead(u, k) => \A r \in In(R, u) : t \in HangsOn[u] => r.under[t] # h[t]

\* The run finds what the preflight did, which held the tops as in g.
Follows(i, R, k, h, needs, g) ==
  /\ \A t \in i.asks : Ahead(t, k) => GoesWell(i, Hits(i, R, g, t), t, g[t])
  /\ \A t \in Tops \ i.asks : g[t] = None /\ h[t] = None
  /\ \A t \in Tops \cap i.asks : ~Ahead(t, k) =>
       IF g[t] = Planned
       THEN \/ k = 2 * Turn(t) /\ needs[t] # "nothing" /\ h[t] = None
            \/ Newborn(i, R, k, h, t)
       ELSE h[t] = g[t] /\ h[t] # None

Shown(R, h, s) == \E r \in In(R, s) : r.id = h[s] /\ r.fits
Listing(R, k, h, done) ==
  \A a \in done : a[1] \in PartSlots /\ ~Ahead(a[1], k) /\ (a[2] = "created" => Shown(R, h, a[1]))

\* An extra line is written before it is read back.
LinesWritten(i, R, k, h, needs) ==
  /\ "extra" \in i.asks /\ k \in 6..8 => needs["extra"] # "nothing"
  /\ k = 9 => h["extra"] = None \/ Shown(R, h, "extra")

\* A call that nothing came in the way of.
Undisturbed(i, R, p, k, h, needs, done) ==
  /\ \A t \in Slots : needs[t] # "recovery"
  /\ p = "preflight" => Preflighted(i, R, k, h)
  /\ p = "run" /\ IsUpsert(i) => (\E g : Follows(i, R, k, h, needs, g)) /\ Listing(R, k, h, done)
  /\ p = "run" /\ ~IsUpsert(i) => LinesWritten(i, R, k, h, needs)

\* Only what is held is read back.
ReadsBackHeld(i, p, k, h) == p = "run" /\ ~IsUpsert(i) /\ k = 9 => h["extra"] # None

HistoryShape == DOMAIN failed = Callers /\ DOMAIN meddled = Callers
Excused(c) == failed[c] \/ meddled[c]
CauseInv(c) ==
  IF Busy(c)
  THEN ~Fixture /\ ~Excused(c) =>
         /\ Undisturbed(input, records, pass[c], at[c], held[c], need[c], actions[c])
         /\ ReadsBackHeld(input, pass[c], at[c], held[c])
  ELSE answer[c].kind \in {"partial_failure", "validation_failed"} => Excused(c)
World == ~Fixture =>
  /\ RecordsOK(records) /\ LateOK /\ DOMAIN held = Callers
  /\ \A c \in Callers : HoldsOK(records, pass[c], held[c])
Causes == HistoryShape /\ World /\ \A c \in Callers : CauseInv(c)

-----------------------------------------------------------------------------
(* The records are numbered.                                                  *)

LEMMA Counting ==
  ASSUME NEW R, NEW s, NEW n, NumberedTo(R, s, n)
  PROVE  n \in Nat /\ Count(R, s) = n /\ Numbered(R, s) /\ IsFiniteSet(In(R, s))
<1> DEFINE S == In(R, s)
<1> DEFINE F == [id \in 1..n |-> CHOOSE r \in S : r.id = id]
<1> HIDE DEF S
<1>0. /\ n \in Nat /\ \A r \in S : r.id \in 1..n
      /\ \A id \in 1..n : \E r \in S : r.id = id
      /\ \A q, r \in S : q.id = r.id => q = r
  BY DEF S, NumberedTo
<1>1. \A id \in 1..n : F[id] \in S /\ F[id].id = id
  BY <1>0
<1> HIDE DEF F
<1>2. F \in [1..n -> S]
  BY <1>1 DEF F
<1>3. F \in Injection(1..n, S)
  BY <1>0, <1>1, <1>2 DEF Injection, IsInjective
<1>4. \A r \in S : r.id \in 1..n /\ F[r.id] = r
  BY <1>0, <1>1
<1>5. F \in Surjection(1..n, S)
  BY <1>0, <1>2, <1>4 DEF Surjection
<1>6. ExistsBijection(1..n, S)
  BY <1>3, <1>5 DEF ExistsBijection, Bijection
<1>7. IsFiniteSet(1..n) /\ Cardinality(1..n) = n
  BY <1>0, FS_Interval
<1>8. IsFiniteSet(S) /\ Cardinality(S) = n
  BY <1>6, <1>7, FS_Bijection
<1>9. Count(R, s) = n
  BY <1>8 DEF Count, S
<1>10. QED BY <1>0, <1>8, <1>9 DEF Numbered, S

LEMMA NumberedFinite ==
  ASSUME NEW R, NEW s, Numbered(R, s)
  PROVE  IsFiniteSet(In(R, s)) /\ Count(R, s) \in Nat
BY Counting DEF Numbered

\* What the slots and what they hang on are.
LEMMA Hangs ==
  /\ \A s \in Slots : HangsOn[s] \subseteq Slots
  /\ \A s \in Slots : s \notin HangsOn[s]
  /\ \A t \in PartSlots : HangsOn[t] \subseteq Tops /\ (t \in Tops => HangsOn[t] = {})
  /\ \A t \in PartSlots : \A p \in HangsOn[t] : Turn(p) < Turn(t)
  /\ Tops \subseteq PartSlots /\ PartSlots \subseteq Slots
  /\ PartSlots \cap Companies \subseteq Tops /\ "manufacturer_part" \notin Tops
BY SlotNames DEF HangsOn, PartSlots, Tops, Turn, Companies

\* The parents of the tools' records.
LEMMA ParentsOfTools == ~Fixture => Parents = HangsOn
BY DEF Parents

LEMMA HungStays ==
  ASSUME NEW R, NEW R2, NEW s \in Slots, NEW under, Hung(R, s, under),
         \A t \in Slots : Count(R, t) \in Nat /\ Count(R2, t) \in Nat /\ Count(R, t) <= Count(R2, t)
  PROVE  Hung(R2, s, under)
<1>1. \A p \in HangsOn[s] : p \in Slots /\ under[p] \in Nat /\ under[p] <= Count(R, p)
  BY Hangs DEF Hung
<1>2. QED BY <1>1 DEF Hung

\* A record more, with the next number.
LEMMA Added ==
  ASSUME NEW R, RecordsOK(R), NEW new \in [slot : Slots, id : Nat, under : Unders, fits : BOOLEAN],
         new.id = Count(R, new.slot) + 1, Hung(R, new.slot, new.under),
         NEW R2, R2 = R \cup {new}
  PROVE  /\ RecordsOK(R2)
         /\ \A s \in Slots : Count(R, s) \in Nat /\ Count(R2, s) \in Nat /\ Count(R, s) <= Count(R2, s)
<1> DEFINE n(s) == IF s = new.slot THEN Count(R, s) + 1 ELSE Count(R, s)
<1>1. \A s \in Slots : Numbered(R, s) /\ Count(R, s) \in Nat
  BY NumberedFinite DEF RecordsOK
<1>2. ASSUME NEW s \in Slots PROVE Count(R2, s) = n(s) /\ Numbered(R2, s)
  <2>1. CASE s # new.slot
    <3>1. In(R2, s) = In(R, s)
      BY <2>1 DEF In
    <3>2. QED BY <1>1, <2>1, <3>1 DEF Count, Numbered, NumberedTo
  <2>2. CASE s = new.slot
    <3>1. In(R2, s) = In(R, s) \cup {new}
      BY <2>2 DEF In
    <3>2. /\ \A r \in In(R, s) : r.id \in 1..Count(R, s)
          /\ \A id \in 1..Count(R, s) : \E r \in In(R, s) : r.id = id
          /\ \A q, r \in In(R, s) : q.id = r.id => q = r
      BY <1>1 DEF Numbered, NumberedTo
    <3> DEFINE m == Count(R, s)
    <3>3. m \in Nat /\ new.id = m + 1 /\ n(s) = m + 1
      BY <1>1, <2>2
    <3> HIDE DEF m, n
    <3>4. \A r \in In(R2, s) : r.id \in 1..(m + 1)
      BY <3>1, <3>2, <3>3 DEF m
    <3>5. \A id \in 1..(m + 1) : \E r \in In(R2, s) : r.id = id
      <4>1. SUFFICES ASSUME NEW id \in 1..(m + 1) PROVE \E r \in In(R2, s) : r.id = id
        OBVIOUS
      <4>2. id \in 1..m \/ id = m + 1
        BY <3>3
      <4>3. QED BY <4>2, <3>1, <3>2, <3>3 DEF m
    <3>6. \A q, r \in In(R2, s) : q.id = r.id => q = r
      <4>1. \A r \in In(R, s) : r.id # new.id
        BY <3>2, <3>3 DEF m
      <4>2. QED BY <3>1, <3>2, <4>1
    <3>7. m + 1 \in Nat
      BY <3>3
    <3>8. NumberedTo(R2, s, m + 1)
      BY <3>4, <3>5, <3>6, <3>7 DEF NumberedTo
    <3>9. Count(R2, s) = m + 1 /\ Numbered(R2, s)
      BY <3>8, Counting
    <3>10. QED BY <3>3, <3>9
  <2>3. QED BY <2>1, <2>2
<1>3. \A s \in Slots : Count(R, s) \in Nat /\ Count(R2, s) \in Nat /\ Count(R, s) <= Count(R2, s)
  BY <1>1, <1>2
<1>4. \A r \in R2 : r.slot \in Slots /\ Hung(R, r.slot, r.under)
  BY DEF RecordsOK
<1>5. \A r \in R2 : Hung(R2, r.slot, r.under)
  BY <1>3, <1>4, HungStays
<1>6. R2 \subseteq [slot : Slots, id : Nat, under : Unders, fits : BOOLEAN]
  BY DEF RecordsOK
<1> HIDE DEF n
<1>7. QED BY <1>2, <1>3, <1>5, <1>6 DEF RecordsOK

\* The same records, as they should be or not.
Alike(q, r) == q.slot = r.slot /\ q.id = r.id /\ q.under = r.under
LEMMA Refitted ==
  ASSUME NEW R, RecordsOK(R), NEW R2,
         R2 \subseteq [slot : Slots, id : Nat, under : Unders, fits : BOOLEAN],
         \A q \in R2 : \E r \in R : Alike(q, r),
         \A r \in R : \E q \in R2 : Alike(q, r),
         \A p, q \in R2 : p.slot = q.slot /\ p.id = q.id => p = q
  PROVE  /\ RecordsOK(R2)
         /\ \A s \in Slots : Count(R, s) \in Nat /\ Count(R2, s) = Count(R, s)
<1>1. \A s \in Slots : Numbered(R, s) /\ Count(R, s) \in Nat
  BY NumberedFinite DEF RecordsOK
<1>2. ASSUME NEW s \in Slots PROVE Count(R2, s) = Count(R, s) /\ Numbered(R2, s)
  <2> DEFINE n == Count(R, s)
  <2>1. /\ n \in Nat
        /\ \A r \in In(R, s) : r.id \in 1..n
        /\ \A id \in 1..n : \E r \in In(R, s) : r.id = id
    BY <1>1 DEF Numbered, NumberedTo
  <2> HIDE DEF n
  <2>2. \A q \in In(R2, s) : q.id \in 1..n
    BY <2>1 DEF In, Alike
  <2>3. \A id \in 1..n : \E q \in In(R2, s) : q.id = id
    BY <2>1 DEF In, Alike
  <2>4. \A p, q \in In(R2, s) : p.id = q.id => p = q
    BY DEF In
  <2>5. Count(R2, s) = n /\ Numbered(R2, s)
    BY <2>1, <2>2, <2>3, <2>4, Counting DEF NumberedTo
  <2>6. QED BY <2>5 DEF n
<1>3. \A r \in R2 : r.slot \in Slots /\ Hung(R, r.slot, r.under)
  BY DEF RecordsOK, Alike
<1>4. \A s \in Slots : Count(R, s) \in Nat /\ Count(R2, s) \in Nat /\ Count(R, s) <= Count(R2, s)
  BY <1>1, <1>2
<1>5. \A r \in R2 : Hung(R2, r.slot, r.under)
  BY <1>3, <1>4, HungStays
<1>6. QED BY <1>1, <1>2, <1>5 DEF RecordsOK

-----------------------------------------------------------------------------
(* Writes.                                                                    *)

\* A write is of a new record, or leaves one that there is as it should be; the records of
\* other slots stay.
LEMMA Storing ==
  ASSUME RecordsOK(records), NEW w, WriteOK(records, w)
  PROVE  LET R2 == Stored(w) IN
         /\ RecordsOK(R2)
         /\ \A s \in Slots : Count(records, s) \in Nat /\ Count(R2, s) \in Nat
                             /\ Count(records, s) <= Count(R2, s)
         /\ \A s \in Slots : s # w.slot => In(R2, s) = In(records, s)
         /\ \E r \in In(R2, w.slot) : r.id = (IF w.id = None THEN NewId(w.slot) ELSE w.id) /\ r.fits
         /\ w.id = None => NewId(w.slot) = Count(records, w.slot) + 1
                           /\ NewId(w.slot) <= Count(R2, w.slot)
<1> DEFINE R2 == Stored(w)
<1>1. /\ w.slot \in Slots /\ w.id \in 0..Count(records, w.slot) /\ Hung(records, w.slot, w.under)
      /\ \A s \in Slots : Count(records, s) \in Nat
  BY NumberedFinite DEF WriteOK, RecordsOK
<1>2. NewId(w.slot) = Count(records, w.slot) + 1
  BY DEF NewId, OfSlot, Count, In
<1>3. CASE w.id = None
  <2> DEFINE new == [slot |-> w.slot, id |-> NewId(w.slot), under |-> w.under, fits |-> TRUE]
  <2>1. R2 = records \cup {new}
    BY <1>3 DEF Stored
  <2>2. w.under \in Unders
    BY <1>1 DEF Hung, Unders
  <2>3. new \in [slot : Slots, id : Nat, under : Unders, fits : BOOLEAN]
    BY <1>1, <1>2, <2>2
  <2>4. new.id = Count(records, new.slot) + 1 /\ Hung(records, new.slot, new.under)
    BY <1>1, <1>2
  <2>5. new.slot = w.slot /\ new.id = NewId(w.slot) /\ new.fits /\ new \in R2
    BY <2>1
  <2> HIDE DEF new, R2
  <2>6. /\ RecordsOK(R2)
        /\ \A s \in Slots : Count(records, s) \in Nat /\ Count(R2, s) \in Nat
                            /\ Count(records, s) <= Count(R2, s)
    BY <2>1, <2>3, <2>4, Added
  <2>7. \A s \in Slots : s # w.slot => In(R2, s) = In(records, s)
    BY <2>1, <2>5 DEF In
  <2>8. new \in In(R2, w.slot)
    BY <2>5 DEF In
  <2>9. NewId(w.slot) <= Count(R2, w.slot)
    <3>1. NumberedTo(R2, w.slot, Count(R2, w.slot))
      BY <1>1, <2>6 DEF RecordsOK, Numbered
    <3>2. NewId(w.slot) \in 1..Count(R2, w.slot)
      BY <2>5, <2>8, <3>1 DEF NumberedTo
    <3>3. QED BY <1>1, <2>6, <3>2
  <2>10. QED BY <1>2, <1>3, <2>5, <2>6, <2>7, <2>8, <2>9 DEF R2
<1>4. CASE w.id # None
  <2> DEFINE fit(r) == IF r.slot = w.slot /\ r.id = w.id THEN [r EXCEPT !.fits = TRUE] ELSE r
  <2>1. R2 = {fit(r) : r \in records}
    BY <1>4 DEF Stored
  <2>2. records \subseteq [slot : Slots, id : Nat, under : Unders, fits : BOOLEAN]
    BY DEF RecordsOK
  <2>3. \A r \in records :
          /\ fit(r) \in [slot : Slots, id : Nat, under : Unders, fits : BOOLEAN]
          /\ fit(r).slot = r.slot /\ fit(r).id = r.id /\ fit(r).under = r.under
          /\ r.slot = w.slot /\ r.id = w.id => fit(r).fits
          /\ r.slot # w.slot => fit(r) = r
    BY <2>2
  <2>4. \A q, r \in records : q.slot = r.slot /\ q.id = r.id => q = r
    <3>1. SUFFICES ASSUME NEW q \in records, NEW r \in records, q.slot = r.slot, q.id = r.id
                   PROVE  q = r
      OBVIOUS
    <3>2. q.slot \in Slots /\ NumberedTo(records, q.slot, Count(records, q.slot))
      BY <2>2 DEF RecordsOK, Numbered
    <3>3. QED BY <3>1, <3>2 DEF NumberedTo, In
  <2> HIDE DEF R2, fit
  <2>5. R2 \subseteq [slot : Slots, id : Nat, under : Unders, fits : BOOLEAN]
    BY <2>1, <2>3
  <2>6. \A q \in R2 : \E r \in records : Alike(q, r)
    BY <2>1, <2>3 DEF Alike
  <2>7. \A r \in records : \E q \in R2 : Alike(q, r)
    BY <2>1, <2>3 DEF Alike
  <2>8. \A p, q \in R2 : p.slot = q.slot /\ p.id = q.id => p = q
    BY <2>1, <2>3, <2>4
  <2>9. RecordsOK(R2) /\ \A s \in Slots : Count(records, s) \in Nat /\ Count(R2, s) = Count(records, s)
    BY <2>5, <2>6, <2>7, <2>8, Refitted
  <2>10. \A s \in Slots : s # w.slot => In(R2, s) = In(records, s)
    <3>1. SUFFICES ASSUME NEW s \in Slots, s # w.slot PROVE In(R2, s) = In(records, s)
      OBVIOUS
    <3>2. In(R2, s) \subseteq In(records, s)
      BY <2>1, <2>3, <3>1 DEF In
    <3>3. In(records, s) \subseteq In(R2, s)
      BY <2>1, <2>3, <3>1 DEF In
    <3>4. QED BY <3>2, <3>3
  <2>11. \E r \in In(R2, w.slot) : r.id = w.id /\ r.fits
    <3>1. NumberedTo(records, w.slot, Count(records, w.slot))
      BY <1>1 DEF RecordsOK, Numbered
    <3>2. w.id \in 1..Count(records, w.slot)
      BY <1>1, <1>4 DEF None
    <3>3. PICK r \in In(records, w.slot) : r.id = w.id
      BY <3>1, <3>2 DEF NumberedTo
    <3>4. fit(r) \in R2 /\ fit(r).slot = w.slot /\ fit(r).id = w.id /\ fit(r).fits
      BY <2>1, <2>3, <3>3 DEF In
    <3>5. QED BY <3>4 DEF In
  <2>12. QED BY <1>1, <1>4, <2>9, <2>10, <2>11 DEF R2
<1>5. QED BY <1>3, <1>4

\* What was as it should be still is.
LEMMA StoringShows ==
  ASSUME RecordsOK(records), NEW w, WriteOK(records, w), NEW s \in Slots, NEW h, Shown(records, h, s)
  PROVE  Shown(Stored(w), h, s)
<1>1. PICK r \in In(records, s) : r.id = h[s] /\ r.fits
  BY DEF Shown
<1>2. /\ r \in records /\ r.slot = s
      /\ r \in [slot : Slots, id : Nat, under : Unders, fits : BOOLEAN]
  BY <1>1 DEF In, RecordsOK
<1>3. CASE w.id = None
  <2>1. r \in Stored(w)
    BY <1>2, <1>3 DEF Stored
  <2>2. QED BY <1>1, <1>2, <2>1 DEF Shown, In
<1>4. CASE w.id # None
  <2> DEFINE q == IF r.slot = w.slot /\ r.id = w.id THEN [r EXCEPT !.fits = TRUE] ELSE r
  <2>1. q \in Stored(w)
    BY <1>2, <1>4 DEF Stored
  <2>2. q.slot = s /\ q.id = h[s] /\ q.fits
    BY <1>1, <1>2
  <2>3. QED BY <2>1, <2>2 DEF Shown, In
<1>5. QED BY <1>3, <1>4

\* Other users change what is there, or add to it.
LEMMA ForeignRecords ==
  ASSUME RecordsOK(records), ForeignWrite
  PROVE  /\ RecordsOK(records')
         /\ \A s \in Slots : Count(records, s) \in Nat /\ Count(records', s) \in Nat
                             /\ Count(records, s) <= Count(records', s)
<1> DEFINE T == [slot : Slots, id : Nat, under : Unders, fits : BOOLEAN]
<1> DEFINE R2 == records'
<1>1. records \subseteq T /\ \A s \in Slots : Count(records, s) \in Nat
  BY NumberedFinite DEF RecordsOK
<1>2. \/ \E r \in records : R2 = (records \ {r}) \cup {[r EXCEPT !.fits = ~@]}
      \/ \E r \in records : R2 = records \cup {[r EXCEPT !.id = NewId(r.slot), !.fits = TRUE]}
  BY DEF ForeignWrite
<1>3. ASSUME NEW r \in records, R2 = (records \ {r}) \cup {[r EXCEPT !.fits = ~@]}
      PROVE  /\ RecordsOK(R2)
             /\ \A s \in Slots : Count(records, s) \in Nat /\ Count(R2, s) = Count(records, s)
  <2> DEFINE new == [r EXCEPT !.fits = ~@]
  <2>1. new \in T /\ new.slot = r.slot /\ new.id = r.id /\ new.under = r.under
    BY <1>1
  <2>2. \A p, q \in records : p.slot = q.slot /\ p.id = q.id => p = q
    <3>1. SUFFICES ASSUME NEW p \in records, NEW q \in records, p.slot = q.slot, p.id = q.id
                   PROVE  p = q
      OBVIOUS
    <3>2. p.slot \in Slots /\ NumberedTo(records, p.slot, Count(records, p.slot))
      BY <1>1 DEF RecordsOK, Numbered
    <3>3. QED BY <3>1, <3>2 DEF NumberedTo, In
  <2>3. R2 = (records \ {r}) \cup {new}
    BY <1>3
  <2> HIDE DEF new, R2
  <2>4. R2 \subseteq T
    BY <1>1, <2>1, <2>3
  <2>5. \A q \in R2 : \E p \in records : Alike(q, p)
    BY <2>1, <2>3 DEF Alike
  <2>6. \A p \in records : \E q \in R2 : Alike(q, p)
    BY <2>1, <2>3 DEF Alike
  <2>7. \A p, q \in R2 : p.slot = q.slot /\ p.id = q.id => p = q
    BY <2>1, <2>2, <2>3
  <2>8. QED BY <2>4, <2>5, <2>6, <2>7, Refitted
<1>4. ASSUME NEW r \in records, R2 = records \cup {[r EXCEPT !.id = NewId(r.slot), !.fits = TRUE]}
      PROVE  /\ RecordsOK(R2)
             /\ \A s \in Slots : Count(records, s) \in Nat /\ Count(R2, s) \in Nat
                                 /\ Count(records, s) <= Count(R2, s)
  <2> DEFINE n == NewId(r.slot)
  <2> DEFINE new == [r EXCEPT !.id = n, !.fits = TRUE]
  <2>1. r \in T /\ r.slot \in Slots /\ Hung(records, r.slot, r.under)
    BY <1>1 DEF RecordsOK
  <2>2. NewId(r.slot) = Count(records, r.slot) + 1 /\ Count(records, r.slot) \in Nat
    BY <1>1, <2>1 DEF NewId, OfSlot, Count, In
  <2>3. n \in Nat
    BY <2>2
  <2>4. R2 = records \cup {new}
    BY <1>4
  <2> HIDE DEF n
  <2>5. new \in T /\ new.slot = r.slot /\ new.id = n /\ new.under = r.under
    BY <2>1, <2>3
  <2> HIDE DEF new, R2
  <2>6. new.id = Count(records, new.slot) + 1 /\ Hung(records, new.slot, new.under)
    BY <2>1, <2>2, <2>5 DEF n
  <2>7. QED BY <2>4, <2>5, <2>6, Added
<1> HIDE DEF R2
<1>5. CASE \E r \in records : R2 = (records \ {r}) \cup {[r EXCEPT !.fits = ~@]}
  <2>1. RecordsOK(R2) /\ \A s \in Slots : Count(records, s) \in Nat /\ Count(R2, s) = Count(records, s)
    BY <1>3, <1>5
  <2>2. QED BY <2>1 DEF R2
<1>6. CASE \E r \in records : R2 = records \cup {[r EXCEPT !.id = NewId(r.slot), !.fits = TRUE]}
  BY <1>4, <1>6 DEF R2
<1>7. QED BY <1>2, <1>5, <1>6

\* What a call holds stays there.
LEMMA HoldsStay ==
  ASSUME NEW R, NEW R2, NEW p, NEW h, HoldsOK(R, p, h),
         \A t \in Slots : Count(R, t) \in Nat /\ Count(R2, t) \in Nat /\ Count(R, t) <= Count(R2, t)
  PROVE  HoldsOK(R2, p, h)
BY DEF HoldsOK

LEMMA WriteStays ==
  ASSUME NEW R, NEW R2, NEW w, WriteOK(R, w),
         \A t \in Slots : Count(R, t) \in Nat /\ Count(R2, t) \in Nat /\ Count(R, t) <= Count(R2, t)
  PROVE  WriteOK(R2, w)
<1>1. Hung(R2, w.slot, w.under)
  BY HungStays DEF WriteOK
<1>2. QED BY <1>1 DEF WriteOK

-----------------------------------------------------------------------------
(* Going on.                                                                  *)

HeldAlone(c) == DOMAIN held' = Callers /\ \A d \in Callers \ {c} : held'[d] = held[d]

LEMMA FreshHolds ==
  ASSUME NEW R, RecordsOK(R), NEW p
  PROVE  HoldsOK(R, p, Fresh) /\ \A s \in Slots : Fresh[s] = None
<1>1. Fresh \in [Slots -> Int] /\ \A s \in Slots : Fresh[s] = None /\ Fresh[s] # Planned /\ Fresh[s] = 0
  BY DEF Fresh, None, Planned
<1>2. \A s \in Slots : Count(R, s) \in Nat
  BY NumberedFinite DEF RecordsOK
<1>3. QED BY <1>1, <1>2 DEF HoldsOK

LEMMA AnswerHeld ==
  ASSUME DOMAIN held = Callers, NEW c \in Callers, NEW kind, NEW done, NEW remaining,
         Answer(c, kind, done, remaining)
  PROVE  HeldAlone(c) /\ held'[c] = Fresh
BY DEF Answer, HeldAlone

LEMMA ProceedHeld ==
  ASSUME Shape, DOMAIN held = Callers, NEW c \in Callers, NEW holds, NEW needs, NEW done,
         Proceed(c, holds, needs, done)
  PROVE  /\ HeldAlone(c)
         /\ \/ pass'[c] = pass[c] /\ held'[c] = holds
            \/ held'[c] = Fresh
<1> DEFINE next == After(at[c], pass[c], needs, holds)
<1>1. CASE next # {}
  <2>1. held' = [held EXCEPT ![c] = holds] /\ UNCHANGED <<pass, answer>>
    BY <1>1 DEF Proceed
  <2>2. QED BY <2>1 DEF HeldAlone
<1>2. CASE next = {} /\ pass[c] = "preflight"
  <2>1. held' = [held EXCEPT ![c] = Fresh]
    BY <1>2 DEF Proceed
  <2>2. QED BY <2>1 DEF HeldAlone
<1>3. CASE next = {} /\ pass[c] # "preflight"
  <2>1. Answer(c, IF pass[c] = "run" THEN "ok" ELSE "dry_run", done, {})
    BY <1>3 DEF Proceed
  <2>2. QED BY <2>1, AnswerHeld
<1>4. QED BY <1>1, <1>2, <1>3

\* A step after the present one that reads back has something to read.
LEMMA ReadBacksDue ==
  ASSUME InputAssumption, Shape, ~Fixture, NEW n, NEW p, NEW needs, NEW holds,
         NEW k \in After(n, p, needs, holds), ToolSteps(input.tool)[k].op = "verify"
  PROVE  holds[ToolSteps(input.tool)[k].slot] # None
<1>1. Due(p, needs, holds, ToolSteps(input.tool)[k])
  BY Asked DEF After
<1>2. QED BY <1>1 DEF Due

\* The slots of a part workflow are numbered.
LEMMA Turns ==
  ASSUME NEW t \in PartSlots
  PROVE  Turn(t) \in 1..5 /\ 2 * Turn(t) - 1 \in 1..9
<1>1. Turn(t) \in 1..5
  BY UpsertTurns
<1>2. QED BY <1>1

\* What is not a lookup passes no slot by.
LEMMA AheadSame ==
  ASSUME InputAssumption, Shape, ~Fixture, IsUpsert(input), NEW k \in Nat, NEW p, NEW needs, NEW holds
  PROVE  LET next == After(k, p, needs, holds) IN
         /\ \A t \in input.asks : Ahead(t, k + 1) => 2 * Turn(t) - 1 \in next
         /\ next # {} => /\ Least(next) \in next /\ Least(next) \in Nat /\ Least(next) >= k + 1
                         /\ \A t \in input.asks : Ahead(t, Least(next)) <=> Ahead(t, k + 1)
<1> DEFINE next == After(k, p, needs, holds)
<1> DEFINE P == ToolSteps(input.tool)
<1>1. /\ next \in SUBSET Nat
      /\ \A m \in next : m \in (k + 1)..Len(P)
      /\ \A m \in (k + 1)..Len(P) : P[m].slot \in input.asks /\ P[m].op = "look" => m \in next
  BY StepsAfter
<1>2. P = ToolSteps("upsert") /\ Len(P) = 12 /\ input.asks \subseteq PartSlots
  BY Asked, UpsertSteps
<1> HIDE DEF next, P
<1>2a. \A n : n \in (k + 1)..Len(P) <=> n \in (k + 1)..12
  BY <1>2
<1>3. ASSUME NEW t \in input.asks, Ahead(t, k + 1)
      PROVE  2 * Turn(t) - 1 \in next
  <2> DEFINE m == 2 * Turn(t) - 1
  <2>1. m \in 1..9 /\ P[m] = Step("look", t)
    BY <1>2, Turns, UpsertTurns
  <2>2. m \in (k + 1)..Len(P)
    BY <1>2, <1>3, <2>1 DEF Ahead
  <2> HIDE DEF m
  <2>3. P[m].slot \in input.asks /\ P[m].op = "look"
    BY <1>3, <2>1 DEF Step
  <2>4. m \in next
    BY <1>1, <2>2, <2>3
  <2>5. QED BY <2>4 DEF m
<1>4. ASSUME next # {}
      PROVE  /\ Least(next) \in next /\ Least(next) \in Nat /\ Least(next) >= k + 1
             /\ \A t \in input.asks : Ahead(t, Least(next)) <=> Ahead(t, k + 1)
  <2> DEFINE m == Least(next)
  <2>1. m \in next /\ \A n \in next : m <= n
    BY <1>1, <1>4, Passed
  <2> HIDE DEF m
  <2>2. m \in Nat /\ m >= k + 1
    <3>1. m \in (k + 1)..12
      BY <1>1, <1>2a, <2>1
    <3>2. QED BY <3>1
  <2>3. ASSUME NEW t \in input.asks PROVE Ahead(t, m) <=> Ahead(t, k + 1)
    <3>1. 2 * Turn(t) - 1 \in 1..9
      BY <1>2, Turns
    <3>2. Ahead(t, m) => Ahead(t, k + 1)
      BY <2>2, <3>1 DEF Ahead
    <3>3. Ahead(t, k + 1) => Ahead(t, m)
      BY <1>3, <2>1 DEF Ahead
    <3>4. QED BY <3>2, <3>3
  <2>4. QED BY <2>1, <2>2, <2>3 DEF m
<1>5. QED BY <1>3, <1>4 DEF next

LEMMA FollowsOn ==
  ASSUME InputAssumption, Shape, ~Fixture, IsUpsert(input), NEW k \in Nat, NEW needs, NEW holds, NEW R,
         NEW g, Follows(input, R, k + 1, holds, needs, g),
         NEW done, Listing(R, k + 1, holds, done), After(k, "run", needs, holds) # {}
  PROVE  LET m == Least(After(k, "run", needs, holds)) IN
         Follows(input, R, m, holds, needs, g) /\ Listing(R, m, holds, done)
<1> DEFINE next == After(k, "run", needs, holds)
<1> DEFINE m == Least(next)
<1> DEFINE P == ToolSteps(input.tool)
<1>1. /\ m \in next /\ m \in Nat /\ m >= k + 1
      /\ \A t \in input.asks : Ahead(t, m) <=> Ahead(t, k + 1)
  BY AheadSame
<1>2. /\ \A n \in next : m <= n
      /\ \A n \in (k + 1)..Len(P) :
           P[n].slot \in input.asks /\ P[n].op = "write" /\ needs[P[n].slot] # "nothing" => n \in next
  <2>1. /\ next \in SUBSET Nat
        /\ \A n \in (k + 1)..Len(P) :
             P[n].slot \in input.asks /\ P[n].op = "write" /\ needs[P[n].slot] # "nothing" => n \in next
    BY StepsAfter
  <2> HIDE DEF next, P
  <2>2. QED BY <2>1, Passed
<1>3. P = ToolSteps("upsert") /\ Len(P) = 12 /\ input.asks \subseteq PartSlots
  BY Asked, UpsertSteps
<1>4. ASSUME NEW t \in input.asks, k + 1 = 2 * Turn(t), needs[t] # "nothing"
      PROVE  m = 2 * Turn(t)
  <2>1. Turn(t) \in 1..5 /\ P[2 * Turn(t)] = Step("write", t)
    BY <1>3, UpsertTurns
  <2> HIDE DEF P, next, m
  <2>2. k + 1 \in (k + 1)..Len(P) /\ P[k + 1] = Step("write", t)
    BY <1>3, <1>4, <2>1
  <2>3. k + 1 \in next
    BY <1>2, <1>4, <2>2 DEF Step
  <2>4. QED BY <1>1, <1>2, <1>4, <2>3
<1> HIDE DEF P, next, m
<1>5. ASSUME NEW t \in input.asks, Newborn(input, R, k + 1, holds, t)
      PROVE  Newborn(input, R, m, holds, t)
  BY <1>1, <1>5 DEF Newborn
<1>6. Follows(input, R, m, holds, needs, g)
  BY <1>1, <1>4, <1>5 DEF Follows
<1>7. Listing(R, m, holds, done)
  <2>1. SUFFICES ASSUME NEW a \in done PROVE ~Ahead(a[1], m)
    BY DEF Listing
  <2>2. a[1] \in PartSlots /\ ~Ahead(a[1], k + 1)
    BY DEF Listing
  <2>3. 2 * Turn(a[1]) - 1 \in 1..9
    BY <2>2, Turns
  <2>4. QED BY <1>1, <2>2, <2>3 DEF Ahead
<1>8. QED BY <1>6, <1>7 DEF m, next

\* Of an order, the extra line comes in its place.
LEMMA LinesOn ==
  ASSUME InputAssumption, Shape, ~Fixture, ~IsUpsert(input), NEW k \in Nat, NEW needs, NEW holds, NEW R,
         LinesWritten(input, R, k + 1, holds, needs), After(k, "run", needs, holds) # {}
  PROVE  LET m == Least(After(k, "run", needs, holds)) IN
         LinesWritten(input, R, m, holds, needs) /\ ReadsBackHeld(input, "run", m, holds)
<1> DEFINE next == After(k, "run", needs, holds)
<1> DEFINE m == Least(next)
<1> DEFINE P == ToolSteps(input.tool)
<1>1. /\ next \in SUBSET Nat
      /\ \A n \in next : n \in (k + 1)..Len(P) /\ P[n].slot \in input.asks
      /\ \A n \in (k + 1)..Len(P) :
           /\ P[n].slot \in input.asks /\ P[n].op = "look" => n \in next
           /\ P[n].slot \in input.asks /\ P[n].op = "write" /\ needs[P[n].slot] # "nothing" => n \in next
  BY StepsAfter
<1>2. P = ToolSteps("order") /\ Len(P) = 10
  BY Asked, OrderSteps
<1>3. P[5] = Step("look", "extra") /\ P[8] = Step("write", "extra") /\ P[9] = Step("verify", "extra")
  BY <1>2, OrderSteps
<1>4. 9 \in next => holds["extra"] # None
  BY <1>3, ReadBacksDue DEF Step
<1> HIDE DEF next, P
<1>2a. \A n : n \in (k + 1)..Len(P) <=> n \in (k + 1)..10
  BY <1>2
<1>5. m \in next /\ \A n \in next : m <= n
  BY <1>1, Passed DEF next
<1> HIDE DEF m
<1>6. m \in Nat /\ m >= k + 1 /\ m <= 10
  BY <1>1, <1>2, <1>5
<1>7. "extra" \in input.asks /\ k + 1 <= 5 => m <= 5
  <2>1. SUFFICES ASSUME "extra" \in input.asks, k + 1 <= 5 PROVE m <= 5
    OBVIOUS
  <2>2. 5 \in (k + 1)..Len(P)
    <3>1. 5 \in (k + 1)..10
      BY <2>1
    <3>2. QED BY <1>2a, <3>1
  <2>3. 5 \in next
    BY <1>1, <1>3, <2>1, <2>2 DEF Step
  <2>4. QED BY <1>5, <2>3
<1>8. "extra" \in input.asks /\ k + 1 \in 6..8 => m <= 8 /\ needs["extra"] # "nothing"
  <2>1. SUFFICES ASSUME "extra" \in input.asks, k + 1 \in 6..8 PROVE m <= 8 /\ needs["extra"] # "nothing"
    OBVIOUS
  <2>2. needs["extra"] # "nothing"
    BY <2>1 DEF LinesWritten
  <2>3. 8 \in (k + 1)..Len(P)
    <3>1. 8 \in (k + 1)..10
      BY <2>1
    <3>2. QED BY <1>2a, <3>1
  <2>4. 8 \in next
    BY <1>1, <1>3, <2>1, <2>2, <2>3 DEF Step
  <2>5. QED BY <1>5, <2>2, <2>4
<1>9. m = 9 => "extra" \in input.asks
  BY <1>1, <1>3, <1>5 DEF Step
<1>10. m = 9 => k + 1 = 9
  BY <1>6, <1>7, <1>8, <1>9
<1>11. LinesWritten(input, R, m, holds, needs)
  <2>1. "extra" \in input.asks /\ m \in 6..8 => needs["extra"] # "nothing"
    BY <1>6, <1>7, <1>8
  <2>2. m = 9 => holds["extra"] = None \/ Shown(R, holds, "extra")
    BY <1>10 DEF LinesWritten
  <2>3. QED BY <2>1, <2>2 DEF LinesWritten
<1>12. ReadsBackHeld(input, "run", m, holds)
  BY <1>4, <1>5 DEF ReadsBackHeld
<1>13. QED BY <1>11, <1>12 DEF m, next

\* A call that nothing came in the way of goes on undisturbed, or answers that it is done.
Well(i, R, p, k, h, needs, done, a) ==
  IF p = "idle" THEN a.kind \notin {"partial_failure", "validation_failed"}
  ELSE Undisturbed(i, R, p, k, h, needs, done) /\ ReadsBackHeld(i, p, k, h)

\* Every pass begins with the first step.
LEMMA FirstStep ==
  ASSUME InputAssumption, Shape, ~Fixture, NEW p
  PROVE  Least(After(0, p, Idle, Fresh)) = 1
<1> DEFINE P == ToolSteps(input.tool)
<1> DEFINE first == After(0, p, Idle, Fresh)
<1>1. /\ first \in SUBSET Nat /\ \A n \in first : n \in 1..Len(P)
      /\ \A n \in 1..Len(P) : P[n].slot \in input.asks /\ P[n].op = "look" => n \in first
  <2>1. 0 + 1 = 1
    OBVIOUS
  <2>2. QED BY <2>1, StepsAfter
<1>2. P[1].op = "look" /\ P[1].slot \in input.asks /\ Len(P) \in 10..12
  BY Asked, UpsertSteps, OrderSteps, OrderTurns DEF Step
<1> HIDE DEF P, first
<1>3. 1 \in first
  <2>1. 1 \in 1..Len(P)
    BY <1>2
  <2>2. QED BY <1>1, <1>2, <2>1
<1> DEFINE m == Least(first)
<1>4. m \in first /\ m <= 1
  BY <1>1, <1>3, Passed
<1> HIDE DEF m
<1>5. m \in 1..Len(P) /\ m <= 1
  BY <1>1, <1>4
<1>6. m = 1
  BY <1>2, <1>5
<1>7. QED BY <1>6 DEF m, first

LEMMA Onward ==
  ASSUME InputAssumption, Shape, DOMAIN held = Callers, ~Fixture, NEW c \in Callers,
         Position(input, pass[c], at[c]), NEW R, NEW holds, NEW needs, NEW done,
         Undisturbed(input, R, pass[c], at[c] + 1, holds, needs, done),
         Proceed(c, holds, needs, done)
  PROVE  Well(input, R, pass'[c], at'[c], held'[c], need'[c], actions'[c], answer'[c])
<1> DEFINE p == pass[c]
<1> DEFINE k == at[c]
<1> DEFINE next == After(k, p, needs, holds)
<1>1. /\ p \in {"dry_run", "preflight", "run"} /\ (p = "preflight" => IsUpsert(input)) /\ k \in Nat
  <2>1. Len(ToolSteps(input.tool)) \in Nat
    BY Asked, UpsertSteps, OrderSteps
  <2>2. QED BY <2>1 DEF Position
<1>2. /\ \A t \in Slots : needs[t] # "recovery"
      /\ p = "preflight" => Preflighted(input, R, k + 1, holds)
      /\ p = "run" /\ IsUpsert(input) =>
           (\E g : Follows(input, R, k + 1, holds, needs, g)) /\ Listing(R, k + 1, holds, done)
      /\ p = "run" /\ ~IsUpsert(input) => LinesWritten(input, R, k + 1, holds, needs)
  BY DEF Undisturbed
<1>3. CASE next # {}
  <2> DEFINE m == Least(next)
  <2>1. /\ pass'[c] = p /\ at'[c] = m /\ held'[c] = holds /\ need'[c] = needs /\ actions'[c] = done
    BY <1>3 DEF Proceed, Shape
  <2>2. p = "preflight" => Preflighted(input, R, m, holds)
    <3>1. SUFFICES ASSUME p = "preflight" PROVE Preflighted(input, R, m, holds)
      OBVIOUS
    <3>2. \A t \in input.asks : Ahead(t, m) <=> Ahead(t, k + 1)
      BY <1>1, <1>3, <3>1, AheadSame
    <3> HIDE DEF m
    <3>3. Preflighted(input, R, k + 1, holds)
      BY <1>2, <3>1
    <3>4. QED BY <3>2, <3>3 DEF Preflighted
  <2>3. p = "run" /\ IsUpsert(input) =>
          (\E g : Follows(input, R, m, holds, needs, g)) /\ Listing(R, m, holds, done)
    <3>1. SUFFICES ASSUME p = "run", IsUpsert(input)
                   PROVE  (\E g : Follows(input, R, m, holds, needs, g)) /\ Listing(R, m, holds, done)
      OBVIOUS
    <3>2. PICK g : Follows(input, R, k + 1, holds, needs, g)
      BY <1>2, <3>1
    <3>3. Listing(R, k + 1, holds, done) /\ After(k, "run", needs, holds) # {} /\ next = After(k, "run", needs, holds)
      BY <1>2, <1>3, <3>1
    <3> HIDE DEF next, p, k
    <3>4. k \in Nat
      BY <1>1
    <3>5. Follows(input, R, m, holds, needs, g) /\ Listing(R, m, holds, done)
      BY <3>1, <3>2, <3>3, <3>4, FollowsOn
    <3>6. QED BY <3>5
  <2>4. p = "run" /\ ~IsUpsert(input) =>
          LinesWritten(input, R, m, holds, needs) /\ ReadsBackHeld(input, "run", m, holds)
    <3>1. SUFFICES ASSUME p = "run", ~IsUpsert(input)
                   PROVE  LinesWritten(input, R, m, holds, needs) /\ ReadsBackHeld(input, "run", m, holds)
      OBVIOUS
    <3>2. LinesWritten(input, R, k + 1, holds, needs)
      BY <1>2, <3>1
    <3>3. After(k, "run", needs, holds) # {} /\ next = After(k, "run", needs, holds)
      BY <1>3, <3>1
    <3> HIDE DEF next, p, k
    <3>4. k \in Nat
      BY <1>1
    <3>5. QED BY <3>1, <3>2, <3>3, <3>4, LinesOn
  <2>5. ReadsBackHeld(input, p, m, holds)
    BY <2>4 DEF ReadsBackHeld
  <2> HIDE DEF m, next, k
  <2>6. Undisturbed(input, R, p, m, holds, needs, done)
    BY <1>2, <2>2, <2>3, <2>4 DEF Undisturbed
  <2>7. QED BY <1>1, <2>1, <2>5, <2>6 DEF Well
<1>4. CASE next = {} /\ p = "preflight"
  <2> DEFINE first == After(0, "run", Idle, Fresh)
  <2>1. /\ pass'[c] = "run" /\ at'[c] = Least(first) /\ held'[c] = Fresh /\ need'[c] = Idle
        /\ actions'[c] = {}
    BY <1>4 DEF Proceed, Shape
  <2>2. IsUpsert(input) /\ input.asks \subseteq PartSlots /\ "part" \in input.asks
    BY <1>1, <1>4, Asked
  <2>3. Least(first) = 1
    BY FirstStep
  <2> HIDE DEF first
  <2>4. Preflighted(input, R, k + 1, holds)
    BY <1>2, <1>4
  <2>5. \A t \in input.asks : ~Ahead(t, k + 1)
    BY <1>1, <1>4, <2>2, AheadSame
  <2>6. \A t \in input.asks : Ahead(t, 1)
    BY <2>2, Turns DEF Ahead
  <2>7. \A t \in Slots : Idle[t] # "recovery" /\ Fresh[t] = None
    BY DEF Idle, Fresh
  <2> HIDE DEF p, k, next
  <2>8. Follows(input, R, 1, Fresh, Idle, holds)
    <3>1. Tops \subseteq Slots
      BY Hangs
    <3>2. \A t \in input.asks : GoesWell(input, Hits(input, R, holds, t), t, holds[t])
      BY <2>4, <2>5 DEF Preflighted
    <3>3. \A t \in Tops \ input.asks : holds[t] = None /\ Fresh[t] = None
      BY <2>4, <2>7, <3>1 DEF Preflighted
    <3>4. QED BY <2>6, <3>2, <3>3 DEF Follows
  <2>9. Listing(R, 1, Fresh, {})
    BY DEF Listing
  <2>10. Undisturbed(input, R, "run", 1, Fresh, Idle, {})
    BY <2>2, <2>7, <2>8, <2>9 DEF Undisturbed
  <2>11. ReadsBackHeld(input, "run", 1, Fresh)
    BY DEF ReadsBackHeld
  <2>12. QED BY <2>1, <2>3, <2>10, <2>11 DEF Well
<1>5. CASE next = {} /\ p # "preflight"
  <2> DEFINE kind == IF p = "run" THEN "ok" ELSE "dry_run"
  <2>1. Answer(c, kind, done, {}) /\ kind \in {"ok", "dry_run"}
    BY <1>5 DEF Proceed
  <2> HIDE DEF kind
  <2>2. pass'[c] = "idle" /\ answer'[c] = [kind |-> kind, actions |-> done, remaining |-> {}]
    BY <2>1 DEF Answer, Shape
  <2>3. answer'[c].kind \in {"ok", "dry_run"}
    BY <2>1, <2>2
  <2>4. QED BY <2>2, <2>3 DEF Well
<1>6. QED BY <1>3, <1>4, <1>5

-----------------------------------------------------------------------------
(* Looking up.                                                                *)

LEMMA HitsAre ==
  ASSUME NEW i, NEW R, NEW h, NEW t
  PROVE  /\ Hits(i, R, h, t) \subseteq In(R, t)
         /\ (\E p \in HangsOn[t] : h[p] = Planned) => Hits(i, R, h, t) = {}
         /\ (\A p \in HangsOn[t] : h[p] # Planned) /\ t \in i.byId =>
              Hits(i, R, h, t) = {r \in In(R, t) : r.id = 1}
         /\ (\A p \in HangsOn[t] : h[p] # Planned) /\ t \notin i.byId =>
              Hits(i, R, h, t) = {r \in In(R, t) : /\ r.under = [p \in HangsOn[t] |-> h[p]]
                                                   /\ t \in Companies => r.fits}
BY DEF Hits, In

LEMMA HitsAgree ==
  ASSUME NEW i, NEW R, NEW R2, NEW h, NEW h2, NEW t, In(R2, t) = In(R, t),
         \A p \in HangsOn[t] : h2[p] = h[p]
  PROVE  Hits(i, R2, h2, t) = Hits(i, R, h, t)
<1>1. [p \in HangsOn[t] |-> h2[p]] = [p \in HangsOn[t] |-> h[p]]
  OBVIOUS
<1>2. CASE \E p \in HangsOn[t] : h[p] = Planned
  BY <1>2, HitsAre
<1>3. CASE (\A p \in HangsOn[t] : h[p] # Planned) /\ t \in i.byId
  BY <1>3, HitsAre
<1>4. CASE (\A p \in HangsOn[t] : h[p] # Planned) /\ t \notin i.byId
  <2> DEFINE under == [p \in HangsOn[t] |-> h[p]]
  <2> DEFINE fit(S) == {r \in S : r.under = under /\ (t \in Companies => r.fits)}
  <2>1. Hits(i, R, h, t) = fit(In(R, t))
    BY <1>4, HitsAre
  <2>2. \A p \in HangsOn[t] : h2[p] # Planned
    BY <1>4
  <2>3. Hits(i, R2, h2, t) = fit(In(R2, t))
    BY <1>1, <1>4, <2>2, HitsAre
  <2> HIDE DEF fit
  <2>4. QED BY <2>1, <2>3
<1>5. QED BY <1>2, <1>3, <1>4

\* A lookup that does not find several records finds one or none.
LEMMA Singly ==
  ASSUME NEW R, RecordsOK(R), NEW t \in Slots, NEW F, F \subseteq In(R, t)
  PROVE  /\ F = {} => ~ (Cardinality(F) > 1)
         /\ \A r : F = {r} => ~ (Cardinality(F) > 1)
         /\ ~ (Cardinality(F) > 1) /\ F # {} => \E r : F = {r}
<1>1. IsFiniteSet(In(R, t))
  BY NumberedFinite DEF RecordsOK
<1>2. IsFiniteSet(F) /\ Cardinality(F) \in Nat
  BY <1>1, FS_Subset, FS_CardinalityType
<1>3. F = {} => Cardinality(F) = 0
  BY FS_EmptySet
<1>4. \A r : F = {r} => Cardinality(F) = 1
  BY FS_Singleton
<1>5. ASSUME ~ (Cardinality(F) > 1), F # {} PROVE \E r : F = {r}
  <2>1. Cardinality(F) # 0
    BY <1>2, <1>5, FS_EmptySet
  <2>2. Cardinality(F) = 1
    BY <1>2, <1>5, <2>1
  <2>3. QED BY <1>2, <2>2, FS_Singleton
<1>6. QED BY <1>3, <1>4, <1>5

LEMMA OneOfAnId ==
  ASSUME NEW R, RecordsOK(R), NEW t \in Slots, NEW id
  PROVE  \A q, r \in {r \in In(R, t) : r.id = id} : q = r
<1>1. NumberedTo(R, t, Count(R, t))
  BY DEF RecordsOK, Numbered
<1>2. QED BY <1>1 DEF NumberedTo

\* The run can go on from a lookup that the preflight could go on from.
LEMMA RunGoesWell ==
  ASSUME NEW i, i.asks \subseteq PartSlots, NEW s \in i.asks, NEW R, RecordsOK(R),
         NEW k, k = 2 * Turn(s) - 1, NEW h, NEW needs, NEW g, Follows(i, R, k, h, needs, g)
  PROVE  GoesWell(i, Hits(i, R, h, s), s, g[s])
<1> DEFINE hits == Hits(i, R, h, s)
<1>1. s \in PartSlots /\ s \in Slots /\ Turn(s) \in 1..5 /\ Ahead(s, k)
      /\ HangsOn[s] \subseteq Tops /\ (s \in Tops => HangsOn[s] = {})
      /\ \A p \in HangsOn[s] : p \in Tops /\ p \in PartSlots /\ Turn(p) \in 1..5 /\ Turn(p) < Turn(s)
  BY Hangs, Turns DEF Ahead
<1>2. GoesWell(i, Hits(i, R, g, s), s, g[s])
  BY <1>1 DEF Follows
<1>3. ASSUME NEW p \in HangsOn[s]
      PROVE  /\ p \notin i.asks => g[p] = None /\ h[p] = None
             /\ p \in i.asks /\ g[p] # Planned => h[p] = g[p]
             /\ p \in i.asks /\ g[p] = Planned => Newborn(i, R, k, h, p)
  <2>1. ~Ahead(p, k) /\ k # 2 * Turn(p)
    BY <1>1 DEF Ahead
  <2>2. QED BY <1>1, <2>1 DEF Follows
<1>4. None # Planned
  BY DEF None, Planned
<1>5. CASE \A p \in HangsOn[s] : g[p] # Planned
  <2>1. \A p \in HangsOn[s] : h[p] = g[p]
    BY <1>3, <1>5
  <2>2. hits = Hits(i, R, g, s)
    BY <2>1, HitsAgree
  <2>3. QED BY <1>2, <2>2
<1>6. ASSUME NEW p \in HangsOn[s], g[p] = Planned
      PROVE  GoesWell(i, hits, s, g[s])
  <2>1. s \notin Tops /\ s \notin Companies
    BY <1>1, <1>6, Hangs
  <2>2. Hits(i, R, g, s) = {}
    BY <1>6, HitsAre
  <2>3. s \in i.able \/ s = "manufacturer_part"
    BY <1>2, <2>2 DEF GoesWell
  <2>4. Newborn(i, R, k, h, p)
    BY <1>3, <1>4, <1>6
  <2>5. \A r \in In(R, s) : r.under[p] # h[p]
    BY <1>1, <1>6, <2>4 DEF Newborn
  <2>6. CASE \E q \in HangsOn[s] : h[q] = Planned
    <3>1. hits = {}
      BY <2>6, HitsAre
    <3>2. QED BY <2>1, <2>3, <3>1 DEF GoesWell
  <2>7. CASE (\A q \in HangsOn[s] : h[q] # Planned) /\ s \notin i.byId
    <3>1. hits = {}
      <4>1. \A r \in hits : r \in In(R, s) /\ r.under = [q \in HangsOn[s] |-> h[q]]
        BY <2>7, HitsAre
      <4>2. \A r \in hits : r \in In(R, s) /\ r.under[p] = h[p]
        BY <1>6, <4>1
      <4>3. QED BY <2>5, <4>2
    <3>2. QED BY <2>1, <2>3, <3>1 DEF GoesWell
  <2>8. CASE (\A q \in HangsOn[s] : h[q] # Planned) /\ s \in i.byId
    <3>1. hits = {r \in In(R, s) : r.id = 1}
      BY <2>8, HitsAre
    <3>2. \A q, r \in hits : q = r
      BY <1>1, <3>1, OneOfAnId
    <3> HIDE DEF hits
    <3>3. hits = {} \/ \E r : hits = {r}
      <4>1. SUFFICES ASSUME NEW r \in hits PROVE hits = {r}
        OBVIOUS
      <4>2. QED BY <3>2
    <3>4. QED BY <2>1, <2>3, <3>3 DEF GoesWell
  <2>9. QED BY <2>6, <2>7, <2>8
<1>7. QED BY <1>5, <1>6

\* What a lookup that goes on makes of its slot, which is held as v if it is to be created.
Looked(i, R, h, s, holds, needs, v) ==
  LET hits == Hits(i, R, h, s) IN
  \/ \E r : /\ hits = {r} /\ (s \in Companies => r.fits)
            /\ holds = [h EXCEPT ![s] = r.id] /\ (s = "extra" => needs[s] # "nothing")
  \/ /\ hits = {} /\ s \in i.able /\ needs[s] = "create"
     /\ holds = [h EXCEPT ![s] = v]
  \/ hits = {} /\ s = "manufacturer_part" /\ holds = h

LEMMA LooksApart ==
  ASSUME NEW i, NEW R, NEW h, DOMAIN h = Slots, NEW s \in Slots, NEW holds, NEW needs, NEW v,
         Looked(i, R, h, s, holds, needs, v)
  PROVE  \A t \in Slots : t # s => holds[t] = h[t]
BY DEF Looked

\* In the preflight, what is found out about the slot is what its lookup needs.
LEMMA LookingAhead ==
  ASSUME NEW i, i.asks \subseteq PartSlots, NEW s \in i.asks, NEW R, RecordsOK(R),
         NEW k, k = 2 * Turn(s) - 1, NEW h, DOMAIN h = Slots, NEW holds, NEW needs,
         Looked(i, R, h, s, holds, needs, Planned), Preflighted(i, R, k, h)
  PROVE  Preflighted(i, R, k + 1, holds)
<1>1. /\ s \in PartSlots /\ s \in Slots /\ Turn(s) \in 1..5
      /\ HangsOn[s] \subseteq Slots /\ s \notin HangsOn[s] /\ s \notin {"extra"}
      /\ ("manufacturer_part" \notin Tops) /\ Tops \subseteq Slots
  BY Hangs, Turns DEF PartSlots
<1>2. \A t \in Slots : t # s => holds[t] = h[t]
  <2>1. s \in Slots
    BY <1>1
  <2>2. QED BY <2>1, LooksApart
<1>3. \A t \in Tops \ i.asks : holds[t] = None
  BY <1>1, <1>2 DEF Preflighted
<1>4. Hits(i, R, holds, s) = Hits(i, R, h, s)
  BY <1>1, <1>2, HitsAgree
<1>5. GoesWell(i, Hits(i, R, h, s), s, holds[s])
  BY <1>1 DEF Looked, GoesWell
<1>6. ASSUME NEW t \in i.asks, ~Ahead(t, k + 1), t # s
      PROVE  GoesWell(i, Hits(i, R, holds, t), t, holds[t])
  <2>1. /\ t \in PartSlots /\ t \in Slots /\ Turn(t) \in 1..5 /\ Turn(t) # Turn(s)
        /\ HangsOn[t] \subseteq Slots /\ \A p \in HangsOn[t] : Turn(p) < Turn(t)
    BY <1>1, <1>6, Hangs, Turns, UpsertTurns
  <2>2. Turn(t) < Turn(s) /\ ~Ahead(t, k)
    BY <1>1, <1>6, <2>1 DEF Ahead
  <2>3. s \notin HangsOn[t]
    BY <1>1, <2>1, <2>2
  <2>4. Hits(i, R, holds, t) = Hits(i, R, h, t)
    BY <1>2, <2>1, <2>3, HitsAgree
  <2>5. GoesWell(i, Hits(i, R, h, t), t, h[t])
    BY <2>2 DEF Preflighted
  <2>6. QED BY <1>2, <1>6, <2>1, <2>4, <2>5
<1>7. QED BY <1>3, <1>4, <1>5, <1>6 DEF Preflighted

\* In the run, it is as the preflight found it.
LEMMA LookingAgain ==
  ASSUME NEW i, i.asks \subseteq PartSlots, NEW s \in i.asks, NEW R, RecordsOK(R),
         NEW k, k = 2 * Turn(s) - 1, NEW h, DOMAIN h = Slots, NEW holds, NEW needs, NEW needs0, NEW g,
         Looked(i, R, h, s, holds, needs, None), Follows(i, R, k, h, needs0, g)
  PROVE  Follows(i, R, k + 1, holds, needs, g)
<1>1. /\ s \in PartSlots /\ s \in Slots /\ Turn(s) \in 1..5
      /\ "manufacturer_part" \notin Tops /\ Tops \subseteq Slots /\ (s \in Tops => HangsOn[s] = {})
      /\ k \in Nat
  BY Hangs, Turns
<1>2. \A t \in Slots : t # s => holds[t] = h[t]
  <2>1. s \in Slots
    BY <1>1
  <2>2. QED BY <2>1 DEF Looked
<1>3. \A t \in i.asks : Ahead(t, k + 1) => GoesWell(i, Hits(i, R, g, t), t, g[t])
  <2>1. \A t \in i.asks : Ahead(t, k + 1) => Ahead(t, k)
    BY <1>1, Turns DEF Ahead
  <2>2. QED BY <2>1 DEF Follows
<1>4. \A t \in Tops \ i.asks : g[t] = None /\ holds[t] = None
  BY <1>1, <1>2 DEF Follows
<1>5. ASSUME s \in Tops
      PROVE  IF g[s] = Planned THEN k + 1 = 2 * Turn(s) /\ needs[s] # "nothing" /\ holds[s] = None
             ELSE holds[s] = g[s] /\ holds[s] # None
  <2>1. Hits(i, R, g, s) = Hits(i, R, h, s)
    BY <1>1, <1>5, HitsAgree
  <2>2. GoesWell(i, Hits(i, R, h, s), s, g[s])
    <3>1. Ahead(s, k)
      BY <1>1 DEF Ahead
    <3>2. QED BY <2>1, <3>1 DEF Follows
  <2>3. ASSUME NEW r, Hits(i, R, h, s) = {r}
        PROVE  g[s] = r.id /\ r.id # None /\ r.id # Planned
    <3>1. g[s] = r.id
      BY <1>5, <2>2, <2>3 DEF GoesWell
    <3>2. r \in In(R, s) /\ NumberedTo(R, s, Count(R, s))
      BY <1>1, <2>3, HitsAre DEF RecordsOK, Numbered
    <3>3. r.id \in 1..Count(R, s) /\ Count(R, s) \in Nat
      BY <3>2 DEF NumberedTo
    <3>4. QED BY <3>1, <3>3 DEF None, Planned
  <2>4. Hits(i, R, h, s) = {} => g[s] = Planned
    BY <1>1, <1>5, <2>2 DEF GoesWell
  <2>5. k + 1 = 2 * Turn(s)
    BY <1>1
  <2>6. CASE \E r : /\ Hits(i, R, h, s) = {r} /\ holds = [h EXCEPT ![s] = r.id]
    BY <1>1, <2>3, <2>6
  <2>7. CASE Hits(i, R, h, s) = {} /\ needs[s] = "create" /\ holds = [h EXCEPT ![s] = None]
    BY <1>1, <2>4, <2>5, <2>7
  <2>8. QED BY <1>1, <1>5, <2>6, <2>7 DEF Looked
<1>6. ASSUME NEW t \in Tops \cap i.asks, ~Ahead(t, k + 1), t # s
      PROVE  IF g[t] = Planned THEN Newborn(i, R, k + 1, holds, t)
             ELSE holds[t] = g[t] /\ holds[t] # None
  <2>1. /\ t \in PartSlots /\ t \in Slots /\ Turn(t) \in 1..5 /\ Turn(t) # Turn(s)
    BY <1>1, <1>6, Turns, UpsertTurns
  <2>2. ~Ahead(t, k) /\ k # 2 * Turn(t)
    BY <1>1, <1>6, <2>1 DEF Ahead
  <2>3. holds[t] = h[t]
    BY <1>2, <1>6, <2>1
  <2>4. CASE g[t] = Planned
    <3>1. Newborn(i, R, k, h, t)
      BY <1>6, <2>2, <2>4 DEF Follows
    <3>2. \A u \in i.asks : Ahead(u, k + 1) => Ahead(u, k)
      BY <1>1, Turns DEF Ahead
    <3>3. Newborn(i, R, k + 1, holds, t)
      BY <2>3, <3>1, <3>2 DEF Newborn
    <3>4. QED BY <2>4, <3>3
  <2>5. CASE g[t] # Planned
    BY <1>6, <2>2, <2>3, <2>5 DEF Follows
  <2>6. QED BY <2>4, <2>5
<1>7. QED BY <1>3, <1>4, <1>5, <1>6 DEF Follows

\* A lookup lists nothing as created.
LEMMA ListingLooked ==
  ASSUME NEW s \in PartSlots, NEW R, NEW k, k = 2 * Turn(s) - 1, NEW h, NEW holds,
         \A t \in Slots : t # s => holds[t] = h[t], NEW done, Listing(R, k, h, done),
         NEW more, more \subseteq done \cup {<<s, "reused">>, <<s, "skipped">>}
  PROVE  Listing(R, k + 1, holds, more)
<1>1. Turn(s) \in 1..5 /\ Ahead(s, k) /\ ~Ahead(s, k + 1)
  BY Turns DEF Ahead
<1>2. SUFFICES ASSUME NEW a \in more
               PROVE  a[1] \in PartSlots /\ ~Ahead(a[1], k + 1)
                      /\ (a[2] = "created" => Shown(R, holds, a[1]))
  BY DEF Listing
<1>3. CASE a \in done
  <2>1. a[1] \in PartSlots /\ ~Ahead(a[1], k) /\ (a[2] = "created" => Shown(R, h, a[1]))
    BY <1>3 DEF Listing
  <2>2. a[1] # s /\ a[1] \in Slots /\ Turn(a[1]) \in 1..5
    BY <1>1, <2>1, Hangs, Turns
  <2>3. holds[a[1]] = h[a[1]]
    BY <2>2
  <2>4. ~Ahead(a[1], k + 1)
    BY <1>1, <2>1, <2>2 DEF Ahead
  <2>5. QED BY <2>1, <2>3, <2>4 DEF Shown
<1>4. CASE a \notin done
  <2>1. a = <<s, "reused">> \/ a = <<s, "skipped">>
    BY <1>2, <1>4
  <2>2. a[1] = s /\ a[2] # "created"
    BY <2>1
  <2>3. QED BY <1>1, <2>2
<1>5. QED BY <1>3, <1>4

LEMMA FoundHits ==
  ASSUME ~Fixture, NEW c, NEW s
  PROVE  Found(c, s) = Hits(input, records, held[c], s)
<1>1. Parents = HangsOn
  BY ParentsOfTools
<1>2. QED BY <1>1 DEF Found, Hits, Unborn, Under

\* How a lookup ends: a part workflow asks only if it cannot go on.
LEMMA LookOutcomes ==
  ASSUME IInv, InputAssumption, ~Fixture, RecordsOK(records), NEW c \in Callers, Look(c),
         \A t \in Slots : need[c][t] # "recovery"
  PROVE  LET s == Now(c).slot IN
         \/ Answer(c, "clarification", {}, {})
         \/ /\ Clarify(c, s)
            /\ IsUpsert(input) => \A g : ~GoesWell(input, Hits(input, records, held[c], s), s, g)
         \/ \E holds, needs, done :
              /\ Proceed(c, holds, needs, done)
              /\ Looked(input, records, held[c], s, holds, needs, IF Writing(c) THEN None ELSE Planned)
              /\ \A t \in Slots : needs[t] # "recovery" /\ (t # s => needs[t] = need[c][t])
              /\ done \subseteq actions[c] \cup {<<s, "reused">>, <<s, "skipped">>}
<1> DEFINE s == Now(c).slot
<1> DEFINE hits == Hits(input, records, held[c], s)
<1> DEFINE v == IF Writing(c) THEN None ELSE Planned
<1> DEFINE GoesOn(holds, needs, done) ==
      /\ Proceed(c, holds, needs, done)
      /\ Looked(input, records, held[c], s, holds, needs, v)
      /\ \A t \in Slots : needs[t] # "recovery" /\ (t # s => needs[t] = need[c][t])
      /\ done \subseteq actions[c] \cup {<<s, "reused">>, <<s, "skipped">>}
<1>1. Busy(c) /\ Now(c).op = "look"
  BY DEF Look
<1>2. /\ s \in Slots /\ s \in input.asks /\ DOMAIN need[c] = Slots
      /\ IsUpsert(input) => s \in PartSlots
  BY <1>1, Running, Asked DEF IInv
<1>3. hits \subseteq In(records, s) /\ Found(c, s) = hits
  BY HitsAre, FoundHits
<1>4. /\ hits = {} => ~ (Cardinality(hits) > 1)
      /\ \A r : hits = {r} => ~ (Cardinality(hits) > 1)
      /\ ~ (Cardinality(hits) > 1) /\ hits # {} => \E r : hits = {r}
  <2> HIDE DEF hits, s
  <2>1. QED BY <1>2, <1>3, Singly
<1>5. \A n : /\ DOMAIN [need[c] EXCEPT ![s] = n] = Slots
             /\ [need[c] EXCEPT ![s] = n][s] = n
             /\ \A t \in Slots : t # s => [need[c] EXCEPT ![s] = n][t] = need[c][t]
  BY <1>2
<1> HIDE DEF hits
<1>6. CASE s = "supplier_part" /\ ~input.sku
  BY <1>6 DEF Look
<1>7. CASE ~ (s = "supplier_part" /\ ~input.sku) /\ Cardinality(hits) > 1
  <2>1. Clarify(c, s)
    BY <1>3, <1>7 DEF Look
  <2>2. \A g : ~GoesWell(input, hits, s, g)
    BY <1>4, <1>7 DEF GoesWell
  <2>3. QED BY <2>1, <2>2 DEF hits
<1>8. CASE ~ (s = "supplier_part" /\ ~input.sku) /\ ~ (Cardinality(hits) > 1) /\ hits # {}
  <2>1. PICK r : hits = {r}
    BY <1>4, <1>8
  <2>2. (CHOOSE q \in hits : TRUE) = r
    BY <2>1
  <2>3. CASE Unusable(s, r)
    <3>1. Clarify(c, s)
      BY <1>3, <1>8, <2>2, <2>3 DEF Look
    <3>2. IsUpsert(input) => \A g : ~GoesWell(input, hits, s, g)
      <4>1. SUFFICES ASSUME IsUpsert(input), NEW g, GoesWell(input, hits, s, g) PROVE FALSE
        OBVIOUS
      <4>2. s \in Companies => r.fits
        BY <2>1, <4>1 DEF GoesWell
      <4>3. s \notin {"order", "line"}
        BY <1>2, <4>1 DEF PartSlots
      <4>4. QED BY <2>3, <4>2, <4>3 DEF Unusable
    <3>3. QED BY <3>1, <3>2 DEF hits
  <2>4. CASE ~Unusable(s, r)
    <3> DEFINE holds == [held[c] EXCEPT ![s] = r.id]
    <3> DEFINE needs == [need[c] EXCEPT ![s] = NeedOf(s)]
    <3> DEFINE done == actions[c] \cup IF s \in {"line", "extra"} THEN {} ELSE {<<s, "reused">>}
    <3>1. Proceed(c, holds, needs, done)
      BY <1>3, <1>8, <2>2, <2>4 DEF Look
    <3>2. NeedOf(s) # "recovery" /\ (s = "extra" => NeedOf(s) # "nothing")
      BY DEF NeedOf
    <3>3. s \in Companies => r.fits
      BY <2>4 DEF Unusable
    <3>4. Looked(input, records, held[c], s, holds, needs, v)
      BY <1>5, <2>1, <3>2, <3>3 DEF Looked, hits
    <3>5. \A t \in Slots : needs[t] # "recovery" /\ (t # s => needs[t] = need[c][t])
      BY <1>5, <3>2
    <3>6. done \subseteq actions[c] \cup {<<s, "reused">>, <<s, "skipped">>}
      OBVIOUS
    <3> HIDE DEF holds, needs, done
    <3>7. QED BY <3>1, <3>4, <3>5, <3>6
  <2>5. QED BY <2>3, <2>4
<1>9. CASE ~ (s = "supplier_part" /\ ~input.sku) /\ hits = {} /\ s \in input.able
  <2> DEFINE holds == [held[c] EXCEPT ![s] = v]
  <2> DEFINE needs == [need[c] EXCEPT ![s] = "create"]
  <2>1. Proceed(c, holds, needs, actions[c])
    BY <1>3, <1>4, <1>9 DEF Look
  <2>2. Looked(input, records, held[c], s, holds, needs, v)
    BY <1>5, <1>9 DEF Looked, hits
  <2>3. \A t \in Slots : needs[t] # "recovery" /\ (t # s => needs[t] = need[c][t])
    BY <1>5
  <2> HIDE DEF holds, needs
  <2>4. QED BY <2>1, <2>2, <2>3
<1>10. CASE ~ (s = "supplier_part" /\ ~input.sku) /\ hits = {} /\ s \notin input.able
            /\ s = "manufacturer_part"
  <2> DEFINE done == actions[c] \cup {<<s, "skipped">>}
  <2>1. Proceed(c, held[c], need[c], done)
    BY <1>3, <1>4, <1>10 DEF Look
  <2>2. Looked(input, records, held[c], s, held[c], need[c], v)
    BY <1>10 DEF Looked, hits
  <2>3. done \subseteq actions[c] \cup {<<s, "reused">>, <<s, "skipped">>}
    OBVIOUS
  <2> HIDE DEF done
  <2>4. QED BY <2>1, <2>2, <2>3
<1>11. CASE ~ (s = "supplier_part" /\ ~input.sku) /\ hits = {} /\ s \notin input.able
            /\ s # "manufacturer_part"
  <2>1. Clarify(c, s)
    BY <1>3, <1>4, <1>11 DEF Look
  <2>2. \A g : ~GoesWell(input, hits, s, g)
    BY <1>11 DEF GoesWell
  <2>3. QED BY <2>1, <2>2 DEF hits
<1>12. QED BY <1>6, <1>7, <1>8, <1>9, <1>10, <1>11

\* What is known of a busy call that nothing came in the way of.
LEMMA Untouched ==
  ASSUME IInv, InputAssumption, Causes, ~Fixture, NEW c \in Callers, Busy(c), ~Excused(c)
  PROVE  /\ Undisturbed(input, records, pass[c], at[c], held[c], need[c], actions[c])
         /\ ReadsBackHeld(input, pass[c], at[c], held[c])
         /\ \A t \in Slots : need[c][t] # "recovery"
BY DEF Causes, CauseInv, Undisturbed

LEMMA InWorld ==
  ASSUME Causes, ~Fixture, NEW c \in Callers
  PROVE  /\ HistoryShape /\ DOMAIN held = Callers /\ RecordsOK(records) /\ LateOK /\ HoldsOK(records, pass[c], held[c])
         /\ held[c] \in [Slots -> Int] /\ DOMAIN held[c] = Slots
BY DEF Causes, World, HoldsOK

LEMMA LookWell ==
  ASSUME IInv, InputAssumption, Causes, ~Fixture, NEW c \in Callers, ~Excused(c), Look(c)
  PROVE  Well(input, records, pass'[c], at'[c], held'[c], need'[c], actions'[c], answer'[c])
<1> DEFINE s == Now(c).slot
<1> DEFINE k == at[c]
<1> DEFINE h == held[c]
<1> DEFINE v == IF Writing(c) THEN None ELSE Planned
<1>1. Shape /\ Busy(c) /\ Now(c).op = "look" /\ RecordsOK(records) /\ DOMAIN h = Slots
      /\ DOMAIN held = Callers
  BY InWorld DEF IInv, Look
<1>2. /\ OnCourse(input, pass[c], k, need[c], actions[c], sent[c])
      /\ Position(input, pass[c], k) /\ s \in input.asks /\ s \in Slots
      /\ IsUpsert(input) => k \in 1..12 /\ Now(c) = ToolSteps("upsert")[k] /\ input.asks \subseteq PartSlots
      /\ ~IsUpsert(input) => k \in 1..10 /\ Now(c) = ToolSteps("order")[k]
  BY <1>1, Running, Asked
<1>3. /\ Undisturbed(input, records, pass[c], k, h, need[c], actions[c])
      /\ \A t \in Slots : need[c][t] # "recovery"
  BY <1>1, Untouched
<1>4. IsUpsert(input) => s \in PartSlots /\ k = 2 * Turn(s) - 1
  BY <1>1, <1>2, UpsertTurns
<1>5. ASSUME NEW done, Answer(c, "clarification", done, {})
      PROVE  Well(input, records, pass'[c], at'[c], held'[c], need'[c], actions'[c], answer'[c])
  <2>1. pass'[c] = "idle" /\ answer'[c] = [kind |-> "clarification", actions |-> done, remaining |-> {}]
    BY <1>1, <1>5 DEF Answer, Shape
  <2>2. QED BY <1>5, <2>1 DEF Well
<1>6. CASE /\ Clarify(c, s)
           /\ IsUpsert(input) => \A g : ~GoesWell(input, Hits(input, records, h, s), s, g)
  <2>1. CASE ~IsUpsert(input)
    <3>1. Answer(c, "clarification", actions[c], {})
      BY <1>1, <1>6, <2>1, Asked DEF Clarify
    <3>2. QED BY <1>5, <3>1
  <2>2. CASE IsUpsert(input) /\ pass[c] # "run"
    <3>1. ~Applied(actions[c])
      BY <1>2, <2>2 DEF OnCourse
    <3>2. Answer(c, "clarification", {}, {})
      BY <1>1, <1>6, <2>2, <3>1, Asked DEF Clarify, partUpsertResolutionClarification
    <3>3. QED BY <1>5, <3>2
  <2>3. CASE IsUpsert(input) /\ pass[c] = "run"
    <3>1. PICK g : Follows(input, records, k, h, need[c], g)
      BY <1>3, <2>3 DEF Undisturbed
    <3> HIDE DEF s, k, h
    <3>2. GoesWell(input, Hits(input, records, h, s), s, g[s])
      BY <1>1, <1>2, <1>4, <2>3, <3>1, RunGoesWell
    <3>3. QED BY <1>6, <2>3, <3>2
  <2>4. QED BY <2>1, <2>2, <2>3
<1>7. ASSUME NEW holds, NEW needs, NEW done, Proceed(c, holds, needs, done),
             Looked(input, records, h, s, holds, needs, v),
             \A t \in Slots : needs[t] # "recovery" /\ (t # s => needs[t] = need[c][t]),
             done \subseteq actions[c] \cup {<<s, "reused">>, <<s, "skipped">>}
      PROVE  Well(input, records, pass'[c], at'[c], held'[c], need'[c], actions'[c], answer'[c])
  <2>1. pass[c] = "preflight" => Preflighted(input, records, k + 1, holds)
    <3>1. SUFFICES ASSUME pass[c] = "preflight" PROVE Preflighted(input, records, k + 1, holds)
      OBVIOUS
    <3>2. IsUpsert(input) /\ v = Planned
      BY <1>2, <3>1 DEF Position, Writing
    <3>3. Looked(input, records, h, s, holds, needs, Planned)
      BY <1>7, <3>2
    <3>4. Preflighted(input, records, k, h)
      BY <1>3, <3>1 DEF Undisturbed
    <3> HIDE DEF s, k, h, v
    <3>5. input.asks \subseteq PartSlots /\ s \in input.asks /\ RecordsOK(records)
          /\ k = 2 * Turn(s) - 1 /\ DOMAIN h = Slots
      BY <1>1, <1>2, <1>4, <3>2
    <3>6. QED BY <3>3, <3>4, <3>5, LookingAhead
  <2>2. pass[c] = "run" /\ IsUpsert(input) =>
          /\ \E g : Follows(input, records, k + 1, holds, needs, g)
          /\ Listing(records, k + 1, holds, done)
    <3>1. SUFFICES ASSUME pass[c] = "run", IsUpsert(input)
                   PROVE  /\ \E g : Follows(input, records, k + 1, holds, needs, g)
                          /\ Listing(records, k + 1, holds, done)
      OBVIOUS
    <3>2. v = None
      BY <3>1 DEF Writing
    <3>3. Looked(input, records, h, s, holds, needs, None)
      BY <1>7, <3>2
    <3>4. PICK g : Follows(input, records, k, h, need[c], g)
      BY <1>3, <3>1 DEF Undisturbed
    <3>5. Listing(records, k, h, actions[c])
      BY <1>3, <3>1 DEF Undisturbed
    <3>6. \A t \in Slots : t # s => holds[t] = h[t]
      BY <1>1, <1>2, <3>3 DEF Looked
    <3> HIDE DEF s, k, h, v
    <3>7. input.asks \subseteq PartSlots /\ s \in input.asks /\ RecordsOK(records) /\ s \in PartSlots
          /\ k = 2 * Turn(s) - 1 /\ DOMAIN h = Slots
      BY <1>1, <1>2, <1>4, <3>1
    <3>8. Follows(input, records, k + 1, holds, needs, g)
      BY <3>3, <3>4, <3>7, LookingAgain
    <3>9. Listing(records, k + 1, holds, done)
      BY <1>7, <3>5, <3>6, <3>7, ListingLooked
    <3>10. QED BY <3>8, <3>9
  <2>3. pass[c] = "run" /\ ~IsUpsert(input) => LinesWritten(input, records, k + 1, holds, needs)
    <3>1. SUFFICES ASSUME pass[c] = "run", ~IsUpsert(input)
                   PROVE  LinesWritten(input, records, k + 1, holds, needs)
      OBVIOUS
    <3>2. k \in {1, 2, 4, 5} /\ (k = 5 => s = "extra")
      <4> DEFINE P == ToolSteps("order")
      <4>1. /\ P[3].op # "look" /\ P[6].op # "look" /\ P[7].op # "look" /\ P[8].op # "look"
            /\ P[9].op # "look" /\ P[10].op # "look" /\ P[5].slot = "extra"
        BY OrderSteps DEF Step
      <4>2. k \in 1..10 /\ P[k].op = "look" /\ s = P[k].slot
        BY <1>1, <1>2, <3>1
      <4> HIDE DEF P, k, s
      <4>3. \/ k = 1 \/ k = 2 \/ k = 3 \/ k = 4 \/ k = 5 \/ k = 6 \/ k = 7 \/ k = 8 \/ k = 9 \/ k = 10
        BY <4>2
      <4>4. QED BY <4>1, <4>2, <4>3
    <3>3. s = "extra" => needs[s] # "nothing"
      BY <1>7 DEF Looked
    <3> HIDE DEF k, s
    <3>4. k + 1 \in {2, 3, 5, 6} /\ (k + 1 = 6 => needs["extra"] # "nothing")
      BY <3>2, <3>3
    <3>5. QED BY <3>4 DEF LinesWritten
  <2> HIDE DEF k, h, s, v
  <2>4. Undisturbed(input, records, pass[c], k + 1, holds, needs, done)
    BY <1>7, <2>1, <2>2, <2>3 DEF Undisturbed
  <2>5. QED BY <1>1, <1>2, <1>7, <2>4, Onward DEF k
<1>8. \/ Answer(c, "clarification", {}, {})
      \/ /\ Clarify(c, s)
         /\ IsUpsert(input) => \A g : ~GoesWell(input, Hits(input, records, h, s), s, g)
      \/ \E holds, needs, done :
           /\ Proceed(c, holds, needs, done)
           /\ Looked(input, records, h, s, holds, needs, v)
           /\ \A t \in Slots : needs[t] # "recovery" /\ (t # s => needs[t] = need[c][t])
           /\ done \subseteq actions[c] \cup {<<s, "reused">>, <<s, "skipped">>}
  BY <1>1, <1>3, LookOutcomes
<1> HIDE DEF s, k, h, v
<1>9. CASE Answer(c, "clarification", {}, {})
  BY <1>5, <1>9
<1>10. CASE \E holds, needs, done :
           /\ Proceed(c, holds, needs, done)
           /\ Looked(input, records, h, s, holds, needs, v)
           /\ \A t \in Slots : needs[t] # "recovery" /\ (t # s => needs[t] = need[c][t])
           /\ done \subseteq actions[c] \cup {<<s, "reused">>, <<s, "skipped">>}
  BY <1>7, <1>10
<1>11. QED BY <1>6, <1>8, <1>9, <1>10

-----------------------------------------------------------------------------
(* Writing.                                                                   *)

\* The run goes on from a write as from a record that was there.
LEMMA WroteAgain ==
  ASSUME NEW i, i.asks \subseteq PartSlots, NEW s \in i.asks, NEW R, RecordsOK(R), NEW R2,
         \A t \in Slots : t # s => In(R2, t) = In(R, t),
         NEW k, k = 2 * Turn(s), NEW h, DOMAIN h = Slots, NEW n, n = Count(R, s) + 1,
         NEW holds, holds = [h EXCEPT ![s] = IF h[s] = None THEN n ELSE h[s]],
         NEW needs, NEW needs0, NEW g, Follows(i, R, k, h, needs0, g)
  PROVE  Follows(i, R2, k + 1, holds, needs, g)
<1>1. /\ s \in PartSlots /\ s \in Slots /\ Turn(s) \in 1..5 /\ Tops \subseteq Slots /\ k \in Nat
  BY Hangs, Turns
<1>2. (\A t \in Slots : t # s => holds[t] = h[t]) /\ holds[s] = (IF h[s] = None THEN n ELSE h[s])
  BY <1>1
<1>3. ASSUME NEW t \in i.asks, Ahead(t, k + 1)
      PROVE  t \in Slots /\ t # s /\ Ahead(t, k) /\ In(R2, t) = In(R, t)
  <2>1. t \in Slots /\ Turn(t) \in 1..5
    BY Hangs, Turns
  <2>2. t # s /\ Ahead(t, k)
    BY <1>1, <1>3, <2>1 DEF Ahead
  <2>3. QED BY <2>1, <2>2
<1>4. \A t \in i.asks : Ahead(t, k + 1) => GoesWell(i, Hits(i, R2, g, t), t, g[t])
  <2>1. SUFFICES ASSUME NEW t \in i.asks, Ahead(t, k + 1)
                 PROVE  GoesWell(i, Hits(i, R2, g, t), t, g[t])
    OBVIOUS
  <2>2. Ahead(t, k) /\ In(R2, t) = In(R, t)
    BY <1>3, <2>1
  <2>3. Hits(i, R2, g, t) = Hits(i, R, g, t)
    BY <2>2, HitsAgree
  <2>4. QED BY <2>2, <2>3 DEF Follows
<1>5. \A t \in Tops \ i.asks : g[t] = None /\ holds[t] = None
  BY <1>1, <1>2 DEF Follows
<1>6. Count(R, s) \in Nat /\ n \in Nat /\ n # None /\ n = Count(R, s) + 1
  <2>1. Count(R, s) \in Nat
    BY <1>1, NumberedFinite DEF RecordsOK
  <2>2. QED BY <2>1 DEF None
<1>7. ASSUME s \in Tops
      PROVE  IF g[s] = Planned THEN Newborn(i, R2, k + 1, holds, s)
             ELSE holds[s] = g[s] /\ holds[s] # None
  <2>1. ~Ahead(s, k)
    BY <1>1 DEF Ahead
  <2>2. CASE g[s] # Planned
    BY <1>2, <1>7, <2>1, <2>2 DEF Follows
  <2>3. CASE g[s] = Planned /\ h[s] # None
    <3>1. Newborn(i, R, k, h, s)
      BY <1>7, <2>1, <2>3 DEF Follows
    <3>2. holds[s] = h[s]
      BY <1>2, <2>3
    <3>3. Newborn(i, R2, k + 1, holds, s)
      BY <1>3, <3>1, <3>2 DEF Newborn
    <3>4. QED BY <2>3, <3>3
  <2>4. CASE g[s] = Planned /\ h[s] = None
    <3>1. holds[s] = n
      BY <1>2, <2>4
    <3>2. ASSUME NEW u \in i.asks, Ahead(u, k + 1), NEW r \in In(R2, u), s \in HangsOn[u]
          PROVE  r.under[s] # n
      <4>1. r \in R /\ r.slot = u
        BY <1>3, <3>2 DEF In
      <4>2. Hung(R, u, r.under)
        BY <4>1 DEF RecordsOK
      <4>3. r.under[s] \in Nat /\ r.under[s] <= Count(R, s)
        BY <3>2, <4>2 DEF Hung
      <4>4. QED BY <1>6, <4>3
    <3>3. Newborn(i, R2, k + 1, holds, s)
      BY <1>6, <3>1, <3>2 DEF Newborn
    <3>4. QED BY <2>4, <3>3
  <2>5. QED BY <2>2, <2>3, <2>4
<1>8. ASSUME NEW t \in Tops \cap i.asks, ~Ahead(t, k + 1), t # s
      PROVE  IF g[t] = Planned THEN Newborn(i, R2, k + 1, holds, t)
             ELSE holds[t] = g[t] /\ holds[t] # None
  <2>1. /\ t \in PartSlots /\ t \in Slots /\ Turn(t) \in 1..5 /\ Turn(t) # Turn(s)
    BY <1>1, <1>8, Turns, UpsertTurns
  <2>2. ~Ahead(t, k) /\ k # 2 * Turn(t)
    BY <1>1, <1>8, <2>1 DEF Ahead
  <2>3. holds[t] = h[t]
    BY <1>2, <1>8, <2>1
  <2>4. CASE g[t] = Planned
    <3>1. Newborn(i, R, k, h, t)
      BY <1>8, <2>2, <2>4 DEF Follows
    <3>2. Newborn(i, R2, k + 1, holds, t)
      BY <1>3, <2>3, <3>1 DEF Newborn
    <3>3. QED BY <2>4, <3>2
  <2>5. CASE g[t] # Planned
    BY <1>8, <2>2, <2>3, <2>5 DEF Follows
  <2>6. QED BY <2>4, <2>5
<1>9. QED BY <1>4, <1>5, <1>7, <1>8 DEF Follows

\* What is listed as created is there and as it should be.
LEMMA ListingWrote ==
  ASSUME NEW s \in PartSlots, NEW R, NEW R2, NEW k, k = 2 * Turn(s), NEW h, NEW holds,
         \A t \in Slots : t # s => holds[t] = h[t],
         \A t \in Slots : Shown(R, h, t) => Shown(R2, h, t), Shown(R2, holds, s),
         NEW done, Listing(R, k, h, done), NEW x
  PROVE  Listing(R2, k + 1, holds, done \cup {<<s, x>>})
<1>1. Turn(s) \in 1..5 /\ ~Ahead(s, k + 1)
  BY Turns DEF Ahead
<1>2. SUFFICES ASSUME NEW a \in done \cup {<<s, x>>}
               PROVE  a[1] \in PartSlots /\ ~Ahead(a[1], k + 1)
                      /\ (a[2] = "created" => Shown(R2, holds, a[1]))
  BY DEF Listing
<1>3. CASE a[1] = s
  BY <1>1, <1>3
<1>4. CASE a[1] # s
  <2>1. a \in done
    BY <1>4
  <2>2. a[1] \in PartSlots /\ ~Ahead(a[1], k) /\ (a[2] = "created" => Shown(R, h, a[1]))
    BY <2>1 DEF Listing
  <2>3. a[1] \in Slots /\ Turn(a[1]) \in 1..5
    BY <2>2, Hangs, Turns
  <2>4. holds[a[1]] = h[a[1]]
    BY <1>4, <2>3
  <2>5. ~Ahead(a[1], k + 1)
    BY <1>1, <2>2, <2>3 DEF Ahead
  <2>6. Shown(R2, h, a[1]) => Shown(R2, holds, a[1])
    BY <2>4 DEF Shown
  <2>7. QED BY <2>2, <2>3, <2>5, <2>6
<1>5. QED BY <1>3, <1>4

LEMMA WriteSound ==
  ASSUME IInv, InputAssumption, Causes, ~Fixture, NEW c \in Callers, AtWrite(c)
  PROVE  LET s == Now(c).slot IN
         /\ s \in Slots /\ s \in input.asks /\ held[c][s] \in 0..Count(records, s)
         /\ Write(c) = [slot |-> s, id |-> held[c][s], under |-> Under(c, s), caller |-> c,
                        call |-> calls]
         /\ WriteOK(records, Write(c))
<1> DEFINE s == Now(c).slot
<1> DEFINE h == held[c]
<1>1. Busy(c) /\ pass[c] = "run"
  BY WritePlace
<1>2. s \in Slots /\ s \in input.asks
  BY <1>1, Running
<1>3. HoldsOK(records, pass[c], h)
  BY InWorld
<1>4. \A t \in Slots : h[t] \in 0..Count(records, t)
  BY <1>1, <1>3 DEF HoldsOK
<1>5. \A t \in Slots : Count(records, t) \in Nat
  BY InWorld, NumberedFinite DEF RecordsOK
<1>6. Under(c, s) = [p \in HangsOn[s] |-> h[p]]
  BY ParentsOfTools DEF Under
<1> HIDE DEF s, h
<1>7. Hung(records, s, Under(c, s))
  <2>1. HangsOn[s] \subseteq Slots
    BY <1>2, Hangs
  <2>2. \A p \in HangsOn[s] : h[p] \in Nat /\ h[p] <= Count(records, p)
    BY <1>4, <1>5, <2>1
  <2>3. QED BY <1>6, <2>2 DEF Hung
<1>8. Write(c) = [slot |-> s, id |-> h[s], under |-> Under(c, s), caller |-> c, call |-> calls]
  BY DEF Write, s, h
<1>9. WriteOK(records, Write(c))
  BY <1>2, <1>4, <1>7, <1>8 DEF WriteOK
<1>10. QED BY <1>2, <1>4, <1>8, <1>9 DEF s, h

\* What a write leaves in InvenTree, and what the call then holds.
LEMMA Written ==
  ASSUME IInv, InputAssumption, Causes, ~Fixture, NEW c \in Callers, AtWrite(c),
         NEW R2, R2 = Stored(Write(c)), NEW holds,
         holds = [held[c] EXCEPT ![Now(c).slot] = IF @ = None THEN NewId(Now(c).slot) ELSE @]
  PROVE  LET s == Now(c).slot IN
         /\ RecordsOK(R2)
         /\ \A t \in Slots : Count(records, t) \in Nat /\ Count(R2, t) \in Nat
                             /\ Count(records, t) <= Count(R2, t)
         /\ \A t \in Slots : t # s => In(R2, t) = In(records, t)
         /\ \A t \in Slots : t # s => holds[t] = held[c][t]
         /\ holds = [held[c] EXCEPT ![s] = IF held[c][s] = None THEN NewId(s) ELSE held[c][s]]
         /\ NewId(s) = Count(records, s) + 1
         /\ Shown(R2, holds, s)
         /\ \A t \in Slots : Shown(records, held[c], t) => Shown(R2, held[c], t)
         /\ HoldsOK(R2, pass[c], holds)
<1> DEFINE s == Now(c).slot
<1> DEFINE h == held[c]
<1> DEFINE w == Write(c)
<1>1. /\ s \in Slots /\ h[s] \in 0..Count(records, s) /\ WriteOK(records, w)
      /\ w.slot = s /\ w.id = h[s] /\ w.under = Under(c, s)
  BY WriteSound
<1>2. /\ RecordsOK(records) /\ HoldsOK(records, pass[c], h) /\ DOMAIN h = Slots
      /\ h \in [Slots -> Int]
  BY InWorld
<1> HIDE DEF s, h, w
<1>3. /\ RecordsOK(R2)
      /\ \A t \in Slots : Count(records, t) \in Nat /\ Count(R2, t) \in Nat
                          /\ Count(records, t) <= Count(R2, t)
      /\ \A t \in Slots : t # s => In(R2, t) = In(records, t)
      /\ \E r \in In(R2, s) : r.id = (IF h[s] = None THEN NewId(s) ELSE h[s]) /\ r.fits
      /\ h[s] = None => NewId(s) <= Count(R2, s)
  BY <1>1, <1>2, Storing DEF w
<1>4. NewId(s) = Count(records, s) + 1
  BY DEF NewId, OfSlot, Count, In
<1>5. holds = [h EXCEPT ![s] = IF h[s] = None THEN NewId(s) ELSE h[s]]
  BY DEF h, s
<1>6. /\ \A t \in Slots : t # s => holds[t] = h[t]
      /\ holds[s] = (IF h[s] = None THEN NewId(s) ELSE h[s])
  BY <1>1, <1>2, <1>5
<1>7. Shown(R2, holds, s)
  BY <1>3, <1>6 DEF Shown
<1>8. \A t \in Slots : Shown(records, h, t) => Shown(R2, h, t)
  BY <1>1, <1>2, StoringShows DEF w
<1>9. HoldsOK(R2, pass[c], holds)
  <2>1. pass[c] = "run"
    BY WritePlace
  <2>2. \A t \in Slots : h[t] # Planned /\ h[t] \in 0..Count(records, t)
    BY <1>2, <2>1 DEF HoldsOK
  <2>3. holds[s] \in 0..Count(R2, s) /\ holds[s] # Planned
    <3>1. CASE h[s] = None
      <4>1. NewId(s) \in 0..Count(R2, s) /\ NewId(s) # Planned
        BY <1>1, <1>3, <1>4, <3>1 DEF Planned
      <4>2. QED BY <1>6, <3>1, <4>1
    <3>2. CASE h[s] # None
      <4>1. h[s] \in 0..Count(R2, s)
        BY <1>1, <1>3
      <4>2. QED BY <1>1, <1>6, <2>2, <3>2, <4>1
    <3>3. QED BY <3>1, <3>2
  <2>4. \A t \in Slots : holds[t] \in 0..Count(R2, t) /\ holds[t] # Planned
    <3>1. SUFFICES ASSUME NEW t \in Slots PROVE holds[t] \in 0..Count(R2, t) /\ holds[t] # Planned
      OBVIOUS
    <3>2. CASE t = s
      BY <2>3, <3>2
    <3>3. CASE t # s
      <4>1. h[t] \in 0..Count(R2, t)
        BY <1>3, <2>2
      <4>2. QED BY <1>6, <2>2, <3>3, <4>1
    <3>4. QED BY <3>2, <3>3
  <2>5. holds \in [Slots -> Int]
    <3>1. DOMAIN holds = Slots /\ holds = [t \in Slots |-> holds[t]]
      BY <1>2, <1>5
    <3>2. \A t \in Slots : holds[t] \in Int
      BY <2>4
    <3>3. QED BY <3>1, <3>2
  <2>6. QED BY <2>1, <2>4, <2>5 DEF HoldsOK
<1>10. QED BY <1>3, <1>4, <1>5, <1>6, <1>7, <1>8, <1>9 DEF s, h

LEMMA WriteWell ==
  ASSUME IInv, InputAssumption, Causes, ~Fixture, NEW c \in Callers, ~Excused(c), WriteAnswered(c)
  PROVE  Well(input, records', pass'[c], at'[c], held'[c], need'[c], actions'[c], answer'[c])
<1> DEFINE s == Now(c).slot
<1> DEFINE k == at[c]
<1> DEFINE h == held[c]
<1> DEFINE n == NewId(s)
<1> DEFINE holds == [h EXCEPT ![s] = IF h[s] = None THEN n ELSE h[s]]
<1> DEFINE needs == [need[c] EXCEPT ![s] = "nothing"]
<1> DEFINE done == actions[c] \cup {<<s, Done(c)>>}
<1> DEFINE R2 == Stored(Write(c))
<1>1. AtWrite(c) /\ records' = R2 /\ Proceed(c, holds, needs, done)
  BY DEF WriteAnswered
<1>2. /\ Shape /\ DOMAIN held = Callers /\ RecordsOK(records) /\ DOMAIN h = Slots
      /\ Busy(c) /\ pass[c] = "run" /\ (IsUpsert(input) => k = 2 * Turn(s))
  BY <1>1, InWorld, WritePlace DEF IInv
<1>3. /\ Position(input, pass[c], k) /\ s \in input.asks /\ s \in Slots /\ DOMAIN need[c] = Slots
      /\ IsUpsert(input) => input.asks \subseteq PartSlots
      /\ ~IsUpsert(input) => k \in 1..10 /\ Now(c) = ToolSteps("order")[k]
  BY <1>2, Running, Asked
<1>4. /\ Undisturbed(input, records, pass[c], k, h, need[c], actions[c])
      /\ \A t \in Slots : need[c][t] # "recovery"
  BY <1>2, Untouched
<1>5. /\ \A t \in Slots : t # s => In(R2, t) = In(records, t)
      /\ \A t \in Slots : t # s => holds[t] = h[t]
      /\ n = Count(records, s) + 1
      /\ Shown(R2, holds, s)
      /\ \A t \in Slots : Shown(records, h, t) => Shown(R2, h, t)
  BY <1>1, Written
<1>6. \A t \in Slots : needs[t] # "recovery" /\ (t # s => needs[t] = need[c][t])
  BY <1>3, <1>4
<1>7. ASSUME IsUpsert(input)
      PROVE  (\E g : Follows(input, R2, k + 1, holds, needs, g)) /\ Listing(R2, k + 1, holds, done)
  <2>1. PICK g : Follows(input, records, k, h, need[c], g)
    BY <1>2, <1>4, <1>7 DEF Undisturbed
  <2>2. Listing(records, k, h, actions[c])
    BY <1>2, <1>4, <1>7 DEF Undisturbed
  <2>3. input.asks \subseteq PartSlots /\ s \in input.asks /\ s \in PartSlots /\ k = 2 * Turn(s)
        /\ RecordsOK(records) /\ DOMAIN h = Slots
        /\ holds = [h EXCEPT ![s] = IF h[s] = None THEN n ELSE h[s]]
        /\ done = actions[c] \cup {<<s, Done(c)>>}
    BY <1>2, <1>3, <1>7
  <2> HIDE DEF s, k, h, n, holds, needs, done, R2
  <2>4. Follows(input, R2, k + 1, holds, needs, g)
    BY <1>5, <2>1, <2>3, WroteAgain
  <2>5. Listing(R2, k + 1, holds, done)
    BY <1>5, <2>2, <2>3, ListingWrote
  <2>6. QED BY <2>4, <2>5
<1>8. ASSUME ~IsUpsert(input)
      PROVE  LinesWritten(input, R2, k + 1, holds, needs)
  <2>1. LinesWritten(input, records, k, h, need[c])
    BY <1>2, <1>4, <1>8 DEF Undisturbed
  <2>2. k \in {3, 6, 7, 8} /\ (k \in 6..7 => s # "extra") /\ (k = 8 => s = "extra")
    <3> DEFINE P == ToolSteps("order")
    <3>1. /\ P[1].op = "look" /\ P[2].op = "look" /\ P[4].op = "look" /\ P[5].op = "look"
          /\ P[9].op = "verify" /\ P[10].op = "verify"
          /\ P[6].slot # "extra" /\ P[7].slot # "extra" /\ P[8].slot = "extra"
      BY OrderSteps DEF Step
    <3>2. k \in 1..10 /\ P[k].op \in {"create", "update", "write"} /\ s = P[k].slot
      BY <1>1, <1>3, <1>8 DEF AtWrite
    <3> HIDE DEF P, k, s
    <3>3. \/ k = 1 \/ k = 2 \/ k = 3 \/ k = 4 \/ k = 5 \/ k = 6 \/ k = 7 \/ k = 8 \/ k = 9 \/ k = 10
      BY <3>2
    <3>4. QED BY <3>1, <3>2, <3>3
  <2>3. "extra" \in Slots
    BY SlotNames
  <2> HIDE DEF s, k, h, n, holds, needs, done, R2
  <2>4. "extra" \in input.asks /\ k + 1 \in 6..8 => needs["extra"] # "nothing"
    <3>1. SUFFICES ASSUME "extra" \in input.asks, k + 1 \in 6..8 PROVE needs["extra"] # "nothing"
      OBVIOUS
    <3>2. k \in 6..8 /\ s # "extra"
      BY <2>2, <3>1
    <3>3. need[c]["extra"] # "nothing"
      BY <2>1, <3>1, <3>2 DEF LinesWritten
    <3>4. QED BY <1>6, <2>3, <3>2, <3>3
  <2>5. k + 1 = 9 => Shown(R2, holds, "extra")
    BY <1>5, <2>2
  <2>6. QED BY <2>4, <2>5 DEF LinesWritten
<1> HIDE DEF s, k, h, n, holds, needs, done, R2
<1>9. Undisturbed(input, R2, pass[c], k + 1, holds, needs, done)
  BY <1>2, <1>6, <1>7, <1>8 DEF Undisturbed
<1>10. Well(input, R2, pass'[c], at'[c], held'[c], need'[c], actions'[c], answer'[c])
  BY <1>1, <1>2, <1>3, <1>9, Onward DEF k
<1>11. QED BY <1>1, <1>10

\* What is read back is as it should be.
LEMMA VerifyWell ==
  ASSUME IInv, InputAssumption, Causes, ~Fixture, NEW c \in Callers, ~Excused(c), Verify(c),
         failed' = failed
  PROVE  Well(input, records, pass'[c], at'[c], held'[c], need'[c], actions'[c], answer'[c])
<1> DEFINE s == Now(c).slot
<1> DEFINE k == at[c]
<1> DEFINE h == held[c]
<1> DEFINE r == CHOOSE r \in OfSlot(s) : r.id = h[s]
<1> DEFINE bad == ~r.fits /\ (s \in {"extra", "user"} \/ (Upsert /\ <<s, "created">> \in actions[c]))
<1>1. /\ Shape /\ DOMAIN held = Callers /\ RecordsOK(records) /\ DOMAIN h = Slots /\ DOMAIN failed = Callers
      /\ Busy(c) /\ pass[c] = "run" /\ Now(c).op = "verify" /\ (IsUpsert(input) <=> Upsert)
  BY InWorld, Asked DEF IInv, Verify, Writing, Busy, HistoryShape
<1>2. /\ Position(input, pass[c], k) /\ s \in input.asks /\ s \in Slots
      /\ IsUpsert(input) => input.asks \subseteq PartSlots /\ k \in 1..12 /\ Now(c) = ToolSteps("upsert")[k]
      /\ ~IsUpsert(input) => k \in 1..10 /\ Now(c) = ToolSteps("order")[k]
      /\ ~IsUpsert(input) => input.asks \subseteq OrderSlots
  BY <1>1, Running, Asked
<1>3. /\ Undisturbed(input, records, pass[c], k, h, need[c], actions[c])
      /\ ReadsBackHeld(input, pass[c], k, h)
      /\ \A t \in Slots : need[c][t] # "recovery"
  BY <1>1, Untouched
<1>4. IsUpsert(input) => k \in 11..12
  BY <1>1, <1>2, UpsertTurns
<1>5. ~IsUpsert(input) => k \in 9..10 /\ (s = "extra" => k = 9)
  <2>1. SUFFICES ASSUME ~IsUpsert(input) PROVE k \in 9..10 /\ (s = "extra" => k = 9)
    OBVIOUS
  <2> DEFINE P == ToolSteps("order")
  <2>2. /\ P[1].op = "look" /\ P[2].op = "look" /\ P[4].op = "look" /\ P[5].op = "look"
        /\ P[3].op = "create" /\ P[6].op = "update" /\ P[7].op = "write" /\ P[8].op = "write"
        /\ P[10].slot # "extra"
    BY OrderSteps DEF Step
  <2>3. k \in 1..10 /\ P[k].op = "verify" /\ s = P[k].slot
    BY <1>1, <1>2, <2>1
  <2> HIDE DEF P, k, s
  <2>4. \/ k = 1 \/ k = 2 \/ k = 3 \/ k = 4 \/ k = 5 \/ k = 6 \/ k = 7 \/ k = 8 \/ k = 9 \/ k = 10
    BY <2>3
  <2>5. QED BY <2>2, <2>3, <2>4
<1>6. Shown(records, h, s) => r.fits
  <2>1. SUFFICES ASSUME NEW q \in In(records, s), q.id = h[s], q.fits PROVE r.fits
    BY DEF Shown
  <2>2. OfSlot(s) = In(records, s)
    BY DEF OfSlot, In
  <2>3. \A x, y \in {x \in In(records, s) : x.id = h[s]} : x = y
    BY <1>1, <1>2, OneOfAnId
  <2>4. r = q
    BY <2>1, <2>2, <2>3
  <2>5. QED BY <2>1, <2>4
<1>7. ~bad
  <2>1. CASE IsUpsert(input)
    <3>1. s \notin {"extra", "user"}
      BY <1>2, <2>1 DEF PartSlots
    <3>2. <<s, "created">> \in actions[c] => Shown(records, h, s)
      <4>1. SUFFICES ASSUME <<s, "created">> \in actions[c] PROVE Shown(records, h, s)
        OBVIOUS
      <4>2. Listing(records, k, h, actions[c])
        BY <1>1, <1>3, <2>1 DEF Undisturbed
      <4>3. <<s, "created">>[1] = s /\ <<s, "created">>[2] = "created"
        OBVIOUS
      <4>4. QED BY <4>1, <4>2, <4>3 DEF Listing
    <3>3. QED BY <1>6, <3>1, <3>2
  <2>2. CASE ~IsUpsert(input)
    <3>1. s # "user" /\ ~Upsert
      BY <1>1, <1>2, <2>2 DEF OrderSlots
    <3>2. s = "extra" => Shown(records, h, s)
      BY <1>1, <1>3, <1>5, <2>2 DEF Undisturbed, LinesWritten, ReadsBackHeld
    <3>3. QED BY <1>6, <3>1, <3>2
  <2>3. QED BY <2>1, <2>2
<1>8. Proceed(c, h, need[c], actions[c])
  <2>1. ~ (failed' = [failed EXCEPT ![c] = TRUE])
    <3>1. [failed EXCEPT ![c] = TRUE][c] = TRUE
      BY <1>1
    <3>2. failed[c] # TRUE
      BY DEF Excused
    <3>3. QED BY <3>1, <3>2
  <2>2. QED BY <1>7, <2>1 DEF Verify
<1>9. ASSUME IsUpsert(input)
      PROVE  (\E g : Follows(input, records, k + 1, h, need[c], g)) /\ Listing(records, k + 1, h, actions[c])
  <2>1. PICK g : Follows(input, records, k, h, need[c], g)
    BY <1>1, <1>3, <1>9 DEF Undisturbed
  <2>2. Listing(records, k, h, actions[c])
    BY <1>1, <1>3, <1>9 DEF Undisturbed
  <2> HIDE DEF k, h
  <2>3. \A t \in PartSlots : ~Ahead(t, k) /\ ~Ahead(t, k + 1) /\ k # 2 * Turn(t)
    BY <1>4, <1>9, Turns DEF Ahead
  <2>4. \A t \in input.asks : ~Ahead(t, k) /\ ~Ahead(t, k + 1) /\ k # 2 * Turn(t)
    BY <1>2, <1>9, <2>3
  <2>5. \A t : Newborn(input, records, k, h, t) => Newborn(input, records, k + 1, h, t)
    BY <2>4 DEF Newborn
  <2>6. Follows(input, records, k + 1, h, need[c], g)
    BY <2>1, <2>4, <2>5 DEF Follows
  <2>7. Listing(records, k + 1, h, actions[c])
    BY <2>2, <2>3 DEF Listing
  <2>8. QED BY <2>6, <2>7
<1>10. ~IsUpsert(input) => LinesWritten(input, records, k + 1, h, need[c])
  <2> HIDE DEF k, h
  <2>1. QED BY <1>5 DEF LinesWritten
<1> HIDE DEF s, k, h, r, bad
<1>11. Undisturbed(input, records, pass[c], k + 1, h, need[c], actions[c])
  BY <1>1, <1>3, <1>9, <1>10 DEF Undisturbed
<1>12. QED BY <1>1, <1>2, <1>8, <1>11, Onward DEF k

LEMMA StartWell ==
  ASSUME IInv, InputAssumption, Causes, ~Fixture, NEW c \in Callers, NEW dry \in BOOLEAN, Start(c, dry)
  PROVE  /\ held' = held /\ held[c] = Fresh
         /\ Well(input, records', pass'[c], at'[c], held'[c], need'[c], actions'[c], answer'[c])
<1> DEFINE p == FirstPass(dry)
<1> DEFINE first == After(0, p, Idle, Fresh)
<1>1. Shape /\ pass[c] = "idle" /\ HoldsOK(records, pass[c], held[c]) /\ held' = held /\ records' = records
  BY InWorld DEF IInv, Start, Busy
<1>2. held[c] = Fresh /\ need[c] = Idle /\ actions[c] = {}
  BY <1>1 DEF IInv, CallsInv, CallInv, HoldsOK
<1>3. Least(first) = 1
  BY <1>1, FirstStep
<1>4. /\ pass'[c] = p /\ at'[c] = Least(first) /\ need'[c] = Idle /\ actions'[c] = {}
  BY <1>1, <1>2 DEF Start, Shape
<1>5. /\ IsUpsert(input) <=> Upsert
      /\ IsUpsert(input) => input.asks \subseteq PartSlots
  BY <1>1, Asked
<1>6. p \in {"dry_run", "preflight", "run"} /\ (p = "preflight" => IsUpsert(input))
      /\ (p = "run" => ~IsUpsert(input))
  BY <1>5 DEF FirstPass
<1> HIDE DEF p, first
<1>7. \A t \in Slots : Idle[t] # "recovery" /\ Fresh[t] = None
  BY DEF Idle, Fresh
<1>8. p = "preflight" => Preflighted(input, records, 1, Fresh)
  <2>1. SUFFICES ASSUME p = "preflight" PROVE Preflighted(input, records, 1, Fresh)
    OBVIOUS
  <2>2. \A t \in input.asks : Ahead(t, 1)
    BY <1>5, <1>6, <2>1, Turns DEF Ahead
  <2>3. Tops \subseteq Slots
    BY Hangs
  <2>4. QED BY <1>7, <2>2, <2>3 DEF Preflighted
<1>9. LinesWritten(input, records, 1, Fresh, Idle)
  BY DEF LinesWritten
<1>10. Undisturbed(input, records, p, 1, Fresh, Idle, {}) /\ ReadsBackHeld(input, p, 1, Fresh)
  BY <1>6, <1>7, <1>8, <1>9 DEF Undisturbed, ReadsBackHeld
<1>11. Well(input, records, p, 1, Fresh, Idle, {}, answer'[c])
  BY <1>6, <1>10 DEF Well
<1>12. QED BY <1>1, <1>2, <1>3, <1>4, <1>11

-----------------------------------------------------------------------------
(* What is held, and what there is.                                           *)

\* A failure ends the call.
Over(c) == pass'[c] = "idle" /\ HeldAlone(c) /\ held'[c] = Fresh
LEMMA FailuresEnd ==
  ASSUME Shape, DOMAIN held = Callers, NEW c \in Callers, NEW s, NEW rejected,
         \/ Failure(c) \/ workflowFailure(c, s) \/ partUpsertMutationFailure(c, s, rejected)
         \/ partUpsertResolutionFailure(c, s) \/ Clarify(c, s) \/ partUpsertLinkReadbackFailure(c, s)
  PROVE  Over(c)
<1>1. ASSUME NEW kind, NEW done, NEW remaining, Answer(c, kind, done, remaining) PROVE Over(c)
  BY <1>1, AnswerHeld, AnswerEnds DEF Over
<1>2. CASE Failure(c)
  BY <1>1, <1>2 DEF Failure
<1>3. CASE workflowFailure(c, s)
  BY <1>1, <1>3 DEF workflowFailure
<1>4. CASE partUpsertMutationFailure(c, s, rejected)
  <2> DEFINE kind == IF rejected /\ ~Applied(actions[c]) THEN "validation_failed" ELSE "partial_failure"
  <2>1. Answer(c, kind, actions[c] \cup {<<s, "failed">>}, remainingPartUpsertActions(s))
    BY <1>4 DEF partUpsertMutationFailure
  <2> HIDE DEF kind
  <2>2. QED BY <1>1, <2>1
<1>5. CASE Stopped(c, s)
  BY <1>1, <1>5 DEF Stopped
<1>6. CASE partUpsertResolutionFailure(c, s)
  <2>1. Failure(c) \/ Stopped(c, s)
    BY <1>6 DEF partUpsertResolutionFailure
  <2>2. QED BY <1>2, <1>5, <2>1
<1>7. CASE Clarify(c, s)
  <2>1. Answer(c, "clarification", actions[c], {}) \/ Answer(c, "clarification", {}, {}) \/ Stopped(c, s)
    BY <1>7 DEF Clarify, partUpsertResolutionClarification
  <2>2. QED BY <1>1, <1>5, <2>1
<1>8. CASE partUpsertLinkReadbackFailure(c, s)
  <2>1. \/ Failure(c)
        \/ Answer(c, "partial_failure", Doubted(actions[c], s) \cup {<<s, "failed">>}, {})
    BY <1>8 DEF partUpsertLinkReadbackFailure
  <2>2. QED BY <1>1, <1>2, <2>1
<1>9. QED BY <1>2, <1>3, <1>4, <1>6, <1>7, <1>8

\* What a lookup holds is there, or to be created.
LEMMA LookedHolds ==
  ASSUME NEW R, RecordsOK(R), NEW i, NEW p, NEW h, HoldsOK(R, p, h), p # "idle",
         NEW s \in Slots, NEW holds, NEW needs, NEW v,
         v = None \/ (v = Planned /\ p # "run"), Looked(i, R, h, s, holds, needs, v)
  PROVE  HoldsOK(R, p, holds)
<1>1. /\ h \in [Slots -> Int] /\ \A t \in Slots : h[t] = Planned \/ h[t] \in 0..Count(R, t)
      /\ p = "run" => \A t \in Slots : h[t] # Planned
  BY DEF HoldsOK
<1>2. Count(R, s) \in Nat
  BY NumberedFinite DEF RecordsOK
<1>3. ASSUME NEW x, x \in 0..Count(R, s) \/ (x = Planned /\ p # "run"), holds = [h EXCEPT ![s] = x]
      PROVE  HoldsOK(R, p, holds)
  <2>1. x \in Int /\ (p = "run" => x # Planned)
    BY <1>2, <1>3 DEF Planned
  <2>2. holds \in [Slots -> Int] /\ holds[s] = x /\ \A t \in Slots : t # s => holds[t] = h[t]
    BY <1>1, <1>3, <2>1
  <2>3. \A t \in Slots : holds[t] = Planned \/ holds[t] \in 0..Count(R, t)
    BY <1>1, <1>3, <2>2
  <2>4. p = "run" => \A t \in Slots : holds[t] # Planned
    BY <1>1, <2>1, <2>2
  <2>5. QED BY <2>2, <2>3, <2>4 DEF HoldsOK
<1>4. ASSUME NEW r, Hits(i, R, h, s) = {r}, holds = [h EXCEPT ![s] = r.id]
      PROVE  HoldsOK(R, p, holds)
  <2>1. r \in In(R, s)
    BY <1>4, HitsAre
  <2>2. r.id \in 0..Count(R, s)
    BY <1>2, <2>1 DEF RecordsOK, Numbered, NumberedTo
  <2>3. QED BY <1>3, <1>4, <2>2
<1>5. CASE holds = [h EXCEPT ![s] = v]
  <2>1. v \in 0..Count(R, s) \/ (v = Planned /\ p # "run")
    BY <1>2 DEF None
  <2>2. QED BY <1>3, <1>5, <2>1
<1>6. CASE holds = h
  BY <1>6
<1>7. QED BY <1>4, <1>5, <1>6 DEF Looked

Acts(c, dry) ==
  \/ Start(c, dry) \/ Look(c) \/ LookFails(c) \/ WriteAnswered(c) \/ WriteRejected(c)
  \/ WriteLost(c) \/ recoverExtraLine(c) \/ Verify(c)

Grown ==
  /\ RecordsOK(records')
  /\ \A t \in Slots : Count(records, t) \in Nat /\ Count(records', t) \in Nat
                      /\ Count(records, t) <= Count(records', t)

\* A call writes what it may write, and changes nothing else.
LEMMA RecordsMove ==
  ASSUME IInv, InputAssumption, Causes, ~Fixture, NEW c \in Callers, NEW dry, Acts(c, dry)
  PROVE  /\ Grown
         /\ records' = records \/ (AtWrite(c) /\ records' = Stored(Write(c)))
<1>1. RecordsOK(records) /\ \A t \in Slots : Count(records, t) \in Nat
  BY InWorld, NumberedFinite DEF RecordsOK
<1>2. CASE records' = records
  BY <1>1, <1>2 DEF Grown
<1>3. ASSUME AtWrite(c), records' = Stored(Write(c))
      PROVE  Grown
  <2>1. /\ RecordsOK(Stored(Write(c)))
        /\ \A t \in Slots : Count(records, t) \in Nat /\ Count(Stored(Write(c)), t) \in Nat
                             /\ Count(records, t) <= Count(Stored(Write(c)), t)
    BY <1>3, Written
  <2>2. QED BY <1>3, <2>1 DEF Grown
<1>4. records' = records \/ (AtWrite(c) /\ records' = Stored(Write(c)))
  <2>1. CASE WriteAnswered(c)
    BY <2>1 DEF WriteAnswered
  <2>2. CASE WriteLost(c)
    BY <2>2 DEF WriteLost
  <2>3. CASE Look(c) \/ LookFails(c) \/ recoverExtraLine(c) \/ Verify(c)
    BY <2>3 DEF Look, LookFails, recoverExtraLine, Verify, unchangedWorld
  <2>4. CASE Start(c, dry) \/ WriteRejected(c)
    BY <2>4 DEF Start, WriteRejected
  <2>5. QED BY <2>1, <2>2, <2>3, <2>4 DEF Acts
<1>5. QED BY <1>2, <1>3, <1>4

LEMMA OverHolds ==
  ASSUME Grown, NEW c, Over(c)
  PROVE  HeldAlone(c) /\ HoldsOK(records', pass'[c], held'[c])
BY FreshHolds DEF Grown, Over

LEMMA ProceedHolds ==
  ASSUME Shape, DOMAIN held = Callers, NEW c \in Callers, Busy(c), NEW holds, NEW needs, NEW done,
         Proceed(c, holds, needs, done), Grown, HoldsOK(records', pass[c], holds)
  PROVE  HeldAlone(c) /\ HoldsOK(records', pass'[c], held'[c])
<1>1. HeldAlone(c) /\ ((pass'[c] = pass[c] /\ held'[c] = holds) \/ held'[c] = Fresh)
  BY ProceedHeld
<1>2. HoldsOK(records', pass'[c], Fresh)
  BY FreshHolds DEF Grown
<1>3. QED BY <1>1, <1>2

LEMMA HeldMoves ==
  ASSUME IInv, InputAssumption, Causes, ~Fixture, NEW c \in Callers, NEW dry \in BOOLEAN, Acts(c, dry)
  PROVE  HeldAlone(c) /\ HoldsOK(records', pass'[c], held'[c])
<1> DEFINE s == Now(c).slot
<1> DEFINE h == held[c]
<1>1. /\ Shape /\ DOMAIN held = Callers /\ HoldsOK(records, pass[c], h) /\ h \in [Slots -> Int]
      /\ RecordsOK(records) /\ Grown /\ DOMAIN h = Slots
  BY InWorld, RecordsMove DEF IInv
<1>2. HoldsOK(records', pass[c], h)
  BY <1>1, HoldsStay DEF Grown
<1>3. CASE Start(c, dry)
  <2>1. held' = held /\ h = Fresh
    BY <1>3, StartWell
  <2>2. HoldsOK(records', pass'[c], Fresh)
    BY <1>1, FreshHolds DEF Grown
  <2>3. QED BY <1>1, <2>1, <2>2 DEF HeldAlone
<1>4. CASE Look(c)
  <2> DEFINE v == IF Writing(c) THEN None ELSE Planned
  <2>1. Busy(c) /\ Now(c).op = "look" /\ records' = records /\ pass[c] # "idle"
    BY <1>4 DEF Look, unchangedWorld, Busy
  <2>2. s \in Slots /\ \A t \in Slots : need[c][t] # "recovery"
    BY <2>1, Running, AllSettled
  <2>3. \/ Answer(c, "clarification", {}, {})
        \/ Clarify(c, s)
        \/ \E holds, needs, done :
             Proceed(c, holds, needs, done) /\ Looked(input, records, h, s, holds, needs, v)
    BY <1>1, <1>4, <2>2, LookOutcomes
  <2>4. v = None \/ (v = Planned /\ pass[c] # "run")
    BY DEF Writing
  <2> HIDE DEF s, h, v
  <2>5. CASE Answer(c, "clarification", {}, {})
    BY <1>1, <2>5, AnswerHeld, AnswerEnds, OverHolds DEF Over
  <2>6. CASE Clarify(c, s)
    BY <1>1, <2>6, FailuresEnd, OverHolds
  <2>7. ASSUME NEW holds, NEW needs, NEW done, Proceed(c, holds, needs, done),
               Looked(input, records, h, s, holds, needs, v)
        PROVE  HeldAlone(c) /\ HoldsOK(records', pass'[c], held'[c])
    <3>1. HoldsOK(records, pass[c], holds)
      BY <1>1, <2>1, <2>2, <2>4, <2>7, LookedHolds
    <3>2. HoldsOK(records', pass[c], holds)
      BY <2>1, <3>1
    <3>3. QED BY <1>1, <2>1, <2>7, <3>2, ProceedHolds
  <2>8. QED BY <2>3, <2>5, <2>6, <2>7
<1>5. CASE LookFails(c)
  <2>1. partUpsertResolutionFailure(c, s) \/ Failure(c) \/ workflowFailure(c, s)
    BY <1>5 DEF LookFails
  <2>2. QED BY <1>1, <2>1, FailuresEnd, OverHolds
<1>6. CASE WriteAnswered(c)
  <2> DEFINE holds == [h EXCEPT ![s] = IF @ = None THEN NewId(s) ELSE @]
  <2> DEFINE needs == [need[c] EXCEPT ![s] = "nothing"]
  <2> DEFINE done == actions[c] \cup {<<s, Done(c)>>}
  <2>1. AtWrite(c) /\ records' = Stored(Write(c)) /\ Proceed(c, holds, needs, done)
    BY <1>6 DEF WriteAnswered
  <2>2. Busy(c)
    BY <2>1, WritePlace
  <2>3. HoldsOK(Stored(Write(c)), pass[c], holds)
    BY <2>1, Written
  <2>4. HoldsOK(records', pass[c], holds)
    BY <2>1, <2>3
  <2> HIDE DEF holds, needs, done
  <2>5. QED BY <1>1, <2>1, <2>2, <2>4, ProceedHolds
<1>7. CASE WriteRejected(c)
  <2>1. (\E invalid \in BOOLEAN : partUpsertMutationFailure(c, s, invalid)) \/ Failure(c) \/ workflowFailure(c, s)
    BY <1>7 DEF WriteRejected
  <2>2. QED BY <1>1, <2>1, FailuresEnd, OverHolds
<1>8. CASE WriteLost(c)
  <2>1. CASE s = "extra"
    <3>1. held' = held /\ pass' = pass
      BY <1>8, <2>1 DEF WriteLost
    <3>2. QED BY <1>1, <1>2, <3>1 DEF HeldAlone
  <2>2. CASE s # "extra"
    <3>1. partUpsertMutationFailure(c, s, FALSE) \/ Failure(c) \/ workflowFailure(c, s)
      BY <1>8, <2>2 DEF WriteLost
    <3>2. QED BY <1>1, <3>1, FailuresEnd, OverHolds
  <2>3. QED BY <2>1, <2>2
<1>9. CASE recoverExtraLine(c)
  <2> DEFINE holds == [h EXCEPT ![s] = None]
  <2>1. (\E needs, done : Proceed(c, holds, needs, done)) \/ workflowFailure(c, s)
    BY <1>9 DEF recoverExtraLine
  <2>2. Busy(c)
    BY <1>9 DEF recoverExtraLine, Writing, Busy
  <2>3. HoldsOK(records', pass[c], holds)
    <3>1. None = 0 /\ None # Planned
      BY DEF None, Planned
    <3>2. DOMAIN h = Slots /\ h \in [Slots -> Int]
      BY <1>1
    <3> HIDE DEF h, s
    <3>3. DOMAIN holds = Slots /\ \A t \in Slots : holds[t] = h[t] \/ holds[t] = None
      BY <3>2
    <3>8. holds \in [Slots -> Int]
      <4>1. holds = [t \in Slots |-> holds[t]]
        BY <3>2
      <4>2. \A t \in Slots : holds[t] \in Int
        BY <3>1, <3>2, <3>3
      <4> HIDE DEF holds
      <4>3. QED BY <4>1, <4>2
    <3>4. pass[c] # "idle" /\ \A t \in Slots : Count(records', t) \in Nat
      BY <1>1, <2>2 DEF Busy, Grown
    <3> HIDE DEF holds
    <3>5. \A t \in Slots : holds[t] = Planned \/ holds[t] \in 0..Count(records', t)
      BY <1>2, <3>1, <3>3, <3>4 DEF HoldsOK
    <3>6. pass[c] = "run" => \A t \in Slots : holds[t] # Planned
      BY <1>2, <3>1, <3>3 DEF HoldsOK
    <3>7. QED BY <3>4, <3>5, <3>6, <3>8 DEF HoldsOK
  <2> HIDE DEF holds
  <2>4. CASE workflowFailure(c, s)
    BY <1>1, <2>4, FailuresEnd, OverHolds
  <2>5. CASE \E needs, done : Proceed(c, holds, needs, done)
    BY <1>1, <2>2, <2>3, <2>5, ProceedHolds
  <2>6. QED BY <2>1, <2>4, <2>5
<1>10. CASE Verify(c)
  <2>1. Proceed(c, h, need[c], actions[c]) \/ partUpsertLinkReadbackFailure(c, s)
    BY <1>10 DEF Verify
  <2>2. Busy(c)
    BY <1>10 DEF Verify, Writing, Busy
  <2>3. CASE Proceed(c, h, need[c], actions[c])
    BY <1>1, <1>2, <2>2, <2>3, ProceedHolds
  <2>4. CASE partUpsertLinkReadbackFailure(c, s)
    BY <1>1, <2>4, FailuresEnd, OverHolds
  <2>5. QED BY <2>1, <2>3, <2>4
<1>11. QED BY <1>3, <1>4, <1>5, <1>6, <1>7, <1>8, <1>9, <1>10 DEF Acts

-----------------------------------------------------------------------------
(* What a call has come to know of failures and of others.                    *)

ExcusedNext(c) == failed'[c] \/ meddled'[c]

\* A call that begins forgets; every other step only adds to what excuses a call.
LEMMA Histories ==
  ASSUME HistoryShape, NEW c \in Callers, NEW dry, Acts(c, dry)
  PROVE  /\ HistoryShape'
         /\ ~Start(c, dry) => (Excused(c) => ExcusedNext(c)) /\ (failed[c] => failed'[c])
         /\ \A d \in Callers \ {c} :
              (failed[d] => failed'[d]) /\ (Excused(d) => ExcusedNext(d)) /\ (Busy(d) => meddled'[d] \/ records' = records)
<1> DEFINE set(f, v) == [f EXCEPT ![c] = v]
<1>1. \/ Start(c, dry) /\ failed' = set(failed, FALSE)
      \/ failed' = failed \/ failed' = set(failed, TRUE)
  <2>1. CASE Start(c, dry)
    BY <2>1 DEF Start
  <2>2. CASE Look(c)
    BY <2>2 DEF Look
  <2>3. CASE LookFails(c) \/ WriteRejected(c)
    BY <2>3 DEF LookFails, WriteRejected
  <2>4. CASE WriteAnswered(c)
    BY <2>4 DEF WriteAnswered
  <2>5. CASE WriteLost(c)
    BY <2>5 DEF WriteLost
  <2>6. CASE recoverExtraLine(c)
    BY <2>6 DEF recoverExtraLine
  <2>7. CASE Verify(c)
    BY <2>7 DEF Verify
  <2>8. QED BY <2>1, <2>2, <2>3, <2>4, <2>5, <2>6, <2>7 DEF Acts
<1>2. \/ Start(c, dry) /\ meddled' = set(meddled, FALSE) /\ records' = records
      \/ meddled' = meddled /\ records' = records
      \/ meddled' = MeddledBy(c)
  <2>1. CASE Start(c, dry)
    BY <2>1 DEF Start
  <2>2. CASE Look(c)
    BY <2>2 DEF Look, unchangedWorld
  <2>3. CASE LookFails(c)
    BY <2>3 DEF LookFails, unchangedWorld
  <2>4. CASE WriteAnswered(c)
    BY <2>4 DEF WriteAnswered
  <2>5. CASE WriteLost(c)
    BY <2>5 DEF WriteLost
  <2>6. CASE recoverExtraLine(c)
    BY <2>6 DEF recoverExtraLine, unchangedWorld
  <2>7. CASE Verify(c)
    BY <2>7 DEF Verify, unchangedWorld
  <2>8. CASE WriteRejected(c)
    BY <2>8 DEF WriteRejected
  <2>9. QED BY <2>1, <2>2, <2>3, <2>4, <2>5, <2>6, <2>7, <2>8 DEF Acts
<1>3. /\ DOMAIN failed' = Callers
      /\ ~Start(c, dry) => (failed[c] => failed'[c])
      /\ \A d \in Callers \ {c} : failed[d] => failed'[d]
  <2>1. CASE Start(c, dry) /\ failed' = set(failed, FALSE)
    BY <2>1 DEF HistoryShape
  <2>2. CASE failed' = failed
    BY <2>2 DEF HistoryShape
  <2>3. CASE failed' = set(failed, TRUE)
    BY <2>3 DEF HistoryShape
  <2>4. QED BY <1>1, <2>1, <2>2, <2>3
<1>4. /\ DOMAIN meddled' = Callers
      /\ ~Start(c, dry) => (meddled[c] => meddled'[c])
      /\ \A d \in Callers \ {c} :
           (meddled[d] => meddled'[d]) /\ (Busy(d) => meddled'[d] \/ records' = records)
  <2>1. CASE Start(c, dry) /\ meddled' = set(meddled, FALSE) /\ records' = records
    BY <2>1 DEF HistoryShape
  <2>2. CASE meddled' = meddled /\ records' = records
    BY <2>2 DEF HistoryShape
  <2>3. CASE meddled' = MeddledBy(c)
    BY <2>3 DEF MeddledBy
  <2>4. QED BY <1>2, <2>1, <2>2, <2>3
<1>5. HistoryShape'
  BY <1>3, <1>4 DEF HistoryShape
<1>6. QED BY <1>3, <1>4, <1>5 DEF Excused, ExcusedNext

\* The step that fails a call.
LEMMA FailedNow ==
  ASSUME HistoryShape, NEW c \in Callers, failed' = [failed EXCEPT ![c] = TRUE]
  PROVE  ExcusedNext(c)
BY DEF HistoryShape, ExcusedNext

LEMMA CallCause ==
  ASSUME IInv, InputAssumption, Causes, ~Fixture, NEW c \in Callers, NEW dry \in BOOLEAN, Acts(c, dry)
  PROVE  ExcusedNext(c) \/
         Well(input, records', pass'[c], at'[c], held'[c], need'[c], actions'[c], answer'[c])
<1>1. HistoryShape
  BY InWorld
<1>2. CASE Start(c, dry)
  BY <1>2, StartWell
<1>3. CASE ~Start(c, dry) /\ Excused(c)
  BY <1>1, <1>3, Histories
<1>4. CASE ~Start(c, dry) /\ ~Excused(c)
  <2>1. CASE Look(c)
    <3>1. records' = records
      BY <2>1 DEF Look, unchangedWorld
    <3>2. Well(input, records, pass'[c], at'[c], held'[c], need'[c], actions'[c], answer'[c])
      BY <1>4, <2>1, LookWell
    <3>3. QED BY <3>1, <3>2
  <2>2. CASE LookFails(c) \/ WriteRejected(c)
    BY <1>1, <2>2, FailedNow DEF LookFails, WriteRejected
  <2>3. CASE WriteAnswered(c)
    BY <1>4, <2>3, WriteWell
  <2>4. CASE WriteLost(c)
    BY <1>1, <2>4, FailedNow DEF WriteLost
  <2>5. CASE recoverExtraLine(c)
    <3>1. Busy(c) /\ need[c][Now(c).slot] = "recovery"
      BY <2>5 DEF recoverExtraLine, Writing, Busy
    <3>2. Now(c).slot \in Slots
      BY <3>1, Running
    <3>3. QED BY <1>4, <3>1, <3>2, Untouched
  <2>6. CASE Verify(c)
    <3>1. records' = records /\ (failed' = failed \/ failed' = [failed EXCEPT ![c] = TRUE])
      BY <2>6 DEF Verify, unchangedWorld
    <3>2. CASE failed' = failed
      <4>1. Well(input, records, pass'[c], at'[c], held'[c], need'[c], actions'[c], answer'[c])
        BY <1>4, <2>6, <3>2, VerifyWell
      <4>2. QED BY <3>1, <4>1
    <3>3. QED BY <1>1, <3>1, <3>2, FailedNow
  <2>7. QED BY <1>4, <2>1, <2>2, <2>3, <2>4, <2>5, <2>6 DEF Acts
<1>5. QED BY <1>2, <1>3, <1>4

\* A fixture has no account to give.
LEMMA FixtureAnswers ==
  ASSUME Shape, Fixture, NEW c \in Callers, NEW dry \in BOOLEAN, Acts(c, dry), pass'[c] = "idle"
  PROVE  answer'[c].kind \notin {"partial_failure", "validation_failed"}
<1> DEFINE s == Now(c).slot
<1>1. ~Upsert /\ input.tool = "fixture"
  BY DEF Upsert, Fixture
<1>2. ASSUME NEW kind, NEW done, NEW remaining, Answer(c, kind, done, remaining),
             kind \notin {"partial_failure", "validation_failed"}
      PROVE  answer'[c].kind \notin {"partial_failure", "validation_failed"}
  BY <1>2 DEF Answer, Shape
<1>3. ASSUME Failure(c) PROVE answer'[c].kind \notin {"partial_failure", "validation_failed"}
  BY <1>2, <1>3 DEF Failure
<1>4. ASSUME NEW holds, NEW needs, NEW done, Proceed(c, holds, needs, done), Busy(c)
      PROVE  answer'[c].kind \notin {"partial_failure", "validation_failed"}
  <2> DEFINE next == After(at[c], pass[c], needs, holds)
  <2> DEFINE kind == IF pass[c] = "run" THEN "ok" ELSE "dry_run"
  <2>1. CASE next # {}
    <3>1. pass' = pass
      BY <1>4, <2>1 DEF Proceed
    <3>2. QED BY <1>4, <3>1 DEF Busy
  <2>2. CASE next = {} /\ pass[c] = "preflight"
    <3>1. pass' = [pass EXCEPT ![c] = "run"]
      BY <1>4, <2>2 DEF Proceed
    <3>2. pass'[c] = "run"
      BY <3>1 DEF Shape
    <3>3. QED BY <3>2
  <2>3. CASE next = {} /\ pass[c] # "preflight"
    <3>1. Answer(c, kind, done, {}) /\ kind \in {"ok", "dry_run"}
      BY <1>4, <2>3 DEF Proceed
    <3> HIDE DEF kind
    <3>2. kind \notin {"partial_failure", "validation_failed"}
      BY <3>1
    <3>3. QED BY <1>2, <3>1, <3>2
  <2>4. QED BY <2>1, <2>2, <2>3
<1>5. CASE Start(c, dry)
  <2>1. pass'[c] = FirstPass(dry)
    BY <1>5 DEF Start, Shape
  <2>2. QED BY <2>1 DEF FirstPass
<1>6. CASE Look(c)
  <2>1. Busy(c)
    BY <1>6 DEF Look
  <2>2. \/ Answer(c, "clarification", {}, {}) \/ Failure(c)
        \/ \E holds, needs, done : Proceed(c, holds, needs, done)
    <3>1. CASE s = "supplier_part" /\ ~input.sku
      BY <1>6, <3>1 DEF Look
    <3>2. CASE ~ (s = "supplier_part" /\ ~input.sku)
      <4>1. getOrCreateRecord(c, s, Found(c, s))
        BY <1>6, <3>2 DEF Look
      <4>2. QED BY <4>1 DEF getOrCreateRecord
    <3>3. QED BY <3>1, <3>2
  <2>3. QED BY <1>2, <1>3, <1>4, <2>1, <2>2
<1>7. CASE LookFails(c)
  BY <1>1, <1>3, <1>7 DEF LookFails
<1>8. CASE WriteAnswered(c)
  <2>1. Busy(c)
    BY <1>8 DEF WriteAnswered, AtWrite, Writing, Busy
  <2>2. \E holds, needs, done : Proceed(c, holds, needs, done)
    BY <1>8 DEF WriteAnswered
  <2>3. QED BY <1>4, <2>1, <2>2
<1>9. CASE WriteRejected(c)
  BY <1>1, <1>3, <1>9 DEF WriteRejected
<1>10. CASE WriteLost(c)
  <2>1. CASE s = "extra"
    <3>1. pass' = pass /\ pass[c] = "run"
      BY <1>10, <2>1 DEF WriteLost, AtWrite, Writing
    <3>2. QED BY <3>1
  <2>2. CASE s # "extra"
    BY <1>1, <1>3, <1>10, <2>2 DEF WriteLost
  <2>3. QED BY <2>1, <2>2
<1>11. CASE recoverExtraLine(c)
  BY <1>1, <1>11 DEF recoverExtraLine
<1>12. CASE Verify(c)
  <2>1. Busy(c)
    BY <1>12 DEF Verify, Writing, Busy
  <2>2. Proceed(c, held[c], need[c], actions[c]) \/ Failure(c)
    BY <1>12 DEF Verify, partUpsertLinkReadbackFailure
  <2>3. QED BY <1>3, <1>4, <2>1, <2>2
<1>13. QED BY <1>5, <1>6, <1>7, <1>8, <1>9, <1>10, <1>11, <1>12 DEF Acts

-----------------------------------------------------------------------------
(* Every step.                                                                *)

\* The writes behind an error that a call leaves are its own, and it has failed.
LEMMA LateMoves ==
  ASSUME IInv, InputAssumption, Causes, ~Fixture, NEW c \in Callers, NEW dry \in BOOLEAN, Acts(c, dry)
  PROVE  LateOK'
<1>1. /\ HistoryShape /\ LateOK /\ RecordsOK(records) /\ Shape
  BY InWorld DEF IInv
<1>2. Grown /\ \A w : WriteOK(records, w) => WriteOK(records', w)
  BY RecordsMove, WriteStays DEF Grown
<1>3. Others(c)
  BY <1>1, StepsAlone DEF Acts, Alone
<1>4. /\ ~Start(c, dry) => (failed[c] => failed'[c])
      /\ \A d \in Callers \ {c} : failed[d] => failed'[d]
  BY <1>1, Histories
<1>5. calls \in Nat /\ \A w \in late :
        /\ WriteOK(records, w) /\ w.caller \in Callers /\ w.call \in Nat /\ w.call <= calls
        /\ w.call = calls /\ Busy(w.caller) => failed[w.caller]
  BY <1>1 DEF LateOK
<1>6. CASE Start(c, dry)
  <2>1. calls' = calls + 1 /\ late' = late
    BY <1>6 DEF Start
  <2>2. calls' \in Nat
    BY <1>5, <2>1
  <2>3. \A w \in late : w.call <= calls' /\ w.call # calls'
    BY <1>5, <2>1
  <2>4. QED BY <1>2, <1>5, <2>1, <2>2, <2>3 DEF LateOK
<1>7. CASE ~Start(c, dry)
  <2>1. Busy(c) /\ calls' = calls
    <3>1. CASE Look(c) \/ LookFails(c)
      BY <3>1 DEF Look, LookFails, unchangedWorld
    <3>2. CASE WriteAnswered(c)
      BY <3>2 DEF WriteAnswered, AtWrite, Writing, Busy, counts
    <3>3. CASE WriteRejected(c)
      BY <3>3 DEF WriteRejected, AtWrite, Writing, Busy
    <3>4. CASE WriteLost(c)
      BY <3>4 DEF WriteLost, AtWrite, Writing, Busy
    <3>5. CASE recoverExtraLine(c)
      BY <3>5 DEF recoverExtraLine, Writing, Busy, unchangedWorld
    <3>6. CASE Verify(c)
      BY <3>6 DEF Verify, Writing, Busy, unchangedWorld
    <3>7. QED BY <1>7, <3>1, <3>2, <3>3, <3>4, <3>5, <3>6 DEF Acts
  <2>2. \A d \in Callers : Busy(d)' => Busy(d)
    BY <1>3, <2>1 DEF Others, Busy
  <2>3. \A d \in Callers : failed[d] => failed'[d]
    BY <1>4, <1>7
  <2>4. \A w \in late :
          /\ WriteOK(records', w) /\ w.caller \in Callers /\ w.call \in Nat /\ w.call <= calls'
          /\ w.call = calls' /\ Busy(w.caller)' => failed'[w.caller]
    BY <1>2, <1>5, <2>1, <2>2, <2>3
  <2>5. CASE late' = late
    BY <1>5, <2>1, <2>4, <2>5 DEF LateOK
  <2>6. CASE late' = late \cup {Write(c)} /\ AtWrite(c) /\ failed' = [failed EXCEPT ![c] = TRUE]
    <3> DEFINE w == Write(c)
    <3>1. WriteOK(records, w) /\ w.caller = c /\ w.call = calls
      BY <2>6, WriteSound
    <3> HIDE DEF w
    <3>2. WriteOK(records', w)
      BY <1>2, <3>1
    <3>3. failed'[c]
      BY <1>1, <2>6 DEF HistoryShape
    <3>4. late' = late \cup {w}
      BY <2>6 DEF w
    <3>5. calls' \in Nat /\ w.call <= calls'
      BY <1>5, <2>1, <3>1
    <3>6. QED BY <2>1, <2>4, <3>1, <3>2, <3>3, <3>4, <3>5 DEF LateOK
  <2>7. late' = late \/ (late' = late \cup {Write(c)} /\ AtWrite(c) /\ failed' = [failed EXCEPT ![c] = TRUE])
    <3>1. CASE Look(c) \/ LookFails(c)
      BY <3>1 DEF Look, LookFails, unchangedWorld
    <3>2. CASE WriteAnswered(c)
      BY <3>2 DEF WriteAnswered
    <3>3. CASE WriteRejected(c)
      BY <3>3 DEF WriteRejected
    <3>4. CASE WriteLost(c)
      BY <3>4 DEF WriteLost
    <3>5. CASE recoverExtraLine(c)
      BY <3>5 DEF recoverExtraLine, unchangedWorld
    <3>6. CASE Verify(c)
      BY <3>6 DEF Verify, unchangedWorld
    <3>7. QED BY <1>7, <3>1, <3>2, <3>3, <3>4, <3>5, <3>6 DEF Acts
  <2>8. QED BY <2>5, <2>6, <2>7
<1>8. QED BY <1>6, <1>7

LEMMA CallCauses ==
  ASSUME IInv, InputAssumption, Causes, NEW c \in Callers, NEW dry \in BOOLEAN, Acts(c, dry)
  PROVE  Causes'
<1>1. /\ HistoryShape /\ Shape /\ \A d \in Callers : CauseInv(d)
  BY DEF IInv, Causes
<1>2. input' = input /\ (Fixture' <=> Fixture) /\ Others(c)
  BY <1>1, StepsAlone DEF Acts, Alone, Fixture
<1>3. /\ HistoryShape'
      /\ \A d \in Callers \ {c} :
           (Excused(d) => ExcusedNext(d)) /\ (Busy(d) => meddled'[d] \/ records' = records)
  BY <1>1, Histories
<1>4. ASSUME ~Fixture
      PROVE  /\ RecordsOK(records') /\ LateOK' /\ DOMAIN held' = Callers
             /\ \A d \in Callers : HoldsOK(records', pass'[d], held'[d])
             /\ \A d \in Callers \ {c} : held'[d] = held[d]
  <2>1. Grown
    BY <1>4, RecordsMove
  <2>2. HeldAlone(c) /\ HoldsOK(records', pass'[c], held'[c])
    BY <1>4, HeldMoves
  <2>3. ASSUME NEW d \in Callers \ {c} PROVE HoldsOK(records', pass'[d], held'[d])
    <3>1. HoldsOK(records, pass[d], held[d])
      BY <1>4, InWorld
    <3>2. HoldsOK(records', pass[d], held[d])
      BY <2>1, <3>1, HoldsStay DEF Grown
    <3>3. QED BY <1>2, <2>2, <3>2 DEF Others, HeldAlone
  <2>4. LateOK'
    BY <1>4, LateMoves
  <2>5. QED BY <2>1, <2>2, <2>3, <2>4 DEF Grown, HeldAlone
<1>5. World'
  BY <1>2, <1>4 DEF World
<1>6. CauseInv(c)'
  <2>1. CASE Fixture
    <3>1. pass'[c] = "idle" => answer'[c].kind \notin {"partial_failure", "validation_failed"}
      BY <1>1, <2>1, FixtureAnswers
    <3>2. QED BY <1>2, <2>1, <3>1 DEF CauseInv, Busy
  <2>2. CASE ~Fixture
    <3>1. ExcusedNext(c) \/
          Well(input, records', pass'[c], at'[c], held'[c], need'[c], actions'[c], answer'[c])
      BY <2>2, CallCause
    <3>2. CASE ExcusedNext(c)
      BY <3>2 DEF CauseInv, Excused, ExcusedNext
    <3>3. CASE Well(input, records', pass'[c], at'[c], held'[c], need'[c], actions'[c], answer'[c])
      BY <1>2, <3>3 DEF CauseInv, Busy, Well
    <3>4. QED BY <3>1, <3>2, <3>3
  <2>3. QED BY <2>1, <2>2
<1>7. ASSUME NEW d \in Callers, d # c
      PROVE  CauseInv(d)'
  <2>1. /\ pass'[d] = pass[d] /\ at'[d] = at[d] /\ need'[d] = need[d] /\ actions'[d] = actions[d]
        /\ answer'[d] = answer[d] /\ CauseInv(d)
        /\ (Excused(d) => ExcusedNext(d)) /\ (Busy(d) => meddled'[d] \/ records' = records)
    BY <1>1, <1>2, <1>3, <1>7 DEF Others
  <2>2. CASE ~Busy(d)
    BY <2>1, <2>2 DEF CauseInv, Busy, Excused, ExcusedNext
  <2>3. CASE Busy(d) /\ (Fixture \/ ExcusedNext(d))
    BY <1>2, <2>1, <2>3 DEF CauseInv, Busy, Excused, ExcusedNext
  <2>4. CASE Busy(d) /\ ~Fixture /\ ~ExcusedNext(d)
    <3>1. ~Excused(d) /\ records' = records /\ held'[d] = held[d]
      BY <1>4, <1>7, <2>1, <2>4 DEF ExcusedNext
    <3>2. /\ Undisturbed(input, records, pass[d], at[d], held[d], need[d], actions[d])
          /\ ReadsBackHeld(input, pass[d], at[d], held[d])
      BY <2>1, <2>4, <3>1 DEF CauseInv
    <3>3. QED BY <1>2, <2>1, <2>4, <3>1, <3>2 DEF CauseInv, Busy
  <2>5. QED BY <2>2, <2>3, <2>4
<1>8. \A d \in Callers : CauseInv(d)'
  BY <1>6, <1>7
<1>9. QED BY <1>3, <1>5, <1>8 DEF Causes

\* Somebody else's records, or a write that comes late: whoever is busy and did not send it,
\* or was told that it failed, is excused.
LEMMA WorldCauses ==
  ASSUME Causes, HistoryShape',
         UNCHANGED <<input, pass, at, held, need, actions, answer, failed, calls>>,
         \A d \in Callers : (meddled[d] => meddled'[d]) /\ (~Fixture /\ Busy(d) => ExcusedNext(d)),
         late' \subseteq late, ~Fixture => Grown
  PROVE  Causes'
<1>1. Fixture' <=> Fixture
  BY DEF Fixture
<1>2. ASSUME ~Fixture
      PROVE  /\ RecordsOK(records') /\ LateOK' /\ DOMAIN held' = Callers
             /\ \A d \in Callers : HoldsOK(records', pass'[d], held'[d])
  <2>1. /\ LateOK /\ DOMAIN held = Callers /\ Grown
        /\ \A d \in Callers : HoldsOK(records, pass[d], held[d])
    BY <1>2 DEF Causes, World
  <2>2. \A w : WriteOK(records, w) => WriteOK(records', w)
    BY <2>1, WriteStays DEF Grown
  <2>3. LateOK'
    BY <2>1, <2>2 DEF LateOK, Busy
  <2>4. \A d \in Callers : HoldsOK(records', pass[d], held[d])
    BY <2>1, HoldsStay DEF Grown
  <2>5. QED BY <2>1, <2>3, <2>4 DEF Grown
<1>3. World'
  BY <1>1, <1>2 DEF World
<1>4. ASSUME NEW d \in Callers PROVE CauseInv(d)'
  <2>1. CauseInv(d) /\ (Excused(d) => ExcusedNext(d))
    BY DEF Causes, Excused, ExcusedNext
  <2>2. CASE Busy(d)
    BY <1>1, <2>2 DEF CauseInv, Busy, Excused, ExcusedNext
  <2>3. CASE ~Busy(d)
    BY <2>1, <2>3 DEF CauseInv, Busy, Excused, ExcusedNext
  <2>4. QED BY <2>2, <2>3
<1>5. QED BY <1>3, <1>4 DEF Causes

LEMMA OtherCauses ==
  ASSUME Causes, (\E w \in late : Lands(w)) \/ ForeignWrite
  PROVE  Causes'
<1>1. HistoryShape /\ (~Fixture => RecordsOK(records) /\ LateOK)
  BY DEF Causes, World
<1>2. ASSUME NEW w \in late, Lands(w) PROVE Causes'
  <2>1. /\ UNCHANGED <<input, pass, at, held, need, actions, answer, failed, calls>>
        /\ late' \subseteq late /\ records' = Stored(w)
        /\ meddled' = [d \in Callers |-> meddled[d] \/ (Busy(d) /\ (d # w.caller \/ w.call # calls))]
    BY <1>2 DEF Lands, call, counts
  <2>2. HistoryShape' /\ \A d \in Callers : meddled[d] => meddled'[d]
    BY <1>1, <2>1 DEF HistoryShape
  <2>3. ASSUME ~Fixture, NEW d \in Callers, Busy(d) PROVE ExcusedNext(d)
    <3>1. CASE d # w.caller \/ w.call # calls
      BY <2>1, <2>3, <3>1 DEF ExcusedNext
    <3>2. CASE d = w.caller /\ w.call = calls
      <4>1. failed[d]
        BY <1>1, <2>3, <3>2 DEF LateOK
      <4>2. QED BY <2>1, <4>1 DEF ExcusedNext
    <3>3. QED BY <3>1, <3>2
  <2>4. ~Fixture => Grown
    <3>1. SUFFICES ASSUME ~Fixture PROVE Grown
      OBVIOUS
    <3>2. RecordsOK(records) /\ WriteOK(records, w)
      BY <1>1, <3>1 DEF LateOK
    <3>3. QED BY <2>1, <3>2, Storing DEF Grown
  <2>5. QED BY <2>1, <2>2, <2>3, <2>4, WorldCauses
<1>3. CASE ForeignWrite
  <2>1. /\ UNCHANGED <<input, pass, at, held, need, actions, answer, failed, calls>>
        /\ late' = late /\ meddled' = [d \in Callers |-> meddled[d] \/ Busy(d)]
    BY <1>3 DEF ForeignWrite, call
  <2>2. HistoryShape' /\ \A d \in Callers : meddled[d] => meddled'[d]
    BY <1>1, <2>1 DEF HistoryShape
  <2>3. \A d \in Callers : Busy(d) => ExcusedNext(d)
    BY <2>1 DEF ExcusedNext
  <2>4. ~Fixture => Grown
    BY <1>1, <1>3, ForeignRecords DEF Grown
  <2>5. QED BY <2>1, <2>2, <2>3, <2>4, WorldCauses
<1>4. QED BY <1>2, <1>3

LEMMA ThereOK ==
  ASSUME ~Fixture, NEW S, S \subseteq Slots, \A s \in S : Parents[s] \subseteq S, NEW odd
  PROVE  RecordsOK(There(S, odd))
<1> DEFINE R == There(S, odd)
<1> DEFINE rec(s) == [slot |-> s, id |-> 1, under |-> [p \in HangsOn[s] |-> 1], fits |-> s # odd]
<1>1. R = {rec(s) : s \in S} /\ \A s \in S : HangsOn[s] \subseteq S
  BY ParentsOfTools DEF There
<1>2. \A s : rec(s).slot = s /\ rec(s).id = 1 /\ rec(s).under = [p \in HangsOn[s] |-> 1]
  OBVIOUS
<1>3. \A s \in S : rec(s) \in [slot : Slots, id : Nat, under : Unders, fits : BOOLEAN]
  <2>1. SUFFICES ASSUME NEW s \in S
                 PROVE  rec(s) \in [slot : Slots, id : Nat, under : Unders, fits : BOOLEAN]
    OBVIOUS
  <2>2. [p \in HangsOn[s] |-> 1] \in Unders
    <3>1. [p \in HangsOn[s] |-> 1] \in [HangsOn[s] -> Nat]
      OBVIOUS
    <3>2. s \in Slots
      BY <2>1
    <3>3. QED BY <3>1, <3>2 DEF Unders
  <2>3. QED BY <2>1, <2>2
<1> HIDE DEF R, rec
<1>4. ASSUME NEW s \in Slots
      PROVE  Numbered(R, s) /\ (s \in S => Count(R, s) = 1)
  <2>1. CASE s \in S
    <3>1. In(R, s) = {rec(s)}
      BY <1>1, <1>2, <2>1 DEF In
    <3>2. NumberedTo(R, s, 1)
      BY <1>2, <3>1 DEF NumberedTo
    <3>3. QED BY <3>2, Counting
  <2>2. CASE s \notin S
    <3>1. In(R, s) = {}
      BY <1>1, <1>2, <2>2 DEF In
    <3>2. NumberedTo(R, s, 0)
      BY <3>1 DEF NumberedTo
    <3>3. QED BY <2>2, <3>2, Counting
  <2>3. QED BY <2>1, <2>2
<1>5. ASSUME NEW s \in S PROVE Hung(R, s, [p \in HangsOn[s] |-> 1])
  <2>1. \A p \in HangsOn[s] : Count(R, p) = 1
    BY <1>1, <1>4
  <2>2. QED BY <2>1 DEF Hung
<1>6. ASSUME NEW r \in R PROVE Hung(R, r.slot, r.under)
  <2>1. PICK s \in S : r = rec(s)
    BY <1>1
  <2>2. r.slot = s /\ r.under = [p \in HangsOn[s] |-> 1]
    BY <1>2, <2>1
  <2>3. QED BY <1>5, <2>2
<1>7. R \subseteq [slot : Slots, id : Nat, under : Unders, fits : BOOLEAN]
  BY <1>1, <1>3
<1>8. QED BY <1>4, <1>6, <1>7 DEF RecordsOK, R

LEMMA InitCauses ==
  ASSUME InputAssumption, Init
  PROVE  Causes
<1>1. HistoryShape /\ \A c \in Callers : CauseInv(c)
  BY DEF Init, HistoryShape, CauseInv, Busy
<1>2. ASSUME ~Fixture
      PROVE  /\ RecordsOK(records) /\ LateOK /\ DOMAIN held = Callers
             /\ \A c \in Callers : HoldsOK(records, pass[c], held[c])
  <2>1. Shape
    BY InitInv DEF IInv
  <2>2. PICK S \in SUBSET input.asks, odd \in Slots \cup {"none"} :
          (\A s \in S : Parents[s] \subseteq S) /\ records = There(S, odd)
    BY DEF Init
  <2>3. S \subseteq Slots
    BY <1>2, <2>1, <2>2, Asked
  <2>4. RecordsOK(records)
    BY <1>2, <2>2, <2>3, ThereOK
  <2>5. LateOK /\ DOMAIN held = Callers /\ \A c \in Callers : held[c] = Fresh
    BY DEF Init, LateOK
  <2>6. QED BY <2>4, <2>5, FreshHolds
<1>3. QED BY <1>1, <1>2 DEF Causes, World

\* A workflow stops in the middle, with its account of what was done, only if a request of
\* the call failed or somebody else wrote in the meantime: what upsert_part_workflow can
\* know to be missing, or to be ambiguous, it asks for in its preflight, before it writes
\* (partUpsertResolutionClarification); and the order workflow, which has no preflight, puts
\* its questions with the list of what it did, so that a bad match is never a failure of it.
THEOREM StopsForCause == Spec => []PartialForCause
<1>1. Init => Causes
  BY InitCauses, InputAssumption
<1>2. IInv /\ Causes /\ [Next]_vars => Causes'
  <2>1. SUFFICES ASSUME IInv, Causes, [Next]_vars PROVE Causes'
    OBVIOUS
  <2>2. ASSUME NEW c \in Callers,
               \/ \E dry \in BOOLEAN : Start(c, dry)
               \/ Look(c) \/ LookFails(c)
               \/ WriteAnswered(c) \/ WriteRejected(c) \/ WriteLost(c)
               \/ recoverExtraLine(c) \/ Verify(c)
        PROVE  Causes'
    <3>1. \E dry \in BOOLEAN : Acts(c, dry)
      BY <2>2 DEF Acts
    <3>2. QED BY <2>1, <3>1, CallCauses, InputAssumption
  <2>3. CASE (\E w \in late : Lands(w)) \/ ForeignWrite
    BY <2>1, <2>3, OtherCauses
  <2>4. CASE UNCHANGED vars
    BY <2>1, <2>4 DEF vars, call, counts, Causes, HistoryShape, World, CauseInv, Excused, LateOK,
       Fixture, Busy
  <2>5. QED BY <2>1, <2>2, <2>3, <2>4 DEF Next
<1>3. Causes => PartialForCause
  BY DEF Causes, CauseInv, PartialForCause, Answered, Excused
<1>4. QED BY <1>1, <1>2, <1>3, Invariance, PTL DEF Spec

-----------------------------------------------------------------------------
(* Calling again.                                                            *)

IsFixture(i) == i.tool = "fixture"
ProgramOf(i) ==
  IF IsFixture(i) THEN IF i.kind = "user" THEN createTestAccount ELSE ensureFixture(i.kind)
  ELSE ToolSteps(i.tool)
ParentsOf(i) == IF IsFixture(i) THEN [HangsOn EXCEPT !.part = {"category", "location"}] ELSE HangsOn
UnderOf(i, h, s) == [p \in ParentsOf(i)[s] |-> h[p]]

\* No record of slot s that one under u would double; and no doubles.
Free(i, R, s, u) ==
  \A r \in In(R, s) : ~IsFixture(i) /\ (r.under # u \/ (s \in Companies /\ ~r.fits))
Single(i, R) ==
  \A q, r \in R :
    /\ q.slot = r.slot
    /\ IsFixture(i) \/ (q.under = r.under /\ (q.slot \in Companies => q.fits = r.fits))
    => q = r

\* Nothing of a record is lost on the way.
Whole(r) == r = [slot |-> r.slot, id |-> r.id, under |-> r.under, fits |-> r.fits]
Grows(R, Q) == \A r \in R : \E q \in Q : q.slot = r.slot /\ q.id = r.id /\ (r.fits => q.fits)

\* There is one record of a fixture, so that it is known what an order is under; of what a
\* tool is given by ID there is one.
OnSupplier == [p \in {"supplier"} |-> 1]
Sound(i, R) ==
  /\ Single(i, R) /\ \A r \in R : Whole(r) /\ r.slot \in Slots
  /\ IF IsFixture(i) THEN \A r \in R : r.id = 1 /\ (r.slot = "order" => r.under = OnSupplier)
     ELSE \A s \in i.byId : \E r \in In(R, s) : r.id = 1

\* A write that makes no doubles.
WriteSafe(i, R, w) ==
  /\ w.slot \in Slots
  /\ w.id = None => Free(i, R, w.slot, w.under)
  /\ w.id # None => IsFixture(i) \/ w.slot \notin Companies
  /\ IsFixture(i) => w.id \in {None, 1} /\ (w.slot = "order" => w.under = OnSupplier)

Provided(i, R, done) ==
  \A s \in i.asks : \/ <<s, "skipped">> \in done
                    \/ \E r \in In(R, s) : IsFixture(i) \/ s \in {"line", "extra"} => r.fits

\* A slot that a call has seen to.
SeenTo(i, R, k, h, done, s) ==
  IF IsFixture(i) THEN h[s] = 1 /\ \E r \in In(R, s) : r.fits \/ (s = "user" /\ k <= 3)
  ELSE <<s, "skipped">> \in done \/ \E r \in In(R, s) : s \in {"line", "extra"} => r.fits

\* Where the call is while a slot waits for its write.
Pending(i, k, s, n) ==
  /\ s \in i.asks
  /\ IF i.tool = "order"
     THEN \/ s = "order" /\ n = "create" /\ k = 3
          \/ s = "order" /\ n = "update" /\ k \in 3..6
          \/ s = "line" /\ n # "recovery" /\ k \in 5..7
          \/ s = "extra" /\ k \in 6..8 /\ (n = "recovery" => k = 8)
     ELSE ProgramOf(i)[k] = Step("write", s) /\ n # "recovery"

\* A call holds a record or none, of a fixture the first.
Kept(i, h) == DOMAIN h = Slots /\ (IsFixture(i) => \A s \in Slots : h[s] \in {None, 1})

\* What is needed of a slot in the last pass.
Needed(i, R, h, s, n) ==
  /\ n \in {"nothing", "create", "update", "recovery"}
  /\ n = "create" => h[s] = None /\ Free(i, R, s, UnderOf(i, h, s))
  /\ n = "update" => h[s] # None /\ ~IsFixture(i) /\ s \notin Companies

Waits(i, k, s, n) ==
  /\ s \in i.asks /\ n # "recovery"
  /\ IF i.tool = "order"
     THEN \/ s = "order" /\ n = "create" /\ k = 2
          \/ s = "order" /\ n = "update" /\ k \in 2..5
          \/ s = "line" /\ k \in 4..6
          \/ s = "extra" /\ k \in 5..7
     ELSE ProgramOf(i)[k] = Step("look", s)

\* A step has been taken, and a call is about to go on.
Settling(i, R, k, h, needs, done) ==
  LET P == ProgramOf(i) IN
  /\ k \in 1..Len(P) /\ Kept(i, h)
  /\ \A s \in Slots : Needed(i, R, h, s, needs[s]) /\ (needs[s] # "nothing" => Waits(i, k, s, needs[s]))
  /\ \A j \in 1..k :
       P[j].op = "look" /\ P[j].slot \in i.asks /\ needs[P[j].slot] = "nothing" =>
         SeenTo(i, R, k + 1, h, done, P[j].slot)

Tidy(i, R, k, h, needs, done) ==
  LET P == ProgramOf(i) IN
  /\ k \in 1..Len(P) /\ Kept(i, h)
  /\ \A s \in Slots : Needed(i, R, h, s, needs[s]) /\ (needs[s] # "nothing" => Pending(i, k, s, needs[s]))
  /\ P[k].slot \in i.asks
  /\ P[k].op = "write" => needs[P[k].slot] # "nothing"
  /\ P[k].op \in {"create", "update"} => IsFixture(i) \/ needs[P[k].slot] = P[k].op
  /\ \A j \in 1..(k - 1) :
       P[j].op = "look" /\ P[j].slot \in i.asks /\ needs[P[j].slot] = "nothing" =>
         SeenTo(i, R, k, h, done, P[j].slot)

\* A write that may come late while its call goes on.
Awaited(i, c, k, h, needs, w) ==
  /\ i.tool = "order" /\ w.caller = c /\ w.slot = "extra"
  /\ IF needs["extra"] = "recovery" THEN w.id = h["extra"] /\ w.under = UnderOf(i, h, "extra")
     ELSE k > 8 /\ w.id # None

Orderly(i, R, p, k, h, needs, done, a) ==
  IF p # "idle" THEN (p = "run" => Tidy(i, R, k, h, needs, done)) /\ (IsFixture(i) => p = "run")
  ELSE /\ h = Fresh /\ needs = Idle /\ done = {}
       /\ a.kind = "ok" => Provided(i, R, a.actions)
CallTidy(c) ==
  Orderly(input, records, pass[c], at[c], held[c], need[c], actions[c], answer[c])

LateSafe ==
  /\ calls \in Nat /\ \A w \in late : w.call \in Nat /\ w.call <= calls
  /\ \A w \in late : w.call = calls =>
       /\ WriteSafe(input, records, w)
       /\ \A c \in Callers : Busy(c) => pass[c] = "run" /\ Awaited(input, c, at[c], held[c], need[c], w)
  /\ \A v, w \in late : v.call = calls /\ w.call = calls => v = w

Converging == ~disturbed =>
  /\ DOMAIN held = Callers
  /\ Sound(input, records) /\ LateSafe
  /\ \A c, d \in Callers : Busy(c) /\ Busy(d) => c = d
  /\ \A c \in Callers : CallTidy(c)

LEMMA InputsProgram ==
  ASSUME InputAssumption, Shape
  PROVE  /\ Program = ProgramOf(input) /\ Parents = ParentsOf(input) /\ (Fixture <=> IsFixture(input))
         /\ input \in Inputs /\ input.asks \subseteq Slots
         /\ input.tool \in {"upsert", "order", "fixture"}
<1>1. input \in Inputs /\ input.tool \in {"upsert", "order", "fixture"} /\ input.asks \subseteq Slots
  BY DEF InputAssumption, InputOK, Shape, Input
<1>2. Program = ProgramOf(input)
  <2>1. CASE Fixture
    BY <2>1 DEF Program, ProgramOf, Fixture, IsFixture, Upsert
  <2>2. CASE ~Fixture
    BY <2>2, Asked DEF ProgramOf, Fixture, IsFixture
  <2>3. QED BY <2>1, <2>2
<1>3. QED BY <1>1, <1>2 DEF Parents, ParentsOf, Fixture, IsFixture

\* The slots a fixture comes past, in their order.
LEMMA Needs ==
  ASSUME NEW kind \in FixtureSlots, kind # "user"
  PROVE  LET slots == FixtureNeeds(kind) IN
         /\ slots \in Seq(FixtureSlots) /\ Len(slots) \in Nat /\ Len(slots) >= 1
         /\ \A m \in 1..Len(slots) : slots[m] # "user"
         /\ \A m \in 1..Len(slots) : slots[m] = "order" => m = 2 /\ slots[1] = "supplier"
<1>1. FixtureSlots = {"part", "manufacturer", "supplier", "supplier_part", "order", "category", "location",
                      "assembly", "bom", "user"}
  BY SlotNames DEF FixtureSlots
<1> DEFINE slots == FixtureNeeds(kind)
<1>2. CASE kind \in {"part", "assembly"}
  <2>1. slots = <<"category", "location", kind>>
    BY <1>2 DEF FixtureNeeds
  <2> HIDE DEF slots
  <2>2. slots \in Seq(FixtureSlots) /\ Len(slots) = 3
    BY <1>1, <1>2, <2>1
  <2>3. \A m \in 1..3 : slots[m] \notin {"user", "order"}
    BY <1>2, <2>1
  <2>4. QED BY <2>2, <2>3 DEF slots
<1>3. CASE kind = "supplier_part"
  <2>1. slots = <<"category", "location", "part", "supplier", "supplier_part">>
    BY <1>3 DEF FixtureNeeds
  <2> HIDE DEF slots
  <2>2. slots \in Seq(FixtureSlots) /\ Len(slots) = 5
    BY <1>1, <2>1
  <2>3. \A m \in 1..5 : slots[m] \notin {"user", "order"}
    BY <2>1
  <2>4. QED BY <2>2, <2>3 DEF slots
<1>4. CASE kind = "order"
  <2>1. slots = <<"supplier", "order">>
    BY <1>4 DEF FixtureNeeds
  <2> HIDE DEF slots
  <2>2. slots \in Seq(FixtureSlots) /\ Len(slots) = 2
    BY <1>1, <2>1
  <2>3. \A m \in 1..2 : slots[m] # "user" /\ (slots[m] = "order" => m = 2) /\ slots[1] = "supplier"
    BY <2>1
  <2>4. QED BY <2>2, <2>3 DEF slots
<1>5. CASE kind = "bom"
  <2>1. slots = <<"category", "location", "assembly", "category", "location", "part", "bom">>
    BY <1>5 DEF FixtureNeeds
  <2> HIDE DEF slots
  <2>2. slots \in Seq(FixtureSlots) /\ Len(slots) = 7
    BY <1>1, <2>1
  <2>3. \A m \in 1..7 : slots[m] \notin {"user", "order"}
    BY <2>1
  <2>4. QED BY <2>2, <2>3 DEF slots
<1>6. CASE kind \notin {"part", "assembly", "supplier_part", "order", "bom"}
  <2>1. slots = <<kind>>
    BY <1>6 DEF FixtureNeeds
  <2> HIDE DEF slots
  <2>2. slots \in Seq(FixtureSlots) /\ Len(slots) = 1 /\ slots[1] = kind
    BY <2>1
  <2>3. \A m \in 1..1 : slots[m] \notin {"user", "order"}
    BY <1>6, <2>2
  <2>4. QED BY <2>2, <2>3 DEF slots
<1>7. QED BY <1>2, <1>3, <1>4, <1>5, <1>6

\* A program over slots: each is looked up, and written in the next step.
InPairs(P, S) ==
  /\ Len(P) \in Nat /\ Len(P) >= 2 /\ P[1].op = "look"
  /\ \A k \in 1..Len(P) :
       /\ P[k].slot \in S /\ P[k].op \in {"look", "write"}
       /\ P[k].op = "look" => k + 1 <= Len(P) /\ P[k + 1] = Step("write", P[k].slot)
       /\ P[k].op = "write" => k - 1 >= 1 /\ P[k - 1] = Step("look", P[k].slot)
  /\ \A s \in S : \E j \in 1..Len(P) : P[j] = Step("look", s)

LEMMA FixturePairs ==
  ASSUME NEW kind \in FixtureSlots, kind # "user"
  PROVE  LET P == ensureFixture(kind) IN
         /\ InPairs(P, ToSet(FixtureNeeds(kind)))
         /\ "user" \notin ToSet(FixtureNeeds(kind)) /\ ToSet(FixtureNeeds(kind)) \subseteq FixtureSlots
         /\ \A k \in 1..Len(P) : P[k] = Step("look", "order") => k = 3 /\ P[1] = Step("look", "supplier")
         /\ \A k \in 1..Len(P) : P[k] = Step("write", "order") => k = 4
<1> DEFINE slots == FixtureNeeds(kind)
<1> DEFINE n == Len(slots)
<1> DEFINE P == ensureFixture(kind)
<1>1. /\ n \in Nat /\ n >= 1 /\ slots \in Seq(FixtureSlots)
      /\ \A m \in 1..n : /\ slots[m] # "user" /\ slots[m] \in FixtureSlots
                         /\ (slots[m] = "order" => m = 2 /\ slots[1] = "supplier")
  BY Needs
<1>2. P = [k \in 1..(2 * n) |-> Step(IF k % 2 = 1 THEN "look" ELSE "write", slots[(k + 1) \div 2])]
  BY DEF ensureFixture
<1>3. ToSet(slots) = {slots[m] : m \in 1..n}
  BY <1>1 DEF ToSet
<1> HIDE DEF slots, n, P
<1>4. Len(P) = 2 * n
  BY <1>1, <1>2
<1>5. ASSUME NEW m \in 1..n
      PROVE  /\ 2 * m - 1 \in 1..(2 * n) /\ 2 * m \in 1..(2 * n)
             /\ P[2 * m - 1] = Step("look", slots[m]) /\ P[2 * m] = Step("write", slots[m])
  <2>1. 2 * m - 1 \in 1..(2 * n) /\ 2 * m \in 1..(2 * n) /\ m \in Nat
    BY <1>1
  <2>2. (2 * m - 1) % 2 = 1 /\ (2 * m) % 2 = 0
    BY <2>1
  <2>3. (2 * m - 1 + 1) \div 2 = m /\ (2 * m + 1) \div 2 = m
    BY <2>1
  <2>4. QED BY <1>2, <2>1, <2>2, <2>3
<1>6. ASSUME NEW k \in 1..(2 * n)
      PROVE  \E m \in 1..n : k = 2 * m - 1 \/ k = 2 * m
  <2>1. k \in Nat /\ (k + 1) \div 2 \in 1..n /\ (k = 2 * ((k + 1) \div 2) - 1 \/ k = 2 * ((k + 1) \div 2))
    BY <1>1
  <2>2. QED BY <2>1
<1>7. \A k \in 1..(2 * n) : \E m \in 1..n :
        /\ P[k].slot = slots[m]
        /\ \/ k = 2 * m - 1 /\ P[k] = Step("look", slots[m]) /\ P[k].op = "look" /\ k + 1 = 2 * m
           \/ k = 2 * m /\ P[k] = Step("write", slots[m]) /\ P[k].op = "write" /\ k - 1 = 2 * m - 1
  <2>1. SUFFICES ASSUME NEW k \in 1..(2 * n)
                 PROVE  \E m \in 1..n :
        /\ P[k].slot = slots[m]
        /\ \/ k = 2 * m - 1 /\ P[k] = Step("look", slots[m]) /\ P[k].op = "look" /\ k + 1 = 2 * m
           \/ k = 2 * m /\ P[k] = Step("write", slots[m]) /\ P[k].op = "write" /\ k - 1 = 2 * m - 1
    OBVIOUS
  <2>2. PICK m \in 1..n : k = 2 * m - 1 \/ k = 2 * m
    BY <1>6
  <2>3. m \in Nat
    OBVIOUS
  <2>4. \A o, t : Step(o, t).slot = t /\ Step(o, t).op = o
    BY DEF Step
  <2>5. CASE k = 2 * m - 1
    <3>1. P[k] = Step("look", slots[m]) /\ k + 1 = 2 * m
      BY <1>5, <2>3, <2>5
    <3>2. P[k].slot = slots[m] /\ P[k].op = "look"
      BY <2>4, <3>1
    <3>3. QED BY <2>5, <3>1, <3>2
  <2>6. CASE k = 2 * m
    <3>1. P[k] = Step("write", slots[m])
      BY <1>5, <2>6
    <3>2. P[k].slot = slots[m] /\ P[k].op = "write"
      BY <2>4, <3>1
    <3>3. QED BY <2>6, <3>1, <3>2
  <2>7. QED BY <2>2, <2>5, <2>6
<1>8. ASSUME NEW k \in 1..(2 * n)
      PROVE  /\ P[k].slot \in ToSet(slots) /\ P[k].op \in {"look", "write"}
             /\ P[k].op = "look" => k + 1 <= 2 * n /\ P[k + 1] = Step("write", P[k].slot)
             /\ P[k].op = "write" => k - 1 >= 1 /\ P[k - 1] = Step("look", P[k].slot)
             /\ P[k] = Step("look", "order") => k = 3 /\ P[1] = Step("look", "supplier")
             /\ P[k] = Step("write", "order") => k = 4
  <2>1. PICK m \in 1..n :
          /\ P[k].slot = slots[m]
          /\ \/ k = 2 * m - 1 /\ P[k] = Step("look", slots[m]) /\ P[k].op = "look" /\ k + 1 = 2 * m
             \/ k = 2 * m /\ P[k] = Step("write", slots[m]) /\ P[k].op = "write" /\ k - 1 = 2 * m - 1
    BY <1>7
  <2>2. P[k].slot \in ToSet(slots) /\ P[k].op \in {"look", "write"}
    BY <1>3, <2>1
  <2>3. P[k].op = "look" => k + 1 <= 2 * n /\ P[k + 1] = Step("write", P[k].slot)
    BY <1>5, <2>1
  <2>4. P[k].op = "write" => k - 1 >= 1 /\ P[k - 1] = Step("look", P[k].slot)
    BY <1>5, <2>1
  <2>5. ASSUME P[k].slot = "order" PROVE m = 2 /\ P[1] = Step("look", "supplier")
    <3>0. slots[m] = "order"
      BY <2>1, <2>5
    <3>1. m = 2 /\ slots[1] = "supplier" /\ 1 \in 1..n
      BY <1>1, <3>0
    <3>2. P[2 * 1 - 1] = Step("look", slots[1])
      BY <1>5, <3>1
    <3>3. QED BY <3>1, <3>2
  <2>6. P[k] = Step("look", "order") \/ P[k] = Step("write", "order") => P[k].slot = "order"
    BY DEF Step
  <2>7. P[k] = Step("look", "order") => P[k].op = "look"
    BY DEF Step
  <2>8. P[k] = Step("write", "order") => P[k].op = "write"
    BY DEF Step
  <2>9. P[k] = Step("look", "order") => k = 3 /\ P[1] = Step("look", "supplier")
    BY <2>1, <2>5, <2>6, <2>7
  <2>10. P[k] = Step("write", "order") => k = 4
    BY <2>1, <2>5, <2>6, <2>8
  <2>11. QED BY <2>2, <2>3, <2>4, <2>9, <2>10
<1>9. \A s \in ToSet(slots) : \E j \in 1..(2 * n) : P[j] = Step("look", s)
  BY <1>3, <1>5
<1>10. P[1].op = "look"
  <2>1. 1 \in 1..n
    BY <1>1
  <2>2. P[2 * 1 - 1] = Step("look", slots[1])
    BY <1>5, <2>1
  <2>3. QED BY <2>2 DEF Step
<1>11. InPairs(P, ToSet(slots))
  BY <1>1, <1>4, <1>8, <1>9, <1>10 DEF InPairs
<1>12. "user" \notin ToSet(slots)
  BY <1>1, <1>3
<1>13. ToSet(slots) \subseteq FixtureSlots
  BY <1>1, <1>3
<1>14. QED BY <1>4, <1>8, <1>11, <1>12, <1>13 DEF P, slots

\* The programs of all inputs: every slot asked for is looked up, and but for orders written
\* in the next step.
LEMMA Programs ==
  ASSUME InputAssumption, NEW i \in Inputs
  PROVE  LET P == ProgramOf(i) IN
         /\ Len(P) \in Nat /\ Len(P) >= 2 /\ P[1].op = "look" /\ P[1].slot \in i.asks
         /\ i.asks \subseteq Slots
         /\ \A s \in i.asks : \E j \in 1..Len(P) : P[j] = Step("look", s)
         /\ i.tool # "order" => \A k \in 1..Len(P) :
              /\ P[k].op = "look" => k + 1 <= Len(P) /\ P[k + 1] = Step("write", P[k].slot)
              /\ P[k].op = "write" => k - 1 >= 1 /\ P[k - 1] = Step("look", P[k].slot)
         /\ i.tool = "upsert" => \A k \in 1..Len(P) : P[k].op \in {"look", "write", "verify"}
<1>1. i.tool \in {"upsert", "order", "fixture"} /\ i.asks \subseteq Slots
  BY DEF InputAssumption, InputOK, Input
<1> DEFINE P == ProgramOf(i)
<1>2. CASE i.tool = "upsert"
  <2>1. P = ToolSteps("upsert") /\ "part" \in i.asks /\ i.asks \subseteq PartSlots
    BY <1>2 DEF ProgramOf, IsFixture, InputAssumption, InputOK
  <2> HIDE DEF P
  <2>2. Len(P) = 12 /\ P[1] = Step("look", "part")
    BY <2>1, UpsertSteps
  <2>3. \A k \in 1..12 :
          /\ P[k].slot \in PartSlots /\ P[k].op \in {"look", "write", "verify"}
          /\ P[k].op = "look" => k = 2 * Turn(P[k].slot) - 1
          /\ P[k].op = "write" => k = 2 * Turn(P[k].slot)
    BY <2>1, UpsertTurns
  <2>4. \A t \in PartSlots :
          Turn(t) \in 1..5 /\ P[2 * Turn(t) - 1] = Step("look", t) /\ P[2 * Turn(t)] = Step("write", t)
    BY <2>1, UpsertTurns
  <2>5. ASSUME NEW s \in i.asks PROVE \E j \in 1..Len(P) : P[j] = Step("look", s)
    <3>1. Turn(s) \in 1..5 /\ P[2 * Turn(s) - 1] = Step("look", s)
      BY <2>1, <2>4
    <3>2. 2 * Turn(s) - 1 \in 1..12
      BY <3>1
    <3>3. QED BY <2>2, <3>1, <3>2
  <2>6. ASSUME NEW k \in 1..Len(P)
        PROVE  /\ P[k].op = "look" => k + 1 <= Len(P) /\ P[k + 1] = Step("write", P[k].slot)
               /\ P[k].op = "write" => k - 1 >= 1 /\ P[k - 1] = Step("look", P[k].slot)
               /\ P[k].op \in {"look", "write", "verify"}
    <3> DEFINE t == P[k].slot
    <3>1. t \in PartSlots /\ P[k].op \in {"look", "write", "verify"}
          /\ (P[k].op = "look" => k = 2 * Turn(t) - 1) /\ (P[k].op = "write" => k = 2 * Turn(t))
      BY <2>2, <2>3
    <3>2. Turn(t) \in 1..5 /\ P[2 * Turn(t) - 1] = Step("look", t) /\ P[2 * Turn(t)] = Step("write", t)
      BY <2>4, <3>1
    <3> HIDE DEF t
    <3>3. P[k].op = "look" => k + 1 = 2 * Turn(t) /\ k + 1 <= 12
      BY <3>1, <3>2
    <3>4. P[k].op = "write" => k - 1 = 2 * Turn(t) - 1 /\ k - 1 >= 1
      BY <3>1, <3>2
    <3>5. QED BY <2>2, <3>1, <3>2, <3>3, <3>4 DEF t
  <2>7. P[1].op = "look" /\ P[1].slot \in i.asks
    BY <2>1, <2>2 DEF Step
  <2>8. Len(P) \in Nat /\ Len(P) >= 2 /\ i.tool # "order"
    BY <1>2, <2>2
  <2>9. QED BY <1>1, <2>5, <2>6, <2>7, <2>8 DEF P
<1>3. CASE i.tool = "order"
  <2>1. P = ToolSteps("order") /\ "supplier" \in i.asks /\ i.asks \subseteq OrderSlots
    BY <1>3 DEF ProgramOf, IsFixture, InputAssumption, InputOK
  <2> HIDE DEF P
  <2>2. /\ Len(P) = 10 /\ P[1] = Step("look", "supplier") /\ P[2] = Step("look", "order")
        /\ P[4] = Step("look", "line") /\ P[5] = Step("look", "extra")
    BY <2>1, OrderSteps
  <2>3. \A s \in i.asks : \E j \in 1..Len(P) : P[j] = Step("look", s)
    <3>1. 1 \in 1..10 /\ 2 \in 1..10 /\ 4 \in 1..10 /\ 5 \in 1..10
      OBVIOUS
    <3>2. QED BY <2>1, <2>2, <3>1 DEF OrderSlots
  <2>4. QED BY <1>1, <1>3, <2>1, <2>2, <2>3 DEF P, Step
<1>4. CASE i.tool = "fixture" /\ i.kind = "user"
  <2>1. P = createTestAccount /\ i.asks = ToSet(<<"user">>)
    BY <1>4 DEF ProgramOf, IsFixture, InputAssumption, InputOK, FixtureNeeds
  <2>2. i.asks = {"user"}
    BY <2>1 DEF ToSet
  <2>3. /\ Len(P) = 4 /\ P[1] = Step("look", "user") /\ P[2] = Step("write", "user")
        /\ P[3] = Step("update", "user") /\ P[4] = Step("verify", "user")
    BY <2>1 DEF createTestAccount, LookAndCreate
  <2> HIDE DEF P
  <2>4. \A k \in 1..Len(P) : k = 1 \/ k = 2 \/ k = 3 \/ k = 4
    BY <2>3
  <2>5. ASSUME NEW k \in 1..Len(P)
        PROVE  /\ P[k].op = "look" => k + 1 <= Len(P) /\ P[k + 1] = Step("write", P[k].slot)
               /\ P[k].op = "write" => k - 1 >= 1 /\ P[k - 1] = Step("look", P[k].slot)
    BY <2>3, <2>4 DEF Step
  <2>6. 1 \in 1..Len(P)
    BY <2>3
  <2>7. QED BY <1>1, <1>4, <2>2, <2>3, <2>5, <2>6 DEF P, Step
<1>5. CASE i.tool = "fixture" /\ i.kind # "user"
  <2>1. P = ensureFixture(i.kind) /\ i.asks = ToSet(FixtureNeeds(i.kind)) /\ i.kind \in FixtureSlots
    BY <1>5 DEF ProgramOf, IsFixture, InputAssumption, InputOK
  <2>2. InPairs(P, i.asks)
    BY <1>5, <2>1, FixturePairs
  <2> HIDE DEF P
  <2>3. 1 \in 1..Len(P)
    BY <2>2 DEF InPairs
  <2>4. QED BY <1>1, <1>5, <2>2, <2>3 DEF P, InPairs
<1>6. QED BY <1>1, <1>2, <1>3, <1>4, <1>5

\* The programs of fixtures.
LEMMA FixtureProgram ==
  ASSUME InputAssumption, NEW i \in Inputs, IsFixture(i)
  PROVE  LET P == ProgramOf(i) IN
         /\ i.sku /\ i.asks \subseteq FixtureSlots
         /\ \A k \in 1..Len(P) :
              /\ P[k].slot \in i.asks
              /\ P[k].op \in {"look", "write"} \/ (i.kind = "user" /\ P[k].op \in {"update", "verify"})
              /\ P[k] = Step("look", "order") => k = 3 /\ P[1] = Step("look", "supplier")
              /\ P[k] = Step("write", "order") => k = 4
         /\ IF i.kind = "user"
            THEN /\ Len(P) = 4 /\ P[1] = Step("look", "user") /\ P[2] = Step("write", "user")
                 /\ P[3] = Step("update", "user") /\ P[4] = Step("verify", "user")
            ELSE "user" \notin i.asks
<1> DEFINE P == ProgramOf(i)
<1>1. i.tool = "fixture" /\ i.kind \in FixtureSlots /\ i.sku /\ i.asks = ToSet(FixtureNeeds(i.kind))
  BY DEF InputAssumption, InputOK, IsFixture
<1>2. CASE i.kind = "user"
  <2>1. P = createTestAccount /\ i.asks = ToSet(<<"user">>)
    BY <1>1, <1>2 DEF ProgramOf, FixtureNeeds
  <2>2. i.asks = {"user"} /\ "user" \in FixtureSlots
    BY <1>1, <1>2, <2>1 DEF ToSet
  <2>3. /\ Len(P) = 4 /\ P[1] = Step("look", "user") /\ P[2] = Step("write", "user")
        /\ P[3] = Step("update", "user") /\ P[4] = Step("verify", "user")
    BY <2>1 DEF createTestAccount, LookAndCreate
  <2> HIDE DEF P
  <2>4. \A k \in 1..Len(P) : k = 1 \/ k = 2 \/ k = 3 \/ k = 4
    BY <2>3
  <2>5. ASSUME NEW k \in 1..Len(P)
        PROVE  /\ P[k].slot = "user" /\ P[k].op \in {"look", "write", "update", "verify"}
               /\ P[k] # Step("look", "order") /\ P[k] # Step("write", "order")
    BY <2>3, <2>4 DEF Step
  <2>6. QED BY <1>1, <1>2, <2>2, <2>3, <2>5 DEF P
<1>3. CASE i.kind # "user"
  <2>1. P = ensureFixture(i.kind)
    BY <1>1, <1>3 DEF ProgramOf, IsFixture
  <2>2. /\ InPairs(P, i.asks) /\ "user" \notin i.asks /\ i.asks \subseteq FixtureSlots
        /\ \A k \in 1..Len(P) : P[k] = Step("look", "order") => k = 3 /\ P[1] = Step("look", "supplier")
        /\ \A k \in 1..Len(P) : P[k] = Step("write", "order") => k = 4
    BY <1>1, <1>3, <2>1, FixturePairs
  <2> HIDE DEF P
  <2>3. QED BY <1>1, <1>3, <2>2 DEF P, InPairs
<1>4. QED BY <1>2, <1>3

\* The programs are long enough for what waits: each slot asked for has its turn.
LEMMA OrderProgram ==
  ASSUME InputAssumption, NEW i \in Inputs, i.tool = "order"
  PROVE  LET P == ProgramOf(i) IN
         /\ Len(P) = 10 /\ ~IsFixture(i)
         /\ P[1] = Step("look", "supplier") /\ P[2] = Step("look", "order")
         /\ P[3] = Step("create", "order")
         /\ P[4] = Step("look", "line") /\ P[5] = Step("look", "extra")
         /\ P[6] = Step("update", "order") /\ P[7] = Step("write", "line")
         /\ P[8] = Step("write", "extra") /\ P[9] = Step("verify", "extra")
         /\ P[10] = Step("verify", "order")
         /\ {"supplier", "order"} \subseteq i.asks /\ i.asks \subseteq OrderSlots
         /\ "supplier" \in i.byId /\ i.byId \subseteq {"supplier", "order"} /\ "supplier" \notin i.able
<1>1. ProgramOf(i) = ToolSteps("order") /\ ~IsFixture(i)
  BY DEF ProgramOf, IsFixture
<1>2. /\ {"supplier", "order"} \subseteq i.asks /\ i.asks \subseteq OrderSlots
      /\ "supplier" \in i.byId /\ i.byId \subseteq {"supplier", "order"} /\ "supplier" \notin i.able
  BY DEF InputAssumption, InputOK
<1>3. QED BY <1>1, <1>2, OrderSteps

\* A new record where there was none like it makes no doubles.
LEMMA Adding ==
  ASSUME NEW i, Sound(i, records), NEW w, WriteSafe(i, records, w), w.id = None
  PROVE  LET R2 == Stored(w) IN
         /\ Sound(i, R2) /\ Grows(records, R2)
         /\ \A t : t # w.slot => In(R2, t) = In(records, t)
         /\ \E r \in In(R2, w.slot) : r.fits /\ r.id = NewId(w.slot)
         /\ IsFixture(i) => NewId(w.slot) = 1
<1> DEFINE R == records
<1> DEFINE n == NewId(w.slot)
<1> DEFINE new == [slot |-> w.slot, id |-> n, under |-> w.under, fits |-> TRUE]
<1> DEFINE R2 == Stored(w)
<1>1. R2 = R \cup {new}
  BY DEF Stored
<1>2. Free(i, R, w.slot, w.under) /\ w.slot \in Slots
  BY DEF WriteSafe
<1>3. ASSUME IsFixture(i) PROVE n = 1 /\ (w.slot = "order" => w.under = OnSupplier)
  <2>1. OfSlot(w.slot) = {}
    BY <1>2, <1>3 DEF Free, In, OfSlot
  <2>2. Cardinality({}) = 0
    BY FS_EmptySet
  <2>3. n = 1
    BY <2>1, <2>2 DEF NewId
  <2>4. QED BY <1>3, <2>3 DEF WriteSafe
<1>4. /\ Single(i, R) /\ \A r \in R : Whole(r) /\ r.slot \in Slots
      /\ IsFixture(i) => \A r \in R : r.id = 1 /\ (r.slot = "order" => r.under = OnSupplier)
      /\ ~IsFixture(i) => \A s \in i.byId : \E r \in In(R, s) : r.id = 1
  BY DEF Sound
<1>5. new.slot = w.slot /\ new.id = n /\ new.under = w.under /\ new.fits = TRUE /\ Whole(new)
  BY DEF Whole
<1> HIDE DEF R2, new, n
<1>6. ASSUME NEW r \in R, r.slot = w.slot
      PROVE  ~IsFixture(i) /\ ~ (r.under = w.under /\ (w.slot \in Companies => r.fits))
  BY <1>2, <1>6 DEF Free, In
<1>7. Single(i, R2)
  <2>1. SUFFICES ASSUME NEW q \in R2, NEW r \in R2, q.slot = r.slot,
                        IsFixture(i) \/ (q.under = r.under /\ (q.slot \in Companies => q.fits = r.fits))
                 PROVE  q = r
    BY DEF Single
  <2>2. CASE q \in R /\ r \in R
    BY <1>4, <2>1, <2>2 DEF Single
  <2>3. CASE q = new /\ r \in R
    BY <1>5, <1>6, <2>1, <2>3
  <2>4. CASE q \in R /\ r = new
    BY <1>5, <1>6, <2>1, <2>4
  <2>5. QED BY <1>1, <2>2, <2>3, <2>4
<1>8. \A r \in R2 : Whole(r) /\ r.slot \in Slots
  BY <1>1, <1>2, <1>4, <1>5
<1>9. IsFixture(i) => \A r \in R2 : r.id = 1 /\ (r.slot = "order" => r.under = OnSupplier)
  BY <1>1, <1>3, <1>4, <1>5
<1>10. \A s : In(R, s) \subseteq In(R2, s)
  BY <1>1 DEF In
<1>11. ~IsFixture(i) => \A s \in i.byId : \E r \in In(R2, s) : r.id = 1
  BY <1>4, <1>10
<1>12. Sound(i, R2)
  BY <1>7, <1>8, <1>9, <1>11 DEF Sound
<1>13. Grows(R, R2)
  BY <1>1 DEF Grows
<1>14. \A t : t # w.slot => In(R2, t) = In(R, t)
  BY <1>1, <1>5 DEF In
<1>15. new \in In(R2, w.slot)
  BY <1>1, <1>5 DEF In
<1>16. QED BY <1>3, <1>5, <1>12, <1>13, <1>14, <1>15 DEF R2, n

\* A change of a record makes none either.
LEMMA Refitting ==
  ASSUME NEW i, Sound(i, records), NEW w, WriteSafe(i, records, w), w.id # None
  PROVE  LET R2 == Stored(w) IN
         /\ Sound(i, R2) /\ Grows(records, R2)
         /\ \A t \in Slots : \A u : Free(i, records, t, u) => Free(i, R2, t, u)
         /\ (\E r \in In(records, w.slot) : r.id = w.id) => \E r \in In(R2, w.slot) : r.fits /\ r.id = w.id
<1> DEFINE R == records
<1> DEFINE R2 == Stored(w)
<1> DEFINE f(r) == IF r.slot = w.slot /\ r.id = w.id THEN [r EXCEPT !.fits = TRUE] ELSE r
<1>1. R2 = {f(r) : r \in R}
  BY DEF Stored
<1>2. /\ Single(i, R) /\ \A r \in R : Whole(r) /\ r.slot \in Slots
      /\ IsFixture(i) => \A r \in R : r.id = 1 /\ (r.slot = "order" => r.under = OnSupplier)
      /\ ~IsFixture(i) => \A s \in i.byId : \E r \in In(R, s) : r.id = 1
  BY DEF Sound
<1>3. ASSUME NEW r \in R
      PROVE  /\ f(r).slot = r.slot /\ f(r).id = r.id /\ f(r).under = r.under /\ Whole(f(r))
             /\ r.fits => f(r).fits
             /\ r.slot = w.slot /\ r.id = w.id => f(r).fits
             /\ ~ (r.slot = w.slot /\ r.id = w.id) => f(r) = r
  <2>1. r = [slot |-> r.slot, id |-> r.id, under |-> r.under, fits |-> r.fits]
    BY <1>2 DEF Whole
  <2>2. CASE r.slot = w.slot /\ r.id = w.id
    <3>1. f(r) = [r EXCEPT !.fits = TRUE]
      BY <2>2
    <3>2. f(r) = [slot |-> r.slot, id |-> r.id, under |-> r.under, fits |-> TRUE]
      BY <2>1, <3>1
    <3> HIDE DEF f
    <3>3. f(r).slot = r.slot /\ f(r).id = r.id /\ f(r).under = r.under /\ f(r).fits = TRUE
      BY <3>2
    <3>4. QED BY <2>2, <3>2, <3>3 DEF Whole
  <2>3. CASE ~ (r.slot = w.slot /\ r.id = w.id)
    <3>1. f(r) = r
      BY <2>3
    <3> HIDE DEF f
    <3>2. QED BY <1>2, <2>3, <3>1
  <2>4. QED BY <2>2, <2>3
<1> HIDE DEF f, R2
<1>4. ~IsFixture(i) => w.slot \notin Companies
  BY DEF WriteSafe
<1>5. Single(i, R2)
  <2>1. SUFFICES ASSUME NEW q \in R, NEW r \in R, f(q).slot = f(r).slot,
                        IsFixture(i) \/ (f(q).under = f(r).under /\ (f(q).slot \in Companies => f(q).fits = f(r).fits))
                 PROVE  f(q) = f(r)
    BY <1>1 DEF Single
  <2>2. q.slot = r.slot /\ (~IsFixture(i) => q.under = r.under)
    BY <1>3, <2>1
  <2>3. ~IsFixture(i) => (q.slot \in Companies => q.fits = r.fits)
    <3>1. SUFFICES ASSUME ~IsFixture(i), q.slot \in Companies PROVE q.fits = r.fits
      OBVIOUS
    <3>2. f(q) = q /\ f(r) = r
      BY <1>3, <1>4, <2>2, <3>1
    <3>3. QED BY <2>1, <3>1, <3>2
  <2>4. q = r
    BY <1>2, <2>2, <2>3 DEF Single
  <2>5. QED BY <2>4
<1>6. \A r \in R2 : Whole(r) /\ r.slot \in Slots
  BY <1>1, <1>2, <1>3
<1>7. IsFixture(i) => \A r \in R2 : r.id = 1 /\ (r.slot = "order" => r.under = OnSupplier)
  BY <1>1, <1>2, <1>3
<1>8. \A s : \A r \in In(R, s) : f(r) \in In(R2, s)
  BY <1>1, <1>3 DEF In
<1>9. \A s : \A r \in In(R, s) : r \in R
  BY DEF In
<1>10. ~IsFixture(i) => \A s \in i.byId : \E r \in In(R2, s) : r.id = 1
  <2>1. SUFFICES ASSUME ~IsFixture(i), NEW s \in i.byId PROVE \E r \in In(R2, s) : r.id = 1
    OBVIOUS
  <2>2. PICK r \in In(R, s) : r.id = 1
    BY <1>2, <2>1
  <2>3. f(r) \in In(R2, s) /\ f(r).id = 1
    BY <1>3, <1>8, <1>9, <2>2
  <2>4. QED BY <2>3
<1>11. Sound(i, R2)
  BY <1>5, <1>6, <1>7, <1>10 DEF Sound
<1>12. Grows(R, R2)
  <2>1. \A r \in R : f(r) \in R2
    BY <1>1
  <2>2. QED BY <1>3, <2>1 DEF Grows
<1>13. ASSUME NEW t \in Slots, NEW u, Free(i, R, t, u) PROVE Free(i, R2, t, u)
  <2>1. SUFFICES ASSUME NEW r \in R, f(r).slot = t
                 PROVE  ~IsFixture(i) /\ (f(r).under # u \/ (t \in Companies /\ ~f(r).fits))
    BY <1>1 DEF Free, In
  <2>2. r \in In(R, t) /\ f(r).under = r.under /\ r.slot = t
    BY <1>3, <2>1 DEF In
  <2>3. ~IsFixture(i) /\ (r.under # u \/ (t \in Companies /\ ~r.fits))
    BY <1>13, <2>2 DEF Free
  <2>4. t \in Companies => f(r) = r
    BY <1>3, <1>4, <2>2, <2>3
  <2>5. QED BY <2>2, <2>3, <2>4
<1>14. (\E r \in In(R, w.slot) : r.id = w.id) => \E r \in In(R2, w.slot) : r.fits /\ r.id = w.id
  <2>1. SUFFICES ASSUME NEW r \in In(R, w.slot), r.id = w.id
                 PROVE  \E q \in In(R2, w.slot) : q.fits /\ q.id = w.id
    OBVIOUS
  <2>2. r \in R /\ r.slot = w.slot
    BY DEF In
  <2>3. f(r) \in In(R2, w.slot) /\ f(r).fits /\ f(r).id = w.id
    BY <1>3, <1>8, <2>1, <2>2
  <2>4. QED BY <2>3
<1>15. QED BY <1>11, <1>12, <1>13, <1>14 DEF R2

\* A write that is safe makes no doubles, and a slot it does not create stays free.
LEMMA SafeWrite ==
  ASSUME NEW i, Sound(i, records), NEW w, WriteSafe(i, records, w)
  PROVE  LET R2 == Stored(w) IN
         /\ Sound(i, R2) /\ Grows(records, R2)
         /\ \A t \in Slots : \A u : Free(i, records, t, u) /\ (w.id = None => t # w.slot) => Free(i, R2, t, u)
         /\ w.id = None \/ (\E r \in In(records, w.slot) : r.id = w.id) =>
              \E r \in In(R2, w.slot) : r.fits
         /\ w.id = None /\ IsFixture(i) => NewId(w.slot) = 1
<1>1. CASE w.id = None
  <2>1. /\ Sound(i, Stored(w)) /\ Grows(records, Stored(w))
        /\ \A t : t # w.slot => In(Stored(w), t) = In(records, t)
        /\ \E r \in In(Stored(w), w.slot) : r.fits
        /\ IsFixture(i) => NewId(w.slot) = 1
    BY <1>1, Adding
  <2>2. \A t \in Slots : \A u : Free(i, records, t, u) /\ t # w.slot => Free(i, Stored(w), t, u)
    BY <2>1 DEF Free
  <2>3. QED BY <1>1, <2>1, <2>2
<1>2. CASE w.id # None
  <2>1. /\ Sound(i, Stored(w)) /\ Grows(records, Stored(w))
        /\ \A t \in Slots : \A u : Free(i, records, t, u) => Free(i, Stored(w), t, u)
        /\ (\E r \in In(records, w.slot) : r.id = w.id) => \E r \in In(Stored(w), w.slot) : r.fits
    BY <1>2, Refitting
  <2>2. QED BY <1>2, <2>1
<1>3. QED BY <1>1, <1>2

\* What was there is still there when the records have grown.
LEMMA GrownIn ==
  ASSUME NEW R, NEW R2, Grows(R, R2), NEW s
  PROVE  /\ \A r \in In(R, s) : \E q \in In(R2, s) : q.id = r.id /\ (r.fits => q.fits)
BY DEF Grows, In

LEMMA ProvidedStays ==
  ASSUME NEW i, NEW R, NEW R2, Grows(R, R2), NEW done, Provided(i, R, done)
  PROVE  Provided(i, R2, done)
<1>1. SUFFICES ASSUME NEW s \in i.asks, <<s, "skipped">> \notin done
               PROVE  \E q \in In(R2, s) : IsFixture(i) \/ s \in {"line", "extra"} => q.fits
  BY DEF Provided
<1>2. PICK r \in In(R, s) : IsFixture(i) \/ s \in {"line", "extra"} => r.fits
  BY <1>1 DEF Provided
<1>3. PICK q \in In(R2, s) : r.fits => q.fits
  BY GrownIn
<1>4. QED BY <1>2, <1>3

LEMMA SeenStays ==
  ASSUME NEW i, NEW R, NEW R2, Grows(R, R2), NEW k, NEW h, NEW done, NEW done2, done \subseteq done2,
         NEW s, SeenTo(i, R, k, h, done, s)
  PROVE  SeenTo(i, R2, k, h, done2, s)
<1>1. CASE IsFixture(i)
  <2>1. PICK r \in In(R, s) : r.fits \/ (s = "user" /\ k <= 3)
    BY <1>1 DEF SeenTo
  <2>2. PICK q \in In(R2, s) : r.fits => q.fits
    BY GrownIn
  <2>3. QED BY <1>1, <2>1, <2>2 DEF SeenTo
<1>2. CASE ~IsFixture(i)
  <2>1. CASE <<s, "skipped">> \in done
    BY <1>2, <2>1 DEF SeenTo
  <2>2. CASE <<s, "skipped">> \notin done
    <3>1. PICK r \in In(R, s) : s \in {"line", "extra"} => r.fits
      BY <1>2, <2>2 DEF SeenTo
    <3>2. PICK q \in In(R2, s) : r.fits => q.fits
      BY GrownIn
    <3>3. QED BY <1>2, <3>1, <3>2 DEF SeenTo
  <2>3. QED BY <2>1, <2>2
<1>3. QED BY <1>1, <1>2

\* The step that a slot waits for is due, and it waits until then.
LEMMA WaitedFor ==
  ASSUME InputAssumption, Shape, NEW k \in Nat, NEW s, NEW needs, NEW h,
         k \in 1..Len(ProgramOf(input)), needs[s] # "nothing", Waits(input, k, s, needs[s]),
         needs[s] \in {"nothing", "create", "update", "recovery"},
         needs[s] = "update" => s # "supplier"
  PROVE  LET P == ProgramOf(input) IN
         \E d \in (k + 1)..Len(P) :
           Due("run", needs, h, P[d]) /\ \A m \in (k + 1)..d : Pending(input, m, s, needs[s])
<1> DEFINE P == ProgramOf(input)
<1> DEFINE n == needs[s]
<1>1. /\ input \in Inputs /\ (Fixture <=> IsFixture(input)) /\ s \in input.asks
      /\ n \in {"create", "update"} /\ n # "nothing" /\ n # "recovery"
  BY InputsProgram DEF Waits
<1>2. \A step : step.op = "write" /\ step.slot = s => Due("run", needs, h, step)
  BY <1>1 DEF Due
<1>3. CASE input.tool # "order"
  <2>1. P[k] = Step("look", s)
    BY <1>3 DEF Waits
  <2>2. P[k].op = "look" /\ P[k].slot = s
    BY <2>1 DEF Step
  <2>3. Len(P) \in Nat /\ k + 1 <= Len(P) /\ P[k + 1] = Step("write", s)
    BY <1>1, <1>3, <2>2, Programs
  <2> HIDE DEF P
  <2>4. k + 1 \in (k + 1)..Len(P) /\ \A m \in (k + 1)..(k + 1) : m = k + 1
    BY <2>3
  <2>5. Due("run", needs, h, P[k + 1])
    BY <1>2, <2>3 DEF Step
  <2>6. Pending(input, k + 1, s, n)
    BY <1>1, <1>3, <2>3 DEF Pending, P
  <2>7. QED BY <2>4, <2>5, <2>6 DEF P
<1>4. CASE input.tool = "order"
  <2>1. /\ Len(P) = 10 /\ P[3] = Step("create", "order") /\ P[6] = Step("update", "order")
        /\ P[7] = Step("write", "line") /\ P[8] = Step("write", "extra")
    BY <1>1, <1>4, OrderProgram
  <2>2. \A m : Pending(input, m, s, n) <=>
          \/ s = "order" /\ n = "create" /\ m = 3
          \/ s = "order" /\ n = "update" /\ m \in 3..6
          \/ s = "line" /\ m \in 5..7
          \/ s = "extra" /\ m \in 6..8
    BY <1>1, <1>4 DEF Pending
  <2>3. \/ s = "order" /\ n = "create" /\ k = 2
        \/ s = "order" /\ n = "update" /\ k \in 2..5
        \/ s = "line" /\ k \in 4..6
        \/ s = "extra" /\ k \in 5..7
    BY <1>4 DEF Waits
  <2> HIDE DEF P, n
  <2>4. CASE s = "order" /\ n = "create" /\ k = 2
    <3>1. Due("run", needs, h, P[3])
      BY <1>1, <2>1, <2>4 DEF Due, Step, n
    <3>2. 3 \in (k + 1)..10 /\ \A m \in (k + 1)..3 : m = 3
      BY <2>4
    <3>3. QED BY <2>1, <2>2, <2>4, <3>1, <3>2 DEF P, n
  <2>5. CASE s = "order" /\ n = "update" /\ k \in 2..5
    <3>1. Due("run", needs, h, P[6])
      BY <1>1, <2>1, <2>5 DEF Due, Step, n
    <3>2. 6 \in (k + 1)..10 /\ \A m \in (k + 1)..6 : m \in 3..6
      BY <2>5
    <3>3. QED BY <2>1, <2>2, <2>5, <3>1, <3>2 DEF P, n
  <2>6. CASE s = "line" /\ k \in 4..6
    <3>1. Due("run", needs, h, P[7])
      BY <1>2, <2>1, <2>6 DEF Step
    <3>2. 7 \in (k + 1)..10 /\ \A m \in (k + 1)..7 : m \in 5..7
      BY <2>6
    <3>3. QED BY <2>1, <2>2, <2>6, <3>1, <3>2 DEF P, n
  <2>7. CASE s = "extra" /\ k \in 5..7
    <3>1. Due("run", needs, h, P[8])
      BY <1>2, <2>1, <2>7 DEF Step
    <3>2. 8 \in (k + 1)..10 /\ \A m \in (k + 1)..8 : m \in 6..8
      BY <2>7
    <3>3. QED BY <2>1, <2>2, <2>7, <3>1, <3>2 DEF P, n
  <2>8. QED BY <2>3, <2>4, <2>5, <2>6, <2>7
<1>5. QED BY <1>3, <1>4

\* From a step taken on to the next, or to the end.
LEMMA Onwards ==
  ASSUME InputAssumption, Shape, NEW R, NEW k, NEW h, NEW needs, NEW done,
         Settling(input, R, k, h, needs, done)
  PROVE  LET next == After(k, "run", needs, h) IN
         /\ next # {} => Tidy(input, R, Least(next), h, needs, done)
         /\ next = {} => Provided(input, R, done)
<1> DEFINE P == ProgramOf(input)
<1> DEFINE next == After(k, "run", needs, h)
<1>1. /\ input \in Inputs /\ (Fixture <=> IsFixture(input)) /\ input.asks \subseteq Slots
      /\ Program = P
  BY InputsProgram
<1>2. /\ k \in 1..Len(P) /\ Kept(input, h)
      /\ \A s \in Slots : Needed(input, R, h, s, needs[s]) /\ (needs[s] # "nothing" => Waits(input, k, s, needs[s]))
      /\ \A j \in 1..k :
           P[j].op = "look" /\ P[j].slot \in input.asks /\ needs[P[j].slot] = "nothing" =>
             SeenTo(input, R, k + 1, h, done, P[j].slot)
  BY DEF Settling
<1>3. Len(P) \in Nat /\ k \in Nat /\ k >= 1 /\ k <= Len(P)
  BY <1>1, <1>2, Programs
<1>4. next = {m \in (k + 1)..Len(P) : Due("run", needs, h, P[m])}
  BY <1>1 DEF After
<1>5. \A s \in Slots : needs[s] # "nothing" =>
        \E d \in (k + 1)..Len(P) :
           Due("run", needs, h, P[d]) /\ \A m \in (k + 1)..d : Pending(input, m, s, needs[s])
  <2>1. \A s \in Slots : needs[s] \in {"nothing", "create", "update", "recovery"}
                         /\ (needs[s] = "update" => s # "supplier")
    BY <1>2 DEF Needed, Companies, Waits
  <2>2. QED BY <1>2, <1>3, <2>1, WaitedFor
<1>6. \A m \in (k + 1)..Len(P) : P[m].op = "look" /\ P[m].slot \in input.asks => m \in next
  BY <1>4 DEF Due
<1>7. IsFixture(input) /\ "user" \in input.asks /\ k <= 2 => 3 \in next
  <2>1. SUFFICES ASSUME IsFixture(input), "user" \in input.asks, k <= 2 PROVE 3 \in next
    OBVIOUS
  <2>2. Len(P) = 4 /\ P[3] = Step("update", "user")
    BY <1>1, <2>1, FixtureProgram
  <2>3. 3 \in (k + 1)..Len(P)
    BY <1>3, <2>1, <2>2
  <2>4. Due("run", needs, h, P[3])
    BY <1>1, <2>1, <2>2 DEF Due, Step
  <2>5. QED BY <1>4, <2>3, <2>4
<1> HIDE DEF next, P
<1>8. next \in SUBSET Nat
  BY <1>3, <1>4
<1>9. ASSUME next # {} PROVE Tidy(input, R, Least(next), h, needs, done)
  <2> DEFINE m == Least(next)
  <2>1. m \in next /\ \A x \in next : m <= x
    BY <1>8, <1>9, Passed
  <2> HIDE DEF m
  <2>2. m \in (k + 1)..Len(P) /\ Due("run", needs, h, P[m]) /\ m \in Nat /\ m \in 1..Len(P)
    BY <1>3, <1>4, <2>1
  <2>3. \A s \in Slots : needs[s] # "nothing" => Pending(input, m, s, needs[s])
    <3>1. SUFFICES ASSUME NEW s \in Slots, needs[s] # "nothing" PROVE Pending(input, m, s, needs[s])
      OBVIOUS
    <3>2. PICK d \in (k + 1)..Len(P) :
            Due("run", needs, h, P[d]) /\ \A x \in (k + 1)..d : Pending(input, x, s, needs[s])
      BY <1>5, <3>1
    <3>3. d \in next
      BY <1>4, <3>2
    <3>4. m \in (k + 1)..d
      BY <1>3, <2>1, <2>2, <3>3
    <3>5. QED BY <3>2, <3>4
  <2>4. /\ P[m].slot \in input.asks
        /\ P[m].op = "write" => needs[P[m].slot] # "nothing"
        /\ P[m].op \in {"create", "update"} => IsFixture(input) \/ needs[P[m].slot] = P[m].op
    BY <1>1, <2>2 DEF Due
  <2>5. ASSUME NEW j \in 1..(m - 1), P[j].op = "look", P[j].slot \in input.asks, needs[P[j].slot] = "nothing"
        PROVE  SeenTo(input, R, m, h, done, P[j].slot)
    <3>1. j \in 1..k
      <4>1. CASE j \in (k + 1)..Len(P)
        <5>1. j \in next
          BY <1>6, <2>5, <4>1
        <5>2. m <= j
          BY <2>1, <5>1
        <5>3. QED BY <2>2, <2>5, <5>2
      <4>2. QED BY <1>3, <2>2, <4>1
    <3> DEFINE s == P[j].slot
    <3>2. SeenTo(input, R, k + 1, h, done, s)
      BY <1>2, <2>5, <3>1
    <3>3. s \in input.asks
      BY <2>5
    <3> HIDE DEF s
    <3>4. CASE IsFixture(input)
      <4>1. IsFixture(input) /\ s = "user" /\ k + 1 <= 3 => m <= 3
        BY <1>3, <1>7, <2>1, <3>3
      <4>2. h[s] = 1 /\ \E r \in In(R, s) : r.fits \/ (s = "user" /\ k + 1 <= 3)
        BY <3>2, <3>4 DEF SeenTo
      <4>3. SeenTo(input, R, m, h, done, s)
        BY <3>4, <4>1, <4>2 DEF SeenTo
      <4>4. QED BY <4>3 DEF s
    <3>5. CASE ~IsFixture(input)
      <4>1. SeenTo(input, R, m, h, done, s)
        BY <3>2, <3>5 DEF SeenTo
      <4>2. QED BY <4>1 DEF s
    <3>6. QED BY <3>4, <3>5
  <2>6. Tidy(input, R, m, h, needs, done)
    BY <1>2, <2>2, <2>3, <2>4, <2>5 DEF Tidy, P
  <2>7. QED BY <2>6 DEF m
<1>10. ASSUME next = {} PROVE Provided(input, R, done)
  <2>1. SUFFICES ASSUME NEW s \in input.asks
                 PROVE  \/ <<s, "skipped">> \in done
                        \/ \E r \in In(R, s) : IsFixture(input) \/ s \in {"line", "extra"} => r.fits
    BY DEF Provided
  <2>2. s \in Slots /\ needs[s] = "nothing"
    BY <1>1, <1>4, <1>5, <1>10
  <2>3. PICK j \in 1..Len(P) : P[j] = Step("look", s)
    BY <1>1, Programs DEF P
  <2>4. P[j].op = "look" /\ P[j].slot = s
    BY <2>3 DEF Step
  <2>5. j \in 1..k
    <3>1. ~ (j \in (k + 1)..Len(P))
      BY <1>6, <1>10, <2>4
    <3>2. QED BY <1>3, <3>1
  <2>6. SeenTo(input, R, k + 1, h, done, s)
    BY <1>2, <2>2, <2>4, <2>5
  <2>7. CASE IsFixture(input)
    <3>1. ~ (s = "user" /\ k + 1 <= 3)
      BY <1>3, <1>7, <1>10, <2>7
    <3>2. QED BY <2>6, <2>7, <3>1 DEF SeenTo
  <2>8. CASE ~IsFixture(input)
    BY <2>6, <2>8 DEF SeenTo
  <2>9. QED BY <2>7, <2>8
<1>11. QED BY <1>9, <1>10 DEF next

\* While a lookup is due, only what an order is given or has found waits for its write.
LEMMA NothingPends ==
  ASSUME InputAssumption, Shape, NEW R, NEW k, NEW h, NEW needs, NEW done,
         Tidy(input, R, k, h, needs, done), ProgramOf(input)[k].op = "look",
         NEW t \in Slots, needs[t] # "nothing"
  PROVE  LET s == ProgramOf(input)[k].slot IN
         /\ input.tool = "order" /\ s \in {"line", "extra"} /\ t # s
         /\ t \in {"order", "line"} /\ Waits(input, k, t, needs[t])
         /\ t = "order" => needs[t] = "update"
<1> DEFINE P == ProgramOf(input)
<1>1. /\ input \in Inputs /\ k \in 1..Len(P) /\ Pending(input, k, t, needs[t])
      /\ Needed(input, R, h, t, needs[t])
  BY InputsProgram DEF Tidy
<1>2. needs[t] \in {"create", "update", "recovery"}
  BY <1>1 DEF Needed
<1>3. input.tool = "order"
  <2>1. SUFFICES ASSUME input.tool # "order" PROVE FALSE
    OBVIOUS
  <2>2. P[k] = Step("write", t)
    BY <1>1, <2>1 DEF Pending
  <2>3. QED BY <2>2 DEF Step
<1>4. /\ Len(P) = 10 /\ P[1] = Step("look", "supplier") /\ P[2] = Step("look", "order")
      /\ P[3] = Step("create", "order") /\ P[4] = Step("look", "line") /\ P[5] = Step("look", "extra")
      /\ P[6] = Step("update", "order") /\ P[7] = Step("write", "line")
      /\ P[8] = Step("write", "extra")
  BY <1>1, <1>3, OrderProgram
<1>5. \/ t = "order" /\ needs[t] = "create" /\ k = 3
      \/ t = "order" /\ needs[t] = "update" /\ k \in 3..6
      \/ t = "line" /\ needs[t] # "recovery" /\ k \in 5..7
      \/ t = "extra" /\ k \in 6..8
  BY <1>1, <1>3 DEF Pending
<1> HIDE DEF P
<1>6. P[k].op = "look" => k \notin {3, 6, 7, 8}
  BY <1>4 DEF Step
<1>7. k \in {4, 5} /\ t \in {"order", "line"} /\ (t = "line" => k = 5 /\ needs[t] # "recovery")
      /\ (t = "order" => needs[t] = "update")
  <2>1. k \notin {3, 6, 7, 8}
    BY <1>6 DEF P
  <2>2. k \in {4, 5} \/ k \in {3, 6, 7, 8}
    BY <1>5
  <2>3. QED BY <1>5, <2>1, <2>2
<1>8. P[k].slot \in {"line", "extra"} /\ t # P[k].slot
  BY <1>4, <1>7 DEF Step
<1>9. t \in input.asks
  BY <1>1 DEF Pending
<1>10. QED BY <1>3, <1>7, <1>8, <1>9 DEF Waits, P

\* A lookup leaves the rest as it was.
LEMMA LooksOn ==
  ASSUME InputAssumption, Shape, NEW R, NEW k, NEW h, NEW needs, NEW done,
         Tidy(input, R, k, h, needs, done), NEW s \in Slots, ProgramOf(input)[k].op = "look",
         s = ProgramOf(input)[k].slot,
         NEW holds, NEW needs2, NEW done2, Kept(input, holds), done \subseteq done2,
         \A t \in Slots : t # s => holds[t] = h[t] /\ needs2[t] = needs[t],
         needs2[s] \in {"nothing", "create", "update"}, Needed(input, R, holds, s, needs2[s]),
         input.tool = "order" /\ s = "supplier" => needs2[s] = "nothing",
         needs2[s] = "nothing" => SeenTo(input, R, k + 1, holds, done2, s)
  PROVE  Settling(input, R, k, holds, needs2, done2)
<1> DEFINE P == ProgramOf(input)
<1>1. /\ input \in Inputs /\ k \in 1..Len(P) /\ s \in input.asks /\ input.asks \subseteq Slots
      /\ Len(P) \in Nat
  BY InputsProgram, Programs DEF Tidy
<1>2. P[k] = Step("look", s) \/ input.tool = "order"
  <2>1. SUFFICES ASSUME input.tool # "order" PROVE P[k] = Step("look", s)
    OBVIOUS
  <2>2. k + 1 <= Len(P) /\ P[k + 1] = Step("write", s)
    BY <1>1, <2>1, Programs
  <2>3. k + 1 \in 1..Len(P) /\ P[k + 1].op = "write" /\ P[k + 1].slot = s /\ k + 1 - 1 = k
    BY <1>1, <2>2 DEF Step
  <2>4. P[k + 1 - 1] = Step("look", P[k + 1].slot)
    BY <1>1, <2>1, <2>3, Programs
  <2>5. QED BY <2>3, <2>4
<1>3. ASSUME needs2[s] # "nothing" PROVE Waits(input, k, s, needs2[s])
  <2>1. CASE input.tool # "order"
    BY <1>1, <1>2, <1>3, <2>1 DEF Waits
  <2>2. CASE input.tool = "order"
    <3>1. /\ Len(P) = 10 /\ P[1] = Step("look", "supplier") /\ P[2] = Step("look", "order")
          /\ P[3] = Step("create", "order") /\ P[4] = Step("look", "line") /\ P[5] = Step("look", "extra")
          /\ P[6] = Step("update", "order") /\ P[7] = Step("write", "line")
          /\ P[8] = Step("write", "extra") /\ P[9] = Step("verify", "extra") /\ P[10] = Step("verify", "order")
      BY <1>1, <2>2, OrderProgram
    <3> HIDE DEF P
    <3>2. k \in {1, 2, 4, 5}
      <4>1. k \notin {3, 6, 7, 8, 9, 10}
        BY <3>1 DEF Step, P
      <4>2. QED BY <1>1, <3>1, <4>1
    <3>3. (k = 2 /\ s = "order") \/ (k = 4 /\ s = "line") \/ (k = 5 /\ s = "extra")
      <4>1. s = P[k].slot
        BY DEF P
      <4>2. k = 1 => s = "supplier"
        BY <3>1, <4>1 DEF Step
      <4>3. k # 1
        BY <1>3, <2>2, <4>2
      <4>4. QED BY <3>1, <3>2, <4>1, <4>3 DEF Step
    <3>4. QED BY <1>1, <1>3, <2>2, <3>3 DEF Waits
  <2>3. QED BY <2>1, <2>2
<1>4. ASSUME NEW t \in Slots, t # s
      PROVE  /\ Needed(input, R, holds, t, needs2[t])
             /\ needs2[t] # "nothing" => Waits(input, k, t, needs2[t])
  <2>1. needs2[t] = needs[t] /\ holds[t] = h[t] /\ Needed(input, R, h, t, needs[t])
    BY <1>4 DEF Tidy
  <2>2. CASE needs[t] = "nothing"
    BY <2>1, <2>2 DEF Needed
  <2>3. CASE needs[t] # "nothing"
    <3>1. /\ input.tool = "order" /\ s \in {"line", "extra"} /\ t \in {"order", "line"}
          /\ Waits(input, k, t, needs[t])
      BY <1>4, <2>3, NothingPends
    <3>2. ParentsOf(input)[t] \subseteq Slots \ {s}
      <4>1. ParentsOf(input) = HangsOn
        BY <3>1 DEF ParentsOf, IsFixture
      <4>2. QED BY <3>1, <4>1, SlotNames DEF HangsOn
    <3>3. UnderOf(input, holds, t) = UnderOf(input, h, t)
      BY <3>2 DEF UnderOf
    <3>4. QED BY <2>1, <3>1, <3>3 DEF Needed
  <2>4. QED BY <2>2, <2>3
<1>5. ASSUME NEW j \in 1..k, P[j].op = "look", P[j].slot \in input.asks, needs2[P[j].slot] = "nothing"
      PROVE  SeenTo(input, R, k + 1, holds, done2, P[j].slot)
  <2> DEFINE t == P[j].slot
  <2>1. t \in Slots /\ t \in input.asks
    BY <1>1, <1>5
  <2>2. CASE t = s
    BY <1>5, <2>2
  <2>3. CASE t # s
    <3>1. needs[t] = "nothing" /\ holds[t] = h[t] /\ j # k
      BY <1>5, <2>1, <2>3
    <3>2. j \in 1..(k - 1)
      BY <1>1, <3>1
    <3>3. SeenTo(input, R, k, h, done, t)
      BY <1>5, <3>1, <3>2 DEF Tidy
    <3>4. IsFixture(input) => t # "user"
      <4>1. SUFFICES ASSUME IsFixture(input), t = "user" PROVE FALSE
        OBVIOUS
      <4>2. Len(P) = 4 /\ P[2] = Step("write", "user") /\ P[3] = Step("update", "user")
            /\ P[4] = Step("verify", "user")
        BY <1>1, <2>1, <4>1, FixtureProgram
      <4>3. k \in {2, 3, 4}
        BY <1>1, <3>2, <4>2
      <4>4. QED BY <4>2, <4>3 DEF Step
    <3> HIDE DEF t
    <3>5. SeenTo(input, R, k + 1, holds, done2, t)
      BY <3>1, <3>3, <3>4 DEF SeenTo
    <3>6. QED BY <3>5 DEF t
  <2>4. QED BY <2>2, <2>3
<1>6. \A t \in Slots : Needed(input, R, holds, t, needs2[t]) /\ (needs2[t] # "nothing" => Waits(input, k, t, needs2[t]))
  BY <1>3, <1>4
<1>7. QED BY <1>1, <1>5, <1>6 DEF Settling

\* How a lookup ends.
LEMMA LookParts ==
  ASSUME NEW c, Look(c)
  PROVE  LET s == Now(c).slot
             F == Found(c, s)
             r == CHOOSE r \in F : TRUE
         IN \/ Answer(c, "clarification", {}, {})
            \/ Fixture /\ getOrCreateRecord(c, s, F)
            \/ ~Fixture /\ Clarify(c, s)
            \/ /\ ~Fixture /\ F # {}
               /\ Proceed(c, [held[c] EXCEPT ![s] = r.id], [need[c] EXCEPT ![s] = NeedOf(s)],
                          actions[c] \cup IF s \in {"line", "extra"} THEN {} ELSE {<<s, "reused">>})
            \/ /\ ~Fixture /\ F = {} /\ s \in input.able
               /\ Proceed(c, [held[c] EXCEPT ![s] = IF Writing(c) THEN None ELSE Planned],
                          [need[c] EXCEPT ![s] = "create"], actions[c])
            \/ /\ ~Fixture /\ F = {} /\ s = "manufacturer_part"
               /\ Proceed(c, held[c], need[c], actions[c] \cup {<<s, "skipped">>})
BY Zenon DEF Look

\* A call of a tool in its last pass looks a slot up: it asks, or it goes on having seen to it.
LEMMA ToolLooks ==
  ASSUME IInv, InputAssumption, Causes, ~Fixture, NEW c \in Callers, Look(c), pass[c] = "run",
         Sound(input, records), Tidy(input, records, at[c], held[c], need[c], actions[c])
  PROVE  \/ \E kind, done, remaining : kind # "ok" /\ Answer(c, kind, done, remaining)
         \/ \E holds, needs, done :
              /\ Proceed(c, holds, needs, done)
              /\ Settling(input, records, at[c], holds, needs, done)
<1> DEFINE s == Now(c).slot
<1> DEFINE k == at[c]
<1> DEFINE h == held[c]
<1> DEFINE n == need[c]
<1> DEFINE R == records
<1> DEFINE F == Found(c, s)
<1> DEFINE P == ProgramOf(input)
<1> DEFINE Asks == \E kind, done, remaining : kind # "ok" /\ Answer(c, kind, done, remaining)
<1>1. /\ Shape /\ ~IsFixture(input) /\ Program = P /\ Parents = ParentsOf(input)
      /\ input \in Inputs
  BY InputsProgram DEF IInv
<1>2. /\ Busy(c) /\ Now(c).op = "look" /\ Now(c) = P[k]
  BY <1>1 DEF Look, Now
<1>3. /\ s \in Slots /\ s \in input.asks /\ DOMAIN n = Slots
  BY <1>2, Running, Asked DEF IInv
<1>4. /\ RecordsOK(R) /\ DOMAIN h = Slots /\ h \in [Slots -> Int] /\ \A t \in Slots : h[t] # Planned
  BY InWorld DEF HoldsOK
<1>5. P[k].op = "look" /\ s = P[k].slot /\ Tidy(input, R, k, h, n, actions[c]) /\ Sound(input, R)
  BY <1>2
<1>6. ParentsOf(input)[s] \subseteq Slots \ {s}
  BY <1>1, <1>3, Hangs DEF ParentsOf
<1>7. ~Unborn(c, s) /\ Under(c, s) = UnderOf(input, h, s)
  BY <1>1, <1>4, <1>6 DEF Unborn, Under, UnderOf
<1>8. F \subseteq In(R, s)
        /\ (s \in input.byId => F = {r \in In(R, s) : r.id = 1})
        /\ (s \notin input.byId => \A r \in In(R, s) :
              r.under = UnderOf(input, h, s) /\ (s \in Companies => r.fits) => r \in F)
  BY <1>7 DEF Found, In, Fixture, IsFixture
<1>9. /\ Clarify(c, s) => Asks
      /\ Answer(c, "clarification", {}, {}) => Asks
  <2>1. Answer(c, "clarification", {}, {}) => Asks
    OBVIOUS
  <2>2. SUFFICES ASSUME Clarify(c, s) PROVE Asks
    BY <2>1
  <2>3. \/ Answer(c, "clarification", actions[c], {}) \/ Answer(c, "clarification", {}, {})
        \/ Answer(c, "partial_failure", actions[c] \cup {<<s, "failed">>}, remainingPartUpsertActions(s))
    BY <2>2 DEF Clarify, partUpsertResolutionClarification, Stopped
  <2>4. QED BY <2>3
<1> DEFINE r == CHOOSE r \in F : TRUE
<1> DEFINE reused == actions[c] \cup IF s \in {"line", "extra"} THEN {} ELSE {<<s, "reused">>}
<1> DEFINE skipped == actions[c] \cup {<<s, "skipped">>}
<1>10. \/ Asks
       \/ F # {} /\ Proceed(c, [h EXCEPT ![s] = r.id], [n EXCEPT ![s] = NeedOf(s)], reused)
       \/ F = {} /\ s \in input.able /\ Proceed(c, [h EXCEPT ![s] = None], [n EXCEPT ![s] = "create"], actions[c])
       \/ F = {} /\ s = "manufacturer_part" /\ Proceed(c, h, n, skipped)
  <2>1. Writing(c)
    BY DEF Writing
  <2> HIDE DEF Asks
  <2>2. QED BY <1>9, <2>1, LookParts
<1>11. actions[c] \subseteq reused /\ actions[c] \subseteq skipped /\ <<s, "skipped">> \in skipped
       /\ (F # {} => r \in F)
  OBVIOUS
<1> HIDE DEF s, k, h, n, R, F, P, Asks, r, reused, skipped
<1>12. n[s] = "nothing"
  BY <1>1, <1>3, <1>5, NothingPends DEF P
<1>13. F = {} => Free(input, R, s, UnderOf(input, h, s))
  <2>1. SUFFICES ASSUME F = {} PROVE Free(input, R, s, UnderOf(input, h, s))
    OBVIOUS
  <2>2. s \notin input.byId
    BY <1>1, <1>5, <1>8, <2>1 DEF Sound
  <2>3. QED BY <1>1, <1>8, <2>1, <2>2 DEF Free
<1>14. ASSUME NEW holds, NEW needs, NEW done, Kept(input, holds), actions[c] \subseteq done,
              \A t \in Slots : t # s => holds[t] = h[t] /\ needs[t] = n[t],
              needs[s] \in {"nothing", "create", "update"}, Needed(input, R, holds, s, needs[s]),
              input.tool = "order" /\ s = "supplier" => needs[s] = "nothing",
              needs[s] = "nothing" => SeenTo(input, R, k + 1, holds, done, s)
       PROVE  Settling(input, R, k, holds, needs, done)
  BY <1>1, <1>3, <1>5, <1>14, LooksOn DEF P
<1>15. ASSUME NEW v
       PROVE  /\ Kept(input, [h EXCEPT ![s] = v]) /\ [h EXCEPT ![s] = v][s] = v
              /\ \A t \in Slots : t # s => [h EXCEPT ![s] = v][t] = h[t]
  BY <1>1, <1>3, <1>4 DEF Kept
<1>16. ASSUME NEW v
       PROVE  /\ [n EXCEPT ![s] = v][s] = v
              /\ \A t \in Slots : t # s => [n EXCEPT ![s] = v][t] = n[t]
  BY <1>3
<1>17. ASSUME F # {}
       PROVE  Settling(input, R, k, [h EXCEPT ![s] = r.id], [n EXCEPT ![s] = NeedOf(s)], reused)
  <2> DEFINE holds == [h EXCEPT ![s] = r.id]
  <2> DEFINE needs == [n EXCEPT ![s] = NeedOf(s)]
  <2>1. Kept(input, holds) /\ holds[s] = r.id /\ \A t \in Slots : t # s => holds[t] = h[t]
    BY <1>15
  <2>2. needs[s] = NeedOf(s) /\ \A t \in Slots : t # s => needs[t] = n[t]
    BY <1>16
  <2> HIDE DEF holds, needs
  <2>3. r \in In(R, s)
    BY <1>8, <1>11, <1>17
  <2>4. r.id # None
    BY <1>3, <1>4, <2>3 DEF RecordsOK, Numbered, NumberedTo, None
  <2>5. /\ NeedOf(s) \in {"nothing", "update"}
        /\ NeedOf(s) = "update" => s \in {"line", "extra", "part", "order"}
        /\ NeedOf(s) = "nothing" => s \notin {"line", "extra"}
    BY DEF NeedOf
  <2>6. s \in {"line", "extra", "part", "order"} => s \notin Companies /\ s # "supplier"
    BY DEF Companies
  <2>7. Needed(input, R, holds, s, needs[s])
    BY <1>1, <2>1, <2>2, <2>4, <2>5, <2>6 DEF Needed
  <2>8. needs[s] = "nothing" => SeenTo(input, R, k + 1, holds, reused, s)
    BY <1>1, <2>2, <2>3, <2>5 DEF SeenTo
  <2>9. needs[s] \in {"nothing", "create", "update"}
    BY <2>2, <2>5
  <2>10. input.tool = "order" /\ s = "supplier" => needs[s] = "nothing"
    BY <2>2, <2>5, <2>6
  <2>11. Settling(input, R, k, holds, needs, reused)
    BY <1>11, <1>14, <2>1, <2>2, <2>7, <2>8, <2>9, <2>10
  <2>12. QED BY <2>11 DEF holds, needs
<1>18. ASSUME F = {}, s \in input.able
       PROVE  Settling(input, R, k, [h EXCEPT ![s] = None], [n EXCEPT ![s] = "create"], actions[c])
  <2> DEFINE holds == [h EXCEPT ![s] = None]
  <2> DEFINE needs == [n EXCEPT ![s] = "create"]
  <2>1. Kept(input, holds) /\ holds[s] = None /\ \A t \in Slots : t # s => holds[t] = h[t]
    BY <1>15
  <2>2. needs[s] = "create" /\ \A t \in Slots : t # s => needs[t] = n[t]
    BY <1>16
  <2> HIDE DEF holds, needs
  <2>3. UnderOf(input, holds, s) = UnderOf(input, h, s)
    BY <1>6, <2>1 DEF UnderOf
  <2>4. Needed(input, R, holds, s, needs[s])
    BY <1>13, <1>18, <2>1, <2>2, <2>3 DEF Needed
  <2>5. input.tool = "order" => s # "supplier"
    BY <1>1, <1>18, OrderProgram
  <2>6. Settling(input, R, k, holds, needs, actions[c])
    BY <1>14, <2>1, <2>2, <2>4, <2>5
  <2>7. QED BY <2>6 DEF holds, needs
<1>19. ASSUME s = "manufacturer_part"
       PROVE  Settling(input, R, k, h, n, skipped)
  <2>1. Kept(input, h) /\ Needed(input, R, h, s, n[s])
    BY <1>1, <1>4, <1>12 DEF Kept, Needed
  <2>2. SeenTo(input, R, k + 1, h, skipped, s)
    BY <1>1, <1>11 DEF SeenTo
  <2>3. QED BY <1>11, <1>12, <1>14, <1>19, <2>1, <2>2
<1>20. QED BY <1>10, <1>17, <1>18, <1>19 DEF Asks, R, k

\* A fixture is looked up: it is as it should be, or missing, or the fixture fails.
LEMMA FixtureLooks ==
  ASSUME Shape, InputAssumption, Fixture, NEW c \in Callers, Look(c),
         Sound(input, records), Tidy(input, records, at[c], held[c], need[c], actions[c])
  PROVE  \/ \E kind, done, remaining : kind # "ok" /\ Answer(c, kind, done, remaining)
         \/ \E holds, needs, done :
              /\ Proceed(c, holds, needs, done)
              /\ Settling(input, records, at[c], holds, needs, done)
<1> DEFINE s == Now(c).slot
<1> DEFINE k == at[c]
<1> DEFINE h == held[c]
<1> DEFINE n == need[c]
<1> DEFINE R == records
<1> DEFINE F == Found(c, s)
<1> DEFINE P == ProgramOf(input)
<1> DEFINE Fails == \E kind, done, remaining : kind # "ok" /\ Answer(c, kind, done, remaining)
<1>1. /\ IsFixture(input) /\ Program = P /\ Parents = ParentsOf(input) /\ input \in Inputs
      /\ input.asks \subseteq Slots /\ input.tool # "order"
  BY InputsProgram DEF IsFixture
<1>2. /\ P[k].op = "look" /\ s = P[k].slot /\ Tidy(input, R, k, h, n, actions[c]) /\ Sound(input, R)
      /\ k \in 1..Len(P)
  BY <1>1 DEF Look, Now, Tidy
<1>3. s \in input.asks /\ s \in Slots /\ DOMAIN n = Slots
  BY <1>1, <1>2 DEF Tidy, Shape
<1>4. DOMAIN h = Slots /\ \A t \in Slots : h[t] \in {None, 1}
  BY <1>1 DEF Tidy, Kept
<1>5. ParentsOf(input)[s] \subseteq Slots \ {s}
  BY <1>1, <1>3, SlotNames DEF ParentsOf, HangsOn
<1>6. ~Unborn(c, s) /\ Under(c, s) = UnderOf(input, h, s)
  BY <1>1, <1>4, <1>5 DEF Unborn, Under, UnderOf, None, Planned
<1>7. F \subseteq In(R, s) /\ (s # "order" => F = In(R, s))
      /\ (s = "order" => F = {r \in In(R, s) : r.under = UnderOf(input, h, s)})
  BY <1>6 DEF Found, In
<1>8. \/ Fails
      \/ F = {} /\ Proceed(c, [h EXCEPT ![s] = None], [n EXCEPT ![s] = "create"], actions[c])
      \/ \E r \in F : /\ s = "user" \/ r.fits
                      /\ Proceed(c, [h EXCEPT ![s] = r.id], [n EXCEPT ![s] = "nothing"],
                                 actions[c] \cup {<<s, "reused">>})
  <2>1. (Answer(c, "clarification", {}, {}) => Fails) /\ (Failure(c) => Fails)
    BY DEF Failure
  <2> HIDE DEF Fails, s, F
  <2>2. Fails \/ getOrCreateRecord(c, s, F)
    BY <2>1, LookParts DEF s, F
  <2>3. \A r : validateFields(c, s, r) => r.fits
    BY DEF validateFields
  <2>4. QED BY <2>1, <2>2, <2>3 DEF getOrCreateRecord
<1> HIDE DEF s, k, h, n, R, F, P, Fails
<1>9. \A t \in Slots : n[t] = "nothing"
  BY <1>1, <1>2, NothingPends DEF P
<1>10. Len(P) \in Nat /\ P[k] = Step("look", s)
  <2>0. Len(P) \in Nat /\ k + 1 <= Len(P) /\ P[k + 1] = Step("write", s)
    BY <1>1, <1>2, Programs DEF P
  <2>1. k + 1 \in 1..Len(P) /\ P[k + 1].op = "write" /\ P[k + 1].slot = s /\ k + 1 - 1 = k
    BY <1>2, <2>0 DEF Step
  <2>2. PICK m \in 1..Len(P) : P[m].op = "write" /\ P[m].slot = s /\ m - 1 = k
    <3>1. k \in Nat
      BY <1>2, <2>0
    <3>2. QED BY <2>1, <3>1
  <2>3. P[m - 1] = Step("look", P[m].slot)
    BY <1>1, <2>2, Programs DEF P
  <2>4. QED BY <2>0, <2>2, <2>3
<1>11. F = {} => In(R, s) = {}
  <2>1. SUFFICES ASSUME F = {}, s = "order" PROVE In(R, s) = {}
    BY <1>7
  <2>2. k = 3 /\ P[1] = Step("look", "supplier")
    <3>1. \A m \in 1..Len(P) :
            P[m] = Step("look", "order") => m = 3 /\ P[1] = Step("look", "supplier")
      BY <1>1, FixtureProgram DEF P
    <3>2. k \in 1..Len(P) /\ P[k] = Step("look", "order")
      BY <1>2, <1>10, <2>1
    <3>3. QED BY <3>1, <3>2
  <2>3. 1 \in 1..(k - 1) /\ P[1].op = "look" /\ P[1].slot = "supplier"
    BY <2>2 DEF Step
  <2>4. "supplier" \in input.asks
    BY <1>1, <2>3, Programs DEF P
  <2>5. SeenTo(input, R, k, h, actions[c], "supplier")
    BY <1>1, <1>2, <1>9, <2>3, <2>4 DEF Tidy, P
  <2>6. h["supplier"] = 1
    BY <1>1, <2>5 DEF SeenTo
  <2>7. ParentsOf(input)["order"] = {"supplier"}
    BY <1>1 DEF ParentsOf, HangsOn
  <2>8. UnderOf(input, h, s) = OnSupplier
    BY <2>1, <2>6, <2>7 DEF UnderOf, OnSupplier
  <2>9. \A r \in In(R, s) : r.under = OnSupplier
    BY <1>1, <1>2, <2>1 DEF Sound, In
  <2>10. QED BY <1>7, <2>1, <2>8, <2>9
<1>12. ASSUME NEW holds, NEW needs, NEW done, Kept(input, holds), actions[c] \subseteq done,
              \A t \in Slots : t # s => holds[t] = h[t] /\ needs[t] = n[t],
              needs[s] \in {"nothing", "create", "update"}, Needed(input, R, holds, s, needs[s]),
              needs[s] = "nothing" => SeenTo(input, R, k + 1, holds, done, s)
       PROVE  Settling(input, R, k, holds, needs, done)
  BY <1>1, <1>2, <1>3, <1>12, LooksOn DEF P
<1>13. ASSUME F = {}
       PROVE  Settling(input, R, k, [h EXCEPT ![s] = None], [n EXCEPT ![s] = "create"], actions[c])
  <2> DEFINE holds == [h EXCEPT ![s] = None]
  <2> DEFINE needs == [n EXCEPT ![s] = "create"]
  <2>1. holds[s] = None /\ needs[s] = "create" /\ DOMAIN holds = Slots
        /\ \A t \in Slots : t # s => holds[t] = h[t] /\ needs[t] = n[t]
    BY <1>3, <1>4
  <2> HIDE DEF holds, needs
  <2>2. Kept(input, holds)
    BY <1>4, <2>1 DEF Kept
  <2>3. Needed(input, R, holds, s, needs[s])
    BY <1>11, <1>13, <2>1 DEF Needed, Free
  <2>4. Settling(input, R, k, holds, needs, actions[c])
    BY <1>12, <2>1, <2>2, <2>3
  <2>5. QED BY <2>4 DEF holds, needs
<1>14. ASSUME NEW r \in F, s = "user" \/ r.fits
       PROVE  Settling(input, R, k, [h EXCEPT ![s] = r.id], [n EXCEPT ![s] = "nothing"],
                       actions[c] \cup {<<s, "reused">>})
  <2> DEFINE holds == [h EXCEPT ![s] = r.id]
  <2> DEFINE needs == [n EXCEPT ![s] = "nothing"]
  <2> DEFINE done == actions[c] \cup {<<s, "reused">>}
  <2>1. holds[s] = r.id /\ needs[s] = "nothing" /\ DOMAIN holds = Slots
        /\ \A t \in Slots : t # s => holds[t] = h[t] /\ needs[t] = n[t]
    BY <1>3, <1>4
  <2>2. actions[c] \subseteq done
    OBVIOUS
  <2> HIDE DEF holds, needs, done
  <2>3. r \in In(R, s) /\ r.id = 1
    BY <1>1, <1>2, <1>7, <1>14 DEF Sound, In
  <2>4. Kept(input, holds)
    BY <1>4, <2>1, <2>3 DEF Kept
  <2>5. Needed(input, R, holds, s, needs[s])
    BY <2>1 DEF Needed
  <2>6. s = "user" => k + 1 <= 3
    <3>1. SUFFICES ASSUME s = "user" PROVE k + 1 <= 3
      OBVIOUS
    <3>2. Len(P) = 4 /\ P[1] = Step("look", "user") /\ P[2] = Step("write", "user")
          /\ P[3] = Step("update", "user") /\ P[4] = Step("verify", "user")
      BY <1>1, <1>3, <3>1, FixtureProgram DEF P
    <3>3. k \notin {2, 3, 4}
      BY <1>2, <3>2 DEF Step
    <3>4. k \in {1, 2, 3, 4}
      BY <1>2, <3>2
    <3>5. QED BY <3>3, <3>4
  <2>7. r.fits \/ (s = "user" /\ k + 1 <= 3)
    BY <1>14, <2>6
  <2>8. SeenTo(input, R, k + 1, holds, done, s)
    BY <1>1, <2>1, <2>3, <2>7 DEF SeenTo
  <2>9. Settling(input, R, k, holds, needs, done)
    BY <1>12, <2>1, <2>2, <2>4, <2>5, <2>8
  <2>10. QED BY <2>9 DEF holds, needs, done
<1>15. QED BY <1>8, <1>13, <1>14 DEF Fails, R, k

\* While a write is due, only what hangs on an order that is there waits besides it.
LEMMA WritePends ==
  ASSUME InputAssumption, Shape, NEW R, NEW k, NEW h, NEW needs, NEW done,
         Tidy(input, R, k, h, needs, done), ProgramOf(input)[k].op \in {"create", "update", "write"},
         NEW t \in Slots, t # ProgramOf(input)[k].slot, needs[t] # "nothing"
  PROVE  LET s == ProgramOf(input)[k].slot IN
         /\ input.tool = "order" /\ s \in {"order", "line"} /\ t \in {"line", "extra"}
         /\ Waits(input, k, t, needs[t])
         /\ s = "order" => needs[s] = "update"
<1> DEFINE P == ProgramOf(input)
<1>1. /\ input \in Inputs /\ k \in 1..Len(P) /\ Pending(input, k, t, needs[t])
  BY InputsProgram DEF Tidy
<1>2. needs[t] \in {"create", "update", "recovery"}
  BY DEF Needed, Tidy
<1>3. input.tool = "order"
  <2>1. SUFFICES ASSUME input.tool # "order" PROVE FALSE
    OBVIOUS
  <2>2. P[k] = Step("write", t)
    BY <1>1, <2>1 DEF Pending
  <2>3. QED BY <2>2 DEF Step
<1>4. /\ Len(P) = 10 /\ P[1] = Step("look", "supplier") /\ P[2] = Step("look", "order")
      /\ P[3] = Step("create", "order") /\ P[4] = Step("look", "line") /\ P[5] = Step("look", "extra")
      /\ P[6] = Step("update", "order") /\ P[7] = Step("write", "line")
      /\ P[8] = Step("write", "extra") /\ P[9] = Step("verify", "extra") /\ P[10] = Step("verify", "order")
      /\ ~IsFixture(input)
  BY <1>1, <1>3, OrderProgram
<1>5. \/ t = "order" /\ needs[t] = "create" /\ k = 3
      \/ t = "order" /\ needs[t] = "update" /\ k \in 3..6
      \/ t = "line" /\ needs[t] # "recovery" /\ k \in 5..7
      \/ t = "extra" /\ k \in 6..8 /\ (needs[t] = "recovery" => k = 8)
  BY <1>1, <1>3 DEF Pending
<1>6. P[k].op \in {"create", "update"} => needs[P[k].slot] = P[k].op
  BY <1>4 DEF Tidy
<1> HIDE DEF P
<1>7. P[k].op \in {"create", "update", "write"} /\ t # P[k].slot
  BY DEF P
<1>8. k \in {3, 6, 7, 8}
  <2>1. k \notin {1, 2, 4, 5, 9, 10}
    BY <1>4, <1>7 DEF Step
  <2>2. QED BY <1>1, <1>4, <2>1
<1>9. k \in {6, 7}
  <2>1. k = 3 => t = "order"
    BY <1>5
  <2>2. k = 8 => t = "extra"
    BY <1>5
  <2>3. QED BY <1>4, <1>7, <1>8, <2>1, <2>2 DEF Step
<1>10. t # "order"
  <2>1. t = "order" => k = 6
    BY <1>5, <1>9
  <2>2. QED BY <1>4, <1>7, <2>1 DEF Step
<1>11. t \in {"line", "extra"} /\ needs[t] # "recovery"
  BY <1>5, <1>9, <1>10
<1>12. P[k].slot \in {"order", "line"} /\ (P[k].slot = "order" => needs[P[k].slot] = "update")
  BY <1>4, <1>6, <1>9 DEF Step
<1>13. t \in input.asks
  BY <1>1 DEF Pending
<1>14. (t = "line" => k \in 4..6) /\ (t = "extra" => k \in 5..7)
  <2>1. k = 7 => t # "line"
    BY <1>4, <1>7 DEF Step
  <2>2. QED BY <1>9, <2>1
<1>15. QED BY <1>3, <1>11, <1>12, <1>13, <1>14 DEF Waits, P

\* Where a fixture's order is written its supplier has been seen to.
LEMMA OrderUnder ==
  ASSUME InputAssumption, Shape, IsFixture(input), NEW R, NEW k, NEW h, NEW needs, NEW done,
         Tidy(input, R, k, h, needs, done), ProgramOf(input)[k].op \in {"create", "update", "write"},
         ProgramOf(input)[k].slot = "order"
  PROVE  UnderOf(input, h, "order") = OnSupplier
<1> DEFINE P == ProgramOf(input)
<1>1. /\ input \in Inputs /\ input.tool = "fixture" /\ k \in 1..Len(P) /\ Len(P) \in Nat
  BY InputsProgram, Programs DEF Tidy, IsFixture
<1>2. input.kind # "user"
  <2>1. SUFFICES ASSUME input.kind = "user" PROVE FALSE
    OBVIOUS
  <2>2. Len(P) = 4 /\ P[1] = Step("look", "user") /\ P[2] = Step("write", "user")
        /\ P[3] = Step("update", "user") /\ P[4] = Step("verify", "user")
    BY <1>1, <2>1, FixtureProgram
  <2> HIDE DEF P
  <2>3. k = 1 \/ k = 2 \/ k = 3 \/ k = 4
    BY <1>1, <2>2
  <2>4. P[k].slot = "user"
    BY <2>2, <2>3 DEF Step
  <2>5. QED BY <2>4 DEF P
<1>3. P[k].op = "write"
  <2>1. P[k].op \in {"look", "write"}
    BY <1>1, <1>2, FixtureProgram
  <2>2. QED BY <2>1
<1>4. k - 1 >= 1 /\ P[k - 1] = Step("look", "order")
  BY <1>1, <1>3, Programs
<1>5. k - 1 \in 1..Len(P)
  BY <1>1, <1>4
<1>6. P[1] = Step("look", "supplier")
  <2> DEFINE j == k - 1
  <2>1. j \in 1..Len(P) /\ P[j] = Step("look", "order")
    BY <1>4, <1>5
  <2> HIDE DEF j
  <2>2. QED BY <1>1, <2>1, FixtureProgram
<1>7. P[1].op = "look" /\ P[1].slot = "supplier" /\ 1 \in 1..(k - 1)
  BY <1>1, <1>4, <1>6 DEF Step
<1>8. "supplier" \in input.asks /\ "supplier" \in Slots
  BY <1>1, <1>7, Programs, SlotNames
<1>9. needs["supplier"] = "nothing"
  BY <1>1, <1>8, WritePends
<1>10. SeenTo(input, R, k, h, done, "supplier")
  BY <1>7, <1>8, <1>9 DEF Tidy
<1>11. h["supplier"] = 1
  BY <1>10 DEF SeenTo
<1>12. ParentsOf(input)["order"] = {"supplier"}
  BY DEF ParentsOf, HangsOn
<1>13. QED BY <1>11, <1>12 DEF UnderOf, OnSupplier

\* A password is set for a user there is.
LEMMA UserSeen ==
  ASSUME InputAssumption, Shape, IsFixture(input), NEW R, NEW k, NEW h, NEW needs, NEW done,
         Tidy(input, R, k, h, needs, done), ProgramOf(input)[k].op \in {"create", "update", "write"},
         needs[ProgramOf(input)[k].slot] = "nothing"
  PROVE  LET s == ProgramOf(input)[k].slot IN h[s] = 1 /\ \E r \in In(R, s) : TRUE
<1> DEFINE P == ProgramOf(input)
<1>1. /\ input \in Inputs /\ input.tool = "fixture" /\ k \in 1..Len(P) /\ Len(P) \in Nat
  BY InputsProgram, Programs DEF Tidy, IsFixture
<1>2. P[k].op # "write"
  BY DEF Tidy
<1>3. input.kind = "user"
  BY <1>1, <1>2, FixtureProgram
<1>4. Len(P) = 4 /\ P[1] = Step("look", "user") /\ P[2] = Step("write", "user")
      /\ P[3] = Step("update", "user") /\ P[4] = Step("verify", "user")
  BY <1>1, <1>3, FixtureProgram
<1>5. P[k].slot \in input.asks
  BY DEF Tidy
<1> HIDE DEF P
<1>6. k \in {1, 2, 3, 4} /\ P[k].op \in {"create", "update", "write"}
  BY <1>1, <1>4 DEF P
<1>7. k = 3
  BY <1>2, <1>4, <1>6 DEF Step
<1>8. P[1].op = "look" /\ P[1].slot = "user" /\ P[k].slot = "user" /\ 1 \in 1..(k - 1)
  BY <1>4, <1>7 DEF Step
<1>9. SeenTo(input, R, k, h, done, "user")
  BY <1>5, <1>8 DEF Tidy, P
<1>10. QED BY <1>8, <1>9 DEF SeenTo, P

\* A call writes only what makes no doubles.
LEMMA SafeToWrite ==
  ASSUME IInv, InputAssumption, Causes, NEW c \in Callers, AtWrite(c), Sound(input, records),
         Tidy(input, records, at[c], held[c], need[c], actions[c])
  PROVE  LET s == Now(c).slot
             w == Write(c)
         IN  /\ s \in Slots /\ s \in input.asks /\ Now(c) = ProgramOf(input)[at[c]]
             /\ w.slot = s /\ w.id = held[c][s] /\ w.under = UnderOf(input, held[c], s)
             /\ w.caller = c /\ w.call = calls
             /\ WriteSafe(input, records, w)
             /\ w.id = None \/ \E r \in In(records, s) : r.id = w.id
<1> DEFINE s == Now(c).slot
<1> DEFINE k == at[c]
<1> DEFINE h == held[c]
<1> DEFINE n == need[c]
<1> DEFINE R == records
<1> DEFINE w == Write(c)
<1> DEFINE P == ProgramOf(input)
<1>1. /\ Shape /\ Program = P /\ Parents = ParentsOf(input) /\ (Fixture <=> IsFixture(input))
      /\ input \in Inputs /\ input.asks \subseteq Slots
  BY InputsProgram DEF IInv
<1>2. /\ Now(c) = P[k] /\ s = P[k].slot /\ P[k].op \in {"create", "update", "write"}
      /\ n[s] # "recovery" /\ pass[c] = "run"
  BY <1>1 DEF Now, AtWrite, Writing
<1>3. Tidy(input, R, k, h, n, actions[c]) /\ Sound(input, R)
  OBVIOUS
<1>4. /\ w = [slot |-> s, id |-> h[s], under |-> Under(c, s), caller |-> c, call |-> calls]
      /\ Under(c, s) = UnderOf(input, h, s)
  BY <1>1 DEF Write, Under, UnderOf
<1>5. ~Fixture => h[s] \in 0..Count(R, s)
  BY WriteSound
<1>6. ~Fixture => RecordsOK(R)
  BY InWorld
<1> HIDE DEF s, k, h, n, R, w, P
<1>7. /\ w.slot = s /\ w.id = h[s] /\ w.under = UnderOf(input, h, s) /\ w.caller = c /\ w.call = calls
  BY <1>4
<1>8. s \in input.asks /\ s \in Slots
  BY <1>1, <1>2, <1>3 DEF Tidy, P
<1>9. /\ Needed(input, R, h, s, n[s]) /\ Kept(input, h)
      /\ P[k].op = "write" => n[s] # "nothing"
      /\ P[k].op \in {"create", "update"} => IsFixture(input) \/ n[s] = P[k].op
  BY <1>2, <1>3, <1>8 DEF Tidy, P
<1>10. CASE n[s] = "nothing"
  <2>1. IsFixture(input)
    BY <1>2, <1>9, <1>10
  <2>2. h[s] = 1 /\ \E r \in In(R, s) : TRUE
    BY <1>1, <1>2, <1>3, <1>10, <2>1, UserSeen DEF P
  <2>3. \A r \in In(R, s) : r.id = 1
    BY <1>3, <2>1 DEF Sound, In
  <2>4. IsFixture(input) /\ s = "order" => UnderOf(input, h, s) = OnSupplier
    BY <1>1, <1>2, <1>3, OrderUnder DEF P
  <2>5. WriteSafe(input, R, w)
    BY <1>7, <1>8, <2>1, <2>2, <2>4 DEF WriteSafe, None
  <2>6. QED BY <1>2, <1>7, <1>8, <2>2, <2>3, <2>5 DEF s, k, h, w, R, P
<1>11. CASE n[s] = "create"
  <2>1. h[s] = None /\ Free(input, R, s, UnderOf(input, h, s))
    BY <1>9, <1>11 DEF Needed
  <2>2. IsFixture(input) /\ s = "order" => UnderOf(input, h, s) = OnSupplier
    BY <1>1, <1>2, <1>3, OrderUnder DEF P
  <2>3. WriteSafe(input, R, w)
    BY <1>7, <1>8, <2>1, <2>2 DEF WriteSafe
  <2>4. QED BY <1>2, <1>7, <1>8, <2>1, <2>3 DEF s, k, h, w, R, P
<1>12. CASE n[s] = "update"
  <2>1. h[s] # None /\ ~IsFixture(input) /\ s \notin Companies
    BY <1>9, <1>12 DEF Needed
  <2>2. WriteSafe(input, R, w)
    BY <1>7, <1>8, <2>1 DEF WriteSafe
  <2>3. \E r \in In(R, s) : r.id = h[s]
    <3>1. NumberedTo(R, s, Count(R, s)) /\ Count(R, s) \in Nat
      BY <1>1, <1>6, <1>8, <2>1, NumberedFinite DEF RecordsOK, Numbered
    <3>2. h[s] \in 1..Count(R, s)
      BY <1>1, <1>5, <2>1, <3>1 DEF None
    <3>3. QED BY <3>1, <3>2 DEF NumberedTo
  <2>4. QED BY <1>2, <1>7, <1>8, <2>2, <2>3 DEF s, k, h, w, R, P
<1>13. QED BY <1>2, <1>9, <1>10, <1>11, <1>12 DEF Needed

\* What was looked up has been seen to after a write too.
LEMMA WriteSettles ==
  ASSUME IInv, InputAssumption, Causes, NEW c \in Callers, AtWrite(c), Sound(input, records),
         Tidy(input, records, at[c], held[c], need[c], actions[c]), NEW a
  PROVE  LET s == Now(c).slot IN
         Settling(input, Stored(Write(c)), at[c],
                  [held[c] EXCEPT ![s] = IF held[c][s] = None THEN NewId(s) ELSE held[c][s]],
                  [need[c] EXCEPT ![s] = "nothing"], actions[c] \cup {a})
<1> DEFINE s == Now(c).slot
<1> DEFINE k == at[c]
<1> DEFINE h == held[c]
<1> DEFINE n == need[c]
<1> DEFINE R == records
<1> DEFINE w == Write(c)
<1> DEFINE R2 == Stored(w)
<1> DEFINE P == ProgramOf(input)
<1> DEFINE v == IF h[s] = None THEN NewId(s) ELSE h[s]
<1> DEFINE holds == [h EXCEPT ![s] = v]
<1> DEFINE needs == [n EXCEPT ![s] = "nothing"]
<1> DEFINE done == actions[c] \cup {a}
<1>1. /\ Shape /\ (Fixture <=> IsFixture(input))
      /\ input \in Inputs /\ input.asks \subseteq Slots
  BY InputsProgram DEF IInv
<1>2. /\ s \in Slots /\ s \in input.asks /\ Now(c) = P[k]
      /\ w.slot = s /\ w.id = h[s] /\ w.under = UnderOf(input, h, s)
      /\ WriteSafe(input, R, w)
      /\ w.id = None \/ \E r \in In(R, s) : r.id = w.id
  BY SafeToWrite
<1>3. /\ Sound(input, R2) /\ Grows(R, R2)
      /\ \A t \in Slots : \A u : Free(input, R, t, u) /\ (w.id = None => t # w.slot) => Free(input, R2, t, u)
      /\ w.id = None \/ (\E r \in In(R, w.slot) : r.id = w.id) => \E r \in In(R2, w.slot) : r.fits
      /\ w.id = None /\ IsFixture(input) => NewId(w.slot) = 1
  BY <1>2, SafeWrite
<1>4. /\ s = P[k].slot /\ P[k].op \in {"create", "update", "write"}
      /\ Tidy(input, R, k, h, n, actions[c]) /\ DOMAIN n = Slots
  BY <1>1, <1>2 DEF AtWrite, Writing, Shape
<1>5. Kept(input, h) /\ k \in 1..Len(P) /\ Len(P) \in Nat
  BY <1>1, Programs DEF Tidy
<1>6. (h[s] = None => v = NewId(s)) /\ (h[s] # None => v = h[s]) /\ actions[c] \subseteq done
  OBVIOUS
<1> HIDE DEF s, k, h, n, R, w, P, v, done, R2
<1>7. holds[s] = v /\ DOMAIN holds = Slots /\ \A t \in Slots : t # s => holds[t] = h[t]
  BY <1>2, <1>5 DEF Kept
<1>8. needs[s] = "nothing" /\ \A t \in Slots : t # s => needs[t] = n[t]
  BY <1>2, <1>4
<1> HIDE DEF holds, needs
<1>9. Kept(input, holds)
  <2>1. IsFixture(input) => v \in {None, 1}
    BY <1>2, <1>3, <1>5, <1>6 DEF Kept
  <2>2. QED BY <1>5, <1>7, <2>1 DEF Kept
<1>10. \E r \in In(R2, s) : r.fits
  BY <1>2, <1>3
<1>11. IsFixture(input) => holds[s] = 1
  BY <1>2, <1>3, <1>5, <1>6, <1>7 DEF Kept
<1>12. ASSUME NEW t \in Slots
       PROVE  /\ Needed(input, R2, holds, t, needs[t])
              /\ needs[t] # "nothing" => Waits(input, k, t, needs[t])
  <2>1. CASE needs[t] = "nothing"
    BY <2>1 DEF Needed
  <2>2. CASE needs[t] # "nothing"
    <3>1. t # s /\ needs[t] = n[t] /\ holds[t] = h[t]
      BY <1>7, <1>8, <2>2
    <3>2. /\ input.tool = "order" /\ s \in {"order", "line"} /\ t \in {"line", "extra"}
          /\ Waits(input, k, t, n[t])
          /\ s = "order" => n[s] = "update"
      BY <1>1, <1>4, <2>2, <3>1, WritePends DEF P
    <3>3. Needed(input, R, h, t, n[t])
      BY <1>4 DEF Tidy
    <3>4. holds["order"] = h["order"]
      <4>1. CASE s = "order"
        <5>1. Needed(input, R, h, s, n[s])
          BY <1>2, <1>4 DEF Tidy
        <5>2. h[s] # None
          BY <3>2, <4>1, <5>1 DEF Needed
        <5>3. QED BY <1>6, <1>7, <4>1, <5>2
      <4>2. CASE s # "order"
        BY <1>7, <4>2, SlotNames
      <4>3. QED BY <4>1, <4>2
    <3>5. ParentsOf(input)[t] = {"order"}
      BY <3>2 DEF ParentsOf, IsFixture, HangsOn
    <3>6. UnderOf(input, holds, t) = UnderOf(input, h, t)
      BY <3>4, <3>5 DEF UnderOf
    <3>7. QED BY <1>2, <1>3, <3>1, <3>2, <3>3, <3>6 DEF Needed
  <2>3. QED BY <2>1, <2>2
<1>13. ASSUME NEW j \in 1..k, P[j].op = "look", P[j].slot \in input.asks, needs[P[j].slot] = "nothing"
       PROVE  SeenTo(input, R2, k + 1, holds, done, P[j].slot)
  <2> DEFINE t == P[j].slot
  <2>1. t \in Slots /\ t \in input.asks
    BY <1>1, <1>13
  <2>2. CASE t = s
    BY <1>10, <1>11, <2>2 DEF SeenTo
  <2>3. CASE t # s
    <3>1. n[t] = "nothing" /\ holds[t] = h[t] /\ j # k
      BY <1>4, <1>7, <1>8, <1>13, <2>1, <2>3
    <3>2. j \in 1..(k - 1)
      BY <1>5, <3>1
    <3>3. SeenTo(input, R, k, h, actions[c], t)
      BY <1>4, <1>13, <3>1, <3>2 DEF Tidy, P
    <3>4. SeenTo(input, R2, k, h, done, t)
      BY <1>3, <1>6, <3>3, SeenStays
    <3>5. IsFixture(input) => t # "user"
      <4>1. SUFFICES ASSUME IsFixture(input), t = "user" PROVE FALSE
        OBVIOUS
      <4>2. input.kind = "user"
        BY <1>1, <2>1, <4>1, FixtureProgram
      <4>3. Len(P) = 4 /\ P[1] = Step("look", "user") /\ P[2] = Step("write", "user")
            /\ P[3] = Step("update", "user") /\ P[4] = Step("verify", "user")
        BY <1>1, <4>1, <4>2, FixtureProgram DEF P
      <4>4. k = 1 \/ k = 2 \/ k = 3 \/ k = 4
        BY <1>5, <4>3
      <4>5. P[k].slot = "user"
        BY <4>3, <4>4 DEF Step
      <4>6. QED BY <1>4, <2>3, <4>1, <4>5
    <3> HIDE DEF t
    <3>6. SeenTo(input, R2, k + 1, holds, done, t)
      BY <3>1, <3>4, <3>5 DEF SeenTo
    <3>7. QED BY <3>6 DEF t
  <2>4. QED BY <2>2, <2>3
<1>14. Settling(input, R2, k, holds, needs, done)
  BY <1>5, <1>9, <1>12, <1>13 DEF Settling, P
<1>15. QED BY <1>14 DEF s, k, h, n, w, R2, v, holds, needs, done

\* The last pass of a call begins with a lookup and nothing to do.
LEMMA FirstTidy ==
  ASSUME InputAssumption, Shape, NEW p, NEW R
  PROVE  Tidy(input, R, Least(After(0, p, Idle, Fresh)), Fresh, Idle, {})
<1> DEFINE P == ProgramOf(input)
<1> DEFINE first == After(0, p, Idle, Fresh)
<1>1. /\ input \in Inputs /\ Program = P /\ Len(P) \in Nat /\ Len(P) >= 2
      /\ P[1].op = "look" /\ P[1].slot \in input.asks
  BY InputsProgram, Programs
<1>2. first = {k \in (0 + 1)..Len(P) : Due(p, Idle, Fresh, P[k])}
  BY <1>1 DEF After
<1>3. Due(p, Idle, Fresh, P[1])
  BY <1>1 DEF Due
<1> HIDE DEF first, P
<1>4. first \in SUBSET Nat /\ 1 \in first /\ \A k \in first : k >= 1
  BY <1>1, <1>2, <1>3
<1>5. Least(first) \in first /\ Least(first) <= 1
  BY <1>4, Passed
<1>6. Least(first) = 1
  <2>1. Least(first) \in Nat /\ Least(first) >= 1
    BY <1>4, <1>5
  <2>2. QED BY <1>5, <2>1
<1>7. /\ DOMAIN Fresh = Slots /\ \A s \in Slots : Fresh[s] = None /\ Idle[s] = "nothing"
  BY DEF Fresh, Idle
<1>8. Kept(input, Fresh)
  BY <1>7 DEF Kept
<1>9. \A s \in Slots : Needed(input, R, Fresh, s, Idle[s]) /\ (Idle[s] # "nothing" => Pending(input, 1, s, Idle[s]))
  BY <1>7 DEF Needed
<1>10. \A j \in 1..(1 - 1) : FALSE
  OBVIOUS
<1>11. Tidy(input, R, 1, Fresh, Idle, {})
  BY <1>1, <1>8, <1>9, <1>10 DEF Tidy, P
<1>12. QED BY <1>6, <1>11 DEF first

\* From a step taken on to the next, from the preflight to the run, or to the answer.
LEMMA ProceedOrderly ==
  ASSUME InputAssumption, Shape, DOMAIN held = Callers, NEW c \in Callers, Busy(c),
         NEW h, NEW needs, NEW done, Proceed(c, h, needs, done), NEW R,
         pass[c] = "run" => Settling(input, R, at[c], h, needs, done),
         IsFixture(input) => pass[c] = "run"
  PROVE  /\ HeldAlone(c)
         /\ Orderly(input, R, pass'[c], at'[c], held'[c], need'[c], actions'[c], answer'[c])
         /\ pass[c] = "run" /\ pass'[c] # "idle" =>
              /\ pass'[c] = "run" /\ held'[c] = h /\ need'[c] = needs
              /\ at[c] \in Nat /\ at'[c] \in Nat /\ at'[c] > at[c]
<1> DEFINE k == at[c]
<1> DEFINE p == pass[c]
<1> DEFINE next == After(k, p, needs, h)
<1>1. p # "idle"
  BY DEF Busy
<1>2. CASE next # {}
  <2>1. /\ at' = [at EXCEPT ![c] = Least(next)] /\ held' = [held EXCEPT ![c] = h]
        /\ need' = [need EXCEPT ![c] = needs] /\ actions' = [actions EXCEPT ![c] = done]
        /\ UNCHANGED <<pass, answer>>
    BY <1>2 DEF Proceed
  <2>2. /\ pass'[c] = p /\ at'[c] = Least(next) /\ held'[c] = h /\ need'[c] = needs /\ actions'[c] = done
        /\ HeldAlone(c)
    BY <2>1 DEF Shape, HeldAlone
  <2>3. ASSUME p = "run"
        PROVE  /\ Tidy(input, R, Least(next), h, needs, done)
               /\ k \in Nat /\ Least(next) \in Nat /\ Least(next) > k
    <3>1. Settling(input, R, k, h, needs, done)
      BY <2>3
    <3>2. Tidy(input, R, Least(next), h, needs, done)
      BY <1>2, <2>3, <3>1, Onwards
    <3>3. Len(ProgramOf(input)) \in Nat /\ Len(Program) = Len(ProgramOf(input))
      BY InputsProgram, Programs
    <3>4. k \in Nat
      BY <3>1, <3>3 DEF Settling
    <3>5. next \in SUBSET Nat /\ \A m \in next : m > k
      BY <3>3, <3>4 DEF After
    <3> HIDE DEF next, k
    <3>6. Least(next) \in next
      BY <1>2, <3>5, Passed
    <3>7. QED BY <3>2, <3>4, <3>5, <3>6
  <2> HIDE DEF next, k, p
  <2>4. QED BY <1>1, <2>2, <2>3 DEF Orderly, k, p
<1>3. CASE next = {} /\ p = "preflight"
  <2> DEFINE first == Least(After(0, "run", Idle, Fresh))
  <2>1. /\ pass' = [pass EXCEPT ![c] = "run"] /\ at' = [at EXCEPT ![c] = first]
        /\ held' = [held EXCEPT ![c] = Fresh] /\ need' = [need EXCEPT ![c] = Idle]
        /\ actions' = [actions EXCEPT ![c] = {}]
    BY <1>3 DEF Proceed
  <2>2. Tidy(input, R, first, Fresh, Idle, {})
    BY FirstTidy
  <2> HIDE DEF first
  <2>3. /\ pass'[c] = "run" /\ at'[c] = first /\ held'[c] = Fresh /\ need'[c] = Idle /\ actions'[c] = {}
        /\ HeldAlone(c)
    BY <2>1 DEF Shape, HeldAlone
  <2>4. p # "run"
    BY <1>3
  <2>5. QED BY <2>2, <2>3, <2>4 DEF Orderly
<1>4. CASE next = {} /\ p # "preflight"
  <2> DEFINE kind == IF p = "run" THEN "ok" ELSE "dry_run"
  <2>1. Answer(c, kind, done, {})
    BY <1>4 DEF Proceed
  <2>2. kind = "ok" => p = "run"
    OBVIOUS
  <2>3. p = "run" => Provided(input, R, done)
    BY <1>4, Onwards
  <2> HIDE DEF kind, next
  <2>4. /\ pass'[c] = "idle" /\ answer'[c] = [kind |-> kind, actions |-> done, remaining |-> {}]
        /\ need'[c] = Idle /\ actions'[c] = {}
    BY <2>1, AnswerEnds
  <2>5. HeldAlone(c) /\ held'[c] = Fresh
    BY <2>1, AnswerHeld
  <2>6. QED BY <2>2, <2>3, <2>4, <2>5 DEF Orderly
<1>5. QED BY <1>2, <1>3, <1>4

\* A failure is never answered with ok.
Fails(c) == \E kind, done, remaining : kind # "ok" /\ Answer(c, kind, done, remaining)
LEMMA Failing ==
  ASSUME NEW c \in Callers, NEW s, NEW rejected,
         \/ Failure(c) \/ workflowFailure(c, s) \/ partUpsertMutationFailure(c, s, rejected)
         \/ partUpsertResolutionFailure(c, s) \/ Clarify(c, s) \/ partUpsertLinkReadbackFailure(c, s)
         \/ Answer(c, "clarification", {}, {})
  PROVE  Fails(c)
<1>1. CASE Failure(c)
  BY <1>1 DEF Fails, Failure
<1>2. CASE workflowFailure(c, s)
  BY <1>2 DEF Fails, workflowFailure
<1>3. CASE partUpsertMutationFailure(c, s, rejected)
  <2> DEFINE kind == IF rejected /\ ~Applied(actions[c]) THEN "validation_failed" ELSE "partial_failure"
  <2>1. Answer(c, kind, actions[c] \cup {<<s, "failed">>}, remainingPartUpsertActions(s))
    BY <1>3 DEF partUpsertMutationFailure
  <2>2. kind # "ok"
    OBVIOUS
  <2> HIDE DEF kind
  <2>3. QED BY <2>1, <2>2 DEF Fails
<1>4. CASE Stopped(c, s)
  BY <1>4 DEF Fails, Stopped
<1>5. CASE partUpsertResolutionFailure(c, s)
  <2>1. Failure(c) \/ Stopped(c, s)
    BY <1>5 DEF partUpsertResolutionFailure
  <2>2. QED BY <1>1, <1>4, <2>1
<1>6. CASE Clarify(c, s)
  <2>1. Answer(c, "clarification", actions[c], {}) \/ Answer(c, "clarification", {}, {}) \/ Stopped(c, s)
    BY <1>6 DEF Clarify, partUpsertResolutionClarification
  <2>2. QED BY <1>4, <2>1 DEF Fails
<1>7. CASE partUpsertLinkReadbackFailure(c, s)
  <2>1. \/ Failure(c)
        \/ Answer(c, "partial_failure", Doubted(actions[c], s) \cup {<<s, "failed">>}, {})
    BY <1>7 DEF partUpsertLinkReadbackFailure
  <2>2. QED BY <1>1, <2>1 DEF Fails
<1>8. QED BY <1>1, <1>2, <1>3, <1>5, <1>6, <1>7 DEF Fails

LEMMA FailsOrderly ==
  ASSUME Shape, DOMAIN held = Callers, NEW c \in Callers, Fails(c), NEW R
  PROVE  /\ HeldAlone(c) /\ pass'[c] = "idle"
         /\ Orderly(input, R, pass'[c], at'[c], held'[c], need'[c], actions'[c], answer'[c])
<1>1. PICK kind, done, remaining : kind # "ok" /\ Answer(c, kind, done, remaining)
  BY DEF Fails
<1>2. /\ pass'[c] = "idle" /\ answer'[c] = [kind |-> kind, actions |-> done, remaining |-> remaining]
      /\ need'[c] = Idle /\ actions'[c] = {}
  BY <1>1, AnswerEnds
<1>3. HeldAlone(c) /\ held'[c] = Fresh
  BY <1>1, AnswerHeld
<1>4. QED BY <1>1, <1>2, <1>3 DEF Orderly

\* A read-back leaves all as it is.
LEMMA VerifySettles ==
  ASSUME InputAssumption, Shape, NEW R, NEW k, NEW h, NEW needs, NEW done,
         Tidy(input, R, k, h, needs, done), ProgramOf(input)[k].op = "verify"
  PROVE  /\ Settling(input, R, k, h, needs, done)
         /\ \A t \in Slots : needs[t] = "nothing"
<1> DEFINE P == ProgramOf(input)
<1>1. /\ input \in Inputs /\ input.asks \subseteq Slots /\ k \in 1..Len(P) /\ Len(P) \in Nat /\ Kept(input, h)
  BY InputsProgram, Programs DEF Tidy
<1>2. ASSUME NEW t \in Slots, needs[t] # "nothing" PROVE FALSE
  <2>1. Pending(input, k, t, needs[t])
    BY <1>2 DEF Tidy
  <2>2. CASE input.tool # "order"
    <3>1. P[k] = Step("write", t)
      BY <2>1, <2>2 DEF Pending
    <3>2. QED BY <3>1 DEF Step
  <2>3. CASE input.tool = "order"
    <3>1. /\ Len(P) = 10 /\ P[1] = Step("look", "supplier") /\ P[2] = Step("look", "order")
          /\ P[3] = Step("create", "order") /\ P[4] = Step("look", "line") /\ P[5] = Step("look", "extra")
          /\ P[6] = Step("update", "order") /\ P[7] = Step("write", "line") /\ P[8] = Step("write", "extra")
      BY <1>1, <2>3, OrderProgram
    <3>2. k \in 3..8
      BY <2>1, <2>3 DEF Pending
    <3>3. P[k].op = "verify"
      OBVIOUS
    <3> HIDE DEF P
    <3>4. k = 3 \/ k = 4 \/ k = 5 \/ k = 6 \/ k = 7 \/ k = 8
      BY <3>2
    <3>5. QED BY <3>1, <3>3, <3>4 DEF Step
  <2>4. QED BY <2>2, <2>3
<1>3. \A t \in Slots : Needed(input, R, h, t, needs[t])
  BY DEF Tidy
<1>4. ASSUME NEW j \in 1..k, P[j].op = "look", P[j].slot \in input.asks, needs[P[j].slot] = "nothing"
      PROVE  SeenTo(input, R, k + 1, h, done, P[j].slot)
  <2>1. j # k
    BY <1>4
  <2>2. j \in 1..(k - 1)
    BY <1>1, <2>1
  <2>3. SeenTo(input, R, k, h, done, P[j].slot)
    BY <1>4, <2>2 DEF Tidy
  <2>4. CASE IsFixture(input)
    <3>1. input.kind = "user"
      BY <1>1, <2>4, FixtureProgram
    <3>2. Len(P) = 4 /\ P[1] = Step("look", "user") /\ P[2] = Step("write", "user")
          /\ P[3] = Step("update", "user") /\ P[4] = Step("verify", "user")
      BY <1>1, <2>4, <3>1, FixtureProgram
    <3>3. P[k].op = "verify"
      OBVIOUS
    <3> HIDE DEF P
    <3>4. k = 1 \/ k = 2 \/ k = 3 \/ k = 4
      BY <1>1, <3>2
    <3>5. k = 4
      BY <3>2, <3>3, <3>4 DEF Step
    <3>6. QED BY <2>3, <2>4, <3>5 DEF SeenTo
  <2>5. CASE ~IsFixture(input)
    BY <2>3, <2>5 DEF SeenTo
  <2>6. QED BY <2>4, <2>5
<1>5. QED BY <1>1, <1>2, <1>3, <1>4 DEF Settling

\* An extra line that is found again has been seen to.
LEMMA RecoverySettles ==
  ASSUME InputAssumption, Shape, NEW R, NEW k, NEW h, NEW needs, NEW done,
         Tidy(input, R, k, h, needs, done), NEW s \in Slots, needs[s] = "recovery", input.tool = "order",
         DOMAIN needs = Slots, NEW r \in In(R, s), r.fits, NEW a
  PROVE  /\ s = "extra" /\ k = 8
         /\ Settling(input, R, k, [h EXCEPT ![s] = None], [needs EXCEPT ![s] = "nothing"], done \cup {a})
<1> DEFINE P == ProgramOf(input)
<1> DEFINE holds == [h EXCEPT ![s] = None]
<1> DEFINE needs2 == [needs EXCEPT ![s] = "nothing"]
<1> DEFINE done2 == done \cup {a}
<1>1. /\ input \in Inputs /\ input.asks \subseteq Slots /\ k \in 1..Len(P) /\ Kept(input, h)
  BY InputsProgram, Programs DEF Tidy
<1>2. /\ ~IsFixture(input) /\ Len(P) = 10 /\ P[8] = Step("write", "extra")
  BY <1>1, OrderProgram
<1>3. s = "extra" /\ k = 8
  <2>1. Pending(input, k, s, "recovery")
    BY DEF Tidy
  <2>2. QED BY <2>1 DEF Pending
<1>4. ASSUME NEW t \in Slots, t # s PROVE needs[t] = "nothing"
  <2>1. SUFFICES ASSUME needs[t] # "nothing" PROVE FALSE
    OBVIOUS
  <2>2. Pending(input, k, t, needs[t])
    BY <2>1 DEF Tidy
  <2>3. QED BY <1>3, <1>4, <2>2 DEF Pending
<1>5. DOMAIN h = Slots
  BY <1>1 DEF Kept
<1>6. \A t \in Slots : needs2[t] = "nothing" /\ (t # s => holds[t] = h[t])
  BY <1>4, <1>5
<1>7. DOMAIN holds = Slots /\ done \subseteq done2
  BY <1>5
<1> HIDE DEF holds, needs2, done2, P
<1>8. Kept(input, holds) /\ \A t \in Slots : Needed(input, R, holds, t, needs2[t])
  BY <1>2, <1>6, <1>7 DEF Kept, Needed
<1>9. ASSUME NEW j \in 1..k, P[j].op = "look", P[j].slot \in input.asks
      PROVE  SeenTo(input, R, k + 1, holds, done2, P[j].slot)
  <2> DEFINE t == P[j].slot
  <2>1. t \in Slots
    BY <1>1, <1>9
  <2>2. CASE t = s
    BY <1>2, <2>2 DEF SeenTo
  <2>3. CASE t # s
    <3>1. j # k
      BY <1>2, <1>3, <1>9 DEF Step
    <3>2. j \in 1..(k - 1)
      BY <1>3, <3>1
    <3>3. SeenTo(input, R, k, h, done, t)
      BY <1>4, <1>9, <2>1, <2>3, <3>2 DEF Tidy, P
    <3>4. SeenTo(input, R, k + 1, holds, done2, t)
      BY <1>2, <1>7, <3>3 DEF SeenTo
    <3>5. QED BY <3>4
  <2>4. QED BY <2>2, <2>3
<1>10. Settling(input, R, k, holds, needs2, done2)
  BY <1>1, <1>6, <1>8, <1>9 DEF Settling, P
<1>11. QED BY <1>3, <1>10 DEF holds, needs2, done2

\* A late write is of the call that waits for it.
LEMMA NoneAwaited ==
  ASSUME InputAssumption, Shape, NEW c \in Callers, Busy(c), LateSafe,
         pass[c] = "run" => Tidy(input, records, at[c], held[c], need[c], actions[c]),
         \/ ProgramOf(input)[at[c]].op = "look"
         \/ /\ ProgramOf(input)[at[c]].op \in {"create", "update", "write"}
            /\ need[c][ProgramOf(input)[at[c]].slot] # "recovery"
  PROVE  \A w \in late : w.call # calls
<1> DEFINE P == ProgramOf(input)
<1> DEFINE k == at[c]
<1> DEFINE n == need[c]
<1>1. SUFFICES ASSUME NEW w \in late, w.call = calls PROVE FALSE
  OBVIOUS
<1>2. pass[c] = "run" /\ Awaited(input, c, k, held[c], n, w)
  BY <1>1 DEF LateSafe
<1>3. Tidy(input, records, k, held[c], n, actions[c]) /\ input \in Inputs
  BY <1>2, InputsProgram
<1>4. input.tool = "order" /\ (n["extra"] = "recovery" \/ k > 8)
  BY <1>2 DEF Awaited
<1>5. /\ Len(P) = 10 /\ P[8] = Step("write", "extra") /\ P[9] = Step("verify", "extra")
      /\ P[10] = Step("verify", "order")
  BY <1>3, <1>4, OrderProgram
<1>6. k \in 1..10
  BY <1>3, <1>5 DEF Tidy
<1>7. P[k].op \in {"look", "create", "update", "write"} /\ (P[k].op = "look" \/ n[P[k].slot] # "recovery")
  OBVIOUS
<1>8. n["extra"] = "recovery" => k = 8
  <2>1. SUFFICES ASSUME n["extra"] = "recovery" PROVE k = 8
    OBVIOUS
  <2>2. Pending(input, k, "extra", "recovery")
    BY <1>3, <2>1, SlotNames DEF Tidy
  <2>3. QED BY <1>4, <2>2 DEF Pending
<1> HIDE DEF P, k, n
<1>9. k \notin {9, 10}
  BY <1>5, <1>7 DEF Step
<1>10. n["extra"] = "recovery" /\ k = 8
  BY <1>4, <1>6, <1>8, <1>9
<1>11. P[8].op = "write" /\ P[8].slot = "extra"
  BY <1>5 DEF Step
<1>12. QED BY <1>7, <1>10, <1>11

\* What a step of the call of c is to keep.
Advances(c) ==
  /\ HeldAlone(c)
  /\ Sound(input, records') /\ Grows(records, records')
  /\ Orderly(input, records', pass'[c], at'[c], held'[c], need'[c], actions'[c], answer'[c])
  /\ \A w \in late' : w.call \in Nat /\ w.call <= calls
  /\ \A w \in late' : w.call = calls =>
       /\ WriteSafe(input, records', w)
       /\ pass'[c] # "idle" => pass'[c] = "run" /\ Awaited(input, c, at'[c], held'[c], need'[c], w)
  /\ \A v, w \in late' : v.call = calls /\ w.call = calls => v = w

LEMMA Calm ==
  ASSUME IInv, InputAssumption, Converging, ~disturbed, NEW c \in Callers
  PROVE  /\ Shape /\ DOMAIN held = Callers /\ Sound(input, records) /\ LateSafe
         /\ Program = ProgramOf(input) /\ (Fixture <=> IsFixture(input)) /\ input \in Inputs
         /\ Now(c) = ProgramOf(input)[at[c]]
         /\ CallTidy(c)
         /\ pass[c] = "run" => Busy(c) /\ Tidy(input, records, at[c], held[c], need[c], actions[c])
         /\ IsFixture(input) /\ Busy(c) => pass[c] = "run"
<1>1. Shape
  BY DEF IInv
<1>2. /\ DOMAIN held = Callers /\ Sound(input, records) /\ LateSafe /\ CallTidy(c)
  BY DEF Converging
<1>3. pass[c] = "run" => Busy(c)
  BY DEF Busy
<1>4. Program = ProgramOf(input) /\ (Fixture <=> IsFixture(input)) /\ input \in Inputs
  BY <1>1, InputsProgram
<1>5. QED BY <1>1, <1>2, <1>3, <1>4 DEF CallTidy, Orderly, Busy, Now

LEMMA GrowsNot == ASSUME NEW R PROVE Grows(R, R)
BY DEF Grows

\* A step while no write of the call is late.
LEMMA Advancing ==
  ASSUME LateSafe, late' = late, \A w \in late : w.call # calls, NEW c,
         HeldAlone(c), Sound(input, records'), Grows(records, records'),
         Orderly(input, records', pass'[c], at'[c], held'[c], need'[c], actions'[c], answer'[c])
  PROVE  Advances(c)
<1>1. /\ \A w \in late : w.call \in Nat /\ w.call <= calls
  BY DEF LateSafe
<1>2. QED BY <1>1 DEF Advances

LEMMA LookAdvances ==
  ASSUME IInv, InputAssumption, Causes, Converging, ~disturbed, NEW c \in Callers, Look(c)
  PROVE  Advances(c)
<1>1. /\ Shape /\ DOMAIN held = Callers /\ Sound(input, records) /\ LateSafe
      /\ (Fixture <=> IsFixture(input)) /\ Now(c) = ProgramOf(input)[at[c]]
      /\ pass[c] = "run" => Tidy(input, records, at[c], held[c], need[c], actions[c])
      /\ IsFixture(input) /\ Busy(c) => pass[c] = "run"
  BY Calm
<1>2. Busy(c) /\ Now(c).op = "look" /\ records' = records /\ late' = late
  BY DEF Look, unchangedWorld
<1>3. \A w \in late : w.call # calls
  BY <1>1, <1>2, NoneAwaited
<1>4. \/ Fails(c)
      \/ \E holds, needs, done :
           /\ Proceed(c, holds, needs, done)
           /\ pass[c] = "run" => Settling(input, records, at[c], holds, needs, done)
  <2>1. CASE Fixture
    BY <1>1, <1>2, <2>1, FixtureLooks DEF Fails
  <2>2. CASE ~Fixture /\ pass[c] = "run"
    BY <1>1, <2>2, ToolLooks DEF Fails
  <2>3. CASE ~Fixture /\ pass[c] # "run"
    <3>1. \/ Answer(c, "clarification", {}, {})
          \/ Clarify(c, Now(c).slot)
          \/ \E holds, needs, done : Proceed(c, holds, needs, done)
      BY <2>3, LookParts
    <3>2. QED BY <2>3, <3>1, Failing
  <2>4. QED BY <2>1, <2>2, <2>3
<1>5. CASE Fails(c)
  BY <1>1, <1>2, <1>3, <1>5, FailsOrderly, GrowsNot, Advancing
<1>6. ASSUME NEW holds, NEW needs, NEW done, Proceed(c, holds, needs, done),
             pass[c] = "run" => Settling(input, records, at[c], holds, needs, done)
      PROVE  Advances(c)
  <2>1. /\ HeldAlone(c)
        /\ Orderly(input, records, pass'[c], at'[c], held'[c], need'[c], actions'[c], answer'[c])
    BY <1>1, <1>2, <1>6, ProceedOrderly
  <2>2. QED BY <1>1, <1>2, <1>3, <2>1, GrowsNot, Advancing
<1>7. QED BY <1>4, <1>5, <1>6

LEMMA LookFailsAdvances ==
  ASSUME IInv, InputAssumption, Converging, ~disturbed, NEW c \in Callers, LookFails(c)
  PROVE  Advances(c)
<1>1. /\ Shape /\ DOMAIN held = Callers /\ Sound(input, records) /\ LateSafe
      /\ Now(c) = ProgramOf(input)[at[c]]
      /\ pass[c] = "run" => Tidy(input, records, at[c], held[c], need[c], actions[c])
  BY Calm
<1>2. Busy(c) /\ Now(c).op = "look" /\ records' = records /\ late' = late
  BY DEF LookFails, unchangedWorld
<1>3. \A w \in late : w.call # calls
  BY <1>1, <1>2, NoneAwaited
<1>4. Fails(c)
  <2>1. \/ Failure(c) \/ workflowFailure(c, Now(c).slot) \/ partUpsertResolutionFailure(c, Now(c).slot)
    BY DEF LookFails
  <2>2. QED BY <2>1, Failing
<1>5. QED BY <1>1, <1>2, <1>3, <1>4, FailsOrderly, GrowsNot, Advancing

LEMMA WriteAnsweredAdvances ==
  ASSUME IInv, InputAssumption, Causes, Converging, ~disturbed, NEW c \in Callers, WriteAnswered(c)
  PROVE  Advances(c)
<1> DEFINE s == Now(c).slot
<1> DEFINE R2 == Stored(Write(c))
<1> DEFINE holds == [held[c] EXCEPT ![s] = IF held[c][s] = None THEN NewId(s) ELSE held[c][s]]
<1> DEFINE needs == [need[c] EXCEPT ![s] = "nothing"]
<1> DEFINE done == actions[c] \cup {<<s, Done(c)>>}
<1>1. AtWrite(c) /\ pass[c] = "run" /\ records' = R2 /\ late' = late
      /\ Now(c).op \in {"create", "update", "write"} /\ need[c][Now(c).slot] # "recovery"
  BY DEF WriteAnswered, AtWrite, Writing
<1>2. /\ Shape /\ DOMAIN held = Callers /\ Sound(input, records) /\ LateSafe /\ Busy(c)
      /\ Now(c) = ProgramOf(input)[at[c]]
      /\ Tidy(input, records, at[c], held[c], need[c], actions[c])
      /\ IsFixture(input) /\ Busy(c) => pass[c] = "run"
  BY <1>1, Calm
<1>3. \A w \in late : w.call # calls
  BY <1>1, <1>2, NoneAwaited
<1>4. Proceed(c, holds, needs, done)
  BY DEF WriteAnswered
<1>5. Settling(input, R2, at[c], holds, needs, done)
  BY <1>1, <1>2, WriteSettles
<1>6. /\ WriteSafe(input, records, Write(c))
  BY <1>1, <1>2, SafeToWrite
<1>7. Sound(input, R2) /\ Grows(records, R2)
  BY <1>2, <1>6, SafeWrite
<1> HIDE DEF holds, needs, done, R2
<1>8. /\ HeldAlone(c)
      /\ Orderly(input, R2, pass'[c], at'[c], held'[c], need'[c], actions'[c], answer'[c])
  BY <1>1, <1>2, <1>4, <1>5, ProceedOrderly
<1>9. QED BY <1>1, <1>2, <1>3, <1>7, <1>8, Advancing

LEMMA WriteRejectedAdvances ==
  ASSUME IInv, InputAssumption, Converging, ~disturbed, NEW c \in Callers, WriteRejected(c)
  PROVE  Advances(c)
<1>1. pass[c] = "run" /\ records' = records /\ late' = late
      /\ Now(c).op \in {"create", "update", "write"} /\ need[c][Now(c).slot] # "recovery"
  BY DEF WriteRejected, AtWrite, Writing
<1>2. /\ Shape /\ DOMAIN held = Callers /\ Sound(input, records) /\ LateSafe /\ Busy(c)
      /\ Now(c) = ProgramOf(input)[at[c]]
      /\ Tidy(input, records, at[c], held[c], need[c], actions[c])
  BY <1>1, Calm
<1>3. \A w \in late : w.call # calls
  BY <1>1, <1>2, NoneAwaited
<1>4. Fails(c)
  <2>1. \/ \E invalid \in BOOLEAN : partUpsertMutationFailure(c, Now(c).slot, invalid)
        \/ Failure(c) \/ workflowFailure(c, Now(c).slot)
    BY DEF WriteRejected
  <2>2. QED BY <2>1, Failing
<1>5. QED BY <1>1, <1>2, <1>3, <1>4, FailsOrderly, GrowsNot, Advancing

\* A call whose write of an extra line was lost looks for it; nothing else waits then.
LEMMA LostTidy ==
  ASSUME InputAssumption, Shape, NEW R, NEW R2, Grows(R, R2), NEW k, NEW h, NEW n, NEW n2, NEW done,
         Tidy(input, R, k, h, n, done), ProgramOf(input)[k].op \in {"create", "update", "write"},
         ProgramOf(input)[k].slot = "extra",
         n2["extra"] = "recovery", \A t \in Slots : t # "extra" => n2[t] = n[t]
  PROVE  input.tool = "order" /\ Tidy(input, R2, k, h, n2, done)
<1> DEFINE P == ProgramOf(input)
<1>1. /\ input \in Inputs /\ k \in 1..Len(P) /\ Len(P) \in Nat /\ Kept(input, h)
      /\ "extra" \in input.asks /\ input.asks \subseteq Slots /\ input.tool \in {"upsert", "order", "fixture"}
  BY InputsProgram, Programs DEF Tidy
<1>2. input.tool = "order"
  <2>1. CASE input.tool = "upsert"
    BY <1>1, <2>1 DEF InputAssumption, InputOK, PartSlots
  <2>2. CASE input.tool = "fixture"
    BY <1>1, <2>2, FixtureProgram DEF FixtureSlots, IsFixture
  <2>3. QED BY <1>1, <2>1, <2>2
<1>3. /\ Len(P) = 10 /\ P[1] = Step("look", "supplier") /\ P[2] = Step("look", "order")
      /\ P[3] = Step("create", "order") /\ P[4] = Step("look", "line") /\ P[5] = Step("look", "extra")
      /\ P[6] = Step("update", "order") /\ P[7] = Step("write", "line")
      /\ P[8] = Step("write", "extra") /\ P[9] = Step("verify", "extra") /\ P[10] = Step("verify", "order")
  BY <1>1, <1>2, OrderProgram
<1>4. ASSUME NEW t \in Slots, t # "extra" PROVE n[t] = "nothing" /\ n2[t] = "nothing"
  BY <1>4, WritePends
<1>5. \A j \in 1..(k - 1) : P[j].op = "look" /\ P[j].slot \in input.asks /\ n[P[j].slot] = "nothing" =>
        SeenTo(input, R, k, h, done, P[j].slot)
  BY DEF Tidy
<1>6. P[k].op \in {"create", "update", "write"} /\ P[k].slot = "extra"
  OBVIOUS
<1> HIDE DEF P
<1>7. k = 8
  <2>1. k \notin {1, 2, 3, 4, 5, 6, 7, 9, 10}
    BY <1>3, <1>6 DEF Step
  <2>2. QED BY <1>1, <1>3, <2>1
<1>8. /\ P[8].op = "write" /\ P[8].slot = "extra"
  BY <1>3 DEF Step
<1>9. \A s \in Slots : Needed(input, R2, h, s, n2[s]) /\ (n2[s] # "nothing" => Pending(input, k, s, n2[s]))
  <2>1. SUFFICES ASSUME NEW s \in Slots
                 PROVE  Needed(input, R2, h, s, n2[s]) /\ (n2[s] # "nothing" => Pending(input, k, s, n2[s]))
    OBVIOUS
  <2>2. CASE s = "extra"
    BY <1>1, <1>2, <1>7, <2>2 DEF Needed, Pending
  <2>3. CASE s # "extra"
    BY <1>4, <2>3 DEF Needed
  <2>4. QED BY <2>2, <2>3
<1>10. ASSUME NEW j \in 1..(k - 1), P[j].op = "look", P[j].slot \in input.asks, n2[P[j].slot] = "nothing"
       PROVE  SeenTo(input, R2, k, h, done, P[j].slot)
  <2>1. P[j].slot \in Slots /\ P[j].slot # "extra"
    BY <1>1, <1>10
  <2>2. n[P[j].slot] = "nothing"
    BY <1>4, <2>1
  <2>3. SeenTo(input, R, k, h, done, P[j].slot)
    BY <1>5, <1>10, <2>2
  <2>4. QED BY <2>3, SeenStays
<1>11. Tidy(input, R2, k, h, n2, done)
  BY <1>1, <1>7, <1>8, <1>9, <1>10 DEF Tidy, P
<1>12. QED BY <1>2, <1>11

LEMMA WriteLostAdvances ==
  ASSUME IInv, InputAssumption, Causes, Converging, ~disturbed, NEW c \in Callers, WriteLost(c)
  PROVE  Advances(c)
<1> DEFINE s == Now(c).slot
<1> DEFINE w == Write(c)
<1> DEFINE R2 == records'
<1> DEFINE n2 == need'[c]
<1>1. AtWrite(c) /\ pass[c] = "run"
      /\ Now(c).op \in {"create", "update", "write"} /\ need[c][Now(c).slot] # "recovery"
  BY DEF WriteLost, AtWrite, Writing
<1>2. /\ Shape /\ DOMAIN held = Callers /\ Sound(input, records) /\ LateSafe /\ Busy(c)
      /\ Now(c) = ProgramOf(input)[at[c]]
      /\ Tidy(input, records, at[c], held[c], need[c], actions[c])
  BY <1>1, Calm
<1>3. \A v \in late : v.call # calls /\ v.call \in Nat /\ v.call <= calls
  <2>1. \A v \in late : v.call # calls
    BY <1>1, <1>2, NoneAwaited
  <2>2. QED BY <1>2, <2>1 DEF LateSafe
<1>4. calls \in Nat
  BY <1>2 DEF LateSafe
<1>5. /\ s \in Slots /\ w.slot = s /\ w.id = held[c][s] /\ w.under = UnderOf(input, held[c], s)
      /\ w.caller = c /\ w.call = calls /\ WriteSafe(input, records, w)
  BY <1>1, <1>2, SafeToWrite
<1>6. \/ records' = Stored(w) /\ late' = late
      \/ late' = late \cup {w} /\ records' = records
      \/ records' = records /\ late' = late
  BY DEF WriteLost
<1>7. \/ /\ s = "extra" /\ need' = [need EXCEPT ![c][s] = "recovery"]
         /\ UNCHANGED <<pass, at, held, actions, answer>>
      \/ Fails(c)
  <2>1. \/ /\ s = "extra" /\ need' = [need EXCEPT ![c][s] = "recovery"]
           /\ UNCHANGED <<pass, at, held, actions, answer>>
        \/ partUpsertMutationFailure(c, s, FALSE) \/ Failure(c) \/ workflowFailure(c, s)
    BY DEF WriteLost
  <2> HIDE DEF s
  <2>2. QED BY <2>1, Failing
<1> HIDE DEF w
<1>8. Sound(input, R2) /\ Grows(records, R2)
  <2>1. Sound(input, Stored(w)) /\ Grows(records, Stored(w))
    BY <1>2, <1>5, SafeWrite
  <2>2. QED BY <1>2, <1>6, <2>1, GrowsNot
<1>9. \A v \in late' : v.call \in Nat /\ v.call <= calls
  BY <1>3, <1>4, <1>5, <1>6
<1>10. \A v \in late' : v.call = calls => v = w /\ WriteSafe(input, R2, v)
  BY <1>3, <1>5, <1>6
<1>11. CASE Fails(c)
  <2>1. /\ HeldAlone(c) /\ pass'[c] = "idle"
        /\ Orderly(input, R2, pass'[c], at'[c], held'[c], need'[c], actions'[c], answer'[c])
    BY <1>2, <1>11, FailsOrderly
  <2> HIDE DEF R2
  <2>2. QED BY <1>8, <1>9, <1>10, <2>1 DEF Advances, R2
<1>12. CASE /\ s = "extra" /\ need' = [need EXCEPT ![c][s] = "recovery"]
            /\ UNCHANGED <<pass, at, held, actions, answer>>
  <2>1. n2["extra"] = "recovery" /\ \A t \in Slots : t # "extra" => n2[t] = need[c][t]
    BY <1>2, <1>5, <1>12 DEF Shape
  <2> HIDE DEF n2, R2
  <2>2. input.tool = "order" /\ Tidy(input, R2, at[c], held[c], n2, actions[c])
    BY <1>1, <1>2, <1>8, <1>12, <2>1, LostTidy
  <2>3. Awaited(input, c, at[c], held[c], n2, w)
    BY <1>5, <1>12, <2>1, <2>2 DEF Awaited
  <2>4. /\ pass'[c] = "run" /\ at'[c] = at[c] /\ held'[c] = held[c] /\ actions'[c] = actions[c]
        /\ need'[c] = n2 /\ HeldAlone(c)
    BY <1>1, <1>2, <1>12 DEF n2, HeldAlone
  <2>5. Orderly(input, R2, pass'[c], at'[c], held'[c], need'[c], actions'[c], answer'[c])
    BY <2>2, <2>4 DEF Orderly
  <2>6. QED BY <1>8, <1>9, <1>10, <2>3, <2>4, <2>5 DEF Advances, R2
<1>13. QED BY <1>7, <1>11, <1>12

\* A step that leaves the records and the late writes as they are: a late write of the
\* call is still one it waits for.
LEMMA AdvancingLate ==
  ASSUME LateSafe, late' = late, records' = records, NEW c,
         HeldAlone(c), Sound(input, records),
         Orderly(input, records, pass'[c], at'[c], held'[c], need'[c], actions'[c], answer'[c]),
         \A w \in late : w.call = calls /\ pass'[c] # "idle" =>
           pass'[c] = "run" /\ Awaited(input, c, at'[c], held'[c], need'[c], w)
  PROVE  Advances(c)
<1>1. /\ \A w \in late : w.call \in Nat /\ w.call <= calls
      /\ \A w \in late : w.call = calls => WriteSafe(input, records, w)
      /\ \A v, w \in late : v.call = calls /\ w.call = calls => v = w
  BY DEF LateSafe
<1>2. QED BY <1>1, GrowsNot DEF Advances

LEMMA FailsAdvances ==
  ASSUME IInv, InputAssumption, Converging, ~disturbed, NEW c \in Callers, Fails(c), unchangedWorld
  PROVE  Advances(c)
<1>1. /\ Shape /\ DOMAIN held = Callers /\ Sound(input, records) /\ LateSafe
  BY Calm
<1>2. records' = records /\ late' = late
  BY DEF unchangedWorld
<1>3. /\ HeldAlone(c) /\ pass'[c] = "idle"
      /\ Orderly(input, records, pass'[c], at'[c], held'[c], need'[c], actions'[c], answer'[c])
  BY <1>1, FailsOrderly
<1>4. QED BY <1>1, <1>2, <1>3, AdvancingLate

LEMMA RecoverAdvances ==
  ASSUME IInv, InputAssumption, Converging, ~disturbed, NEW c \in Callers, recoverExtraLine(c)
  PROVE  Advances(c)
<1> DEFINE s == Now(c).slot
<1> DEFINE h == held[c]
<1> DEFINE n == need[c]
<1> DEFINE k == at[c]
<1> DEFINE R == records
<1> DEFINE found == IF held[c][s] = None THEN Found(c, s) ELSE {r \in OfSlot(s) : r.id = held[c][s]}
<1> DEFINE holds == [h EXCEPT ![s] = None]
<1> DEFINE needs == [n EXCEPT ![s] = "nothing"]
<1> DEFINE done == actions[c] \cup {<<s, "recovered">>}
<1>1. /\ input.tool = "order" /\ pass[c] = "run" /\ n[s] = "recovery" /\ unchangedWorld
      /\ records' = R /\ late' = late
  BY DEF recoverExtraLine, Writing, unchangedWorld
<1>2. /\ Shape /\ DOMAIN held = Callers /\ Sound(input, R) /\ LateSafe /\ Busy(c)
      /\ Now(c) = ProgramOf(input)[k] /\ (Fixture <=> IsFixture(input)) /\ input \in Inputs
      /\ Tidy(input, R, k, h, n, actions[c])
  BY <1>1, Calm
<1>3. s \in input.asks /\ s \in Slots
  BY <1>2, InputsProgram DEF Tidy
<1>4. \/ Fails(c)
      \/ /\ Cardinality(found) = 1 /\ \A r \in found : r.fits
         /\ Proceed(c, holds, needs, done)
  <2>1. workflowFailure(c, s) => Fails(c)
    BY Failing
  <2>2. QED BY <2>1 DEF recoverExtraLine
<1>5. CASE Fails(c)
  BY <1>1, <1>5, FailsAdvances
<1>6. CASE /\ Cardinality(found) = 1 /\ \A r \in found : r.fits
           /\ Proceed(c, holds, needs, done)
  <2>1. found # {}
    <3> HIDE DEF found
    <3>1. QED BY <1>6, FS_EmptySet
  <2>2. PICK r \in found : r.fits
    BY <1>6, <2>1
  <2>3. r \in In(R, s)
    BY DEF Found, OfSlot, In
  <2>4. DOMAIN n = Slots
    BY <1>2 DEF Shape
  <2>5. s = "extra" /\ k = 8 /\ Settling(input, R, k, holds, needs, done)
    <3>1. /\ Tidy(input, R, k, h, n, actions[c]) /\ s \in Slots /\ n[s] = "recovery" /\ input.tool = "order"
          /\ Shape /\ r.fits
      BY <1>1, <1>2, <1>3, <2>2
    <3> HIDE DEF s, h, n, k, R, found
    <3>2. QED BY <2>3, <2>4, <3>1, RecoverySettles
  <2>6. ~IsFixture(input) /\ "extra" \notin input.byId
    BY <1>1, <1>2, OrderProgram
  <2>7. /\ HeldAlone(c)
        /\ Orderly(input, R, pass'[c], at'[c], held'[c], need'[c], actions'[c], answer'[c])
        /\ pass'[c] # "idle" =>
             /\ pass'[c] = "run" /\ held'[c] = holds /\ need'[c] = needs
             /\ k \in Nat /\ at'[c] \in Nat /\ at'[c] > k
    <3> HIDE DEF holds, needs, done
    <3>1. QED BY <1>1, <1>2, <1>6, <2>5, <2>6, ProceedOrderly
  <2>8. ASSUME NEW w \in late, w.call = calls, pass'[c] # "idle"
        PROVE  pass'[c] = "run" /\ Awaited(input, c, at'[c], held'[c], need'[c], w)
    <3>1. WriteSafe(input, R, w) /\ Awaited(input, c, k, h, n, w)
      BY <1>2, <2>8 DEF LateSafe
    <3>2. w.id = h["extra"] /\ w.under = UnderOf(input, h, "extra") /\ w.slot = "extra" /\ w.caller = c
      BY <1>1, <2>5, <3>1 DEF Awaited
    <3>3. w.id # None
      <4>1. SUFFICES ASSUME w.id = None PROVE FALSE
        OBVIOUS
      <4>2. Free(input, R, "extra", UnderOf(input, h, "extra"))
        BY <3>1, <3>2, <4>1 DEF WriteSafe
      <4>3. r.under # UnderOf(input, h, "extra")
        BY <2>3, <2>5, <4>2 DEF Free, Companies
      <4>4. r \in Found(c, s)
        BY <2>5, <3>2, <4>1
      <4>5. r.under = Under(c, s)
        BY <1>2, <2>5, <2>6, <4>4 DEF Found
      <4>6. Parents = ParentsOf(input)
        BY <1>2, InputsProgram
      <4>7. Under(c, s) = UnderOf(input, h, "extra")
        BY <2>5, <4>6 DEF Under, UnderOf
      <4>8. QED BY <4>3, <4>5, <4>7
    <3>4. needs["extra"] = "nothing"
      BY <2>4, <2>5, SlotNames
    <3>5. at'[c] > 8
      BY <2>5, <2>7, <2>8
    <3>6. need'[c] = needs /\ pass'[c] = "run"
      BY <2>7, <2>8
    <3> HIDE DEF needs
    <3>7. QED BY <1>1, <3>2, <3>3, <3>4, <3>5, <3>6 DEF Awaited
  <2>9. QED BY <1>1, <1>2, <2>7, <2>8, AdvancingLate
<1>7. QED BY <1>4, <1>5, <1>6

LEMMA VerifyAdvances ==
  ASSUME IInv, InputAssumption, Converging, ~disturbed, NEW c \in Callers, Verify(c)
  PROVE  Advances(c)
<1> DEFINE s == Now(c).slot
<1> DEFINE h == held[c]
<1> DEFINE n == need[c]
<1> DEFINE k == at[c]
<1>1. /\ pass[c] = "run" /\ Now(c).op = "verify" /\ unchangedWorld
      /\ records' = records /\ late' = late
  BY DEF Verify, Writing, unchangedWorld
<1>2. /\ Shape /\ DOMAIN held = Callers /\ Sound(input, records) /\ LateSafe /\ Busy(c)
      /\ Now(c) = ProgramOf(input)[k]
      /\ Tidy(input, records, k, h, n, actions[c])
  BY <1>1, Calm
<1>3. Fails(c) \/ Proceed(c, h, n, actions[c])
  <2>1. partUpsertLinkReadbackFailure(c, s) => Fails(c)
    BY Failing
  <2>2. QED BY <2>1 DEF Verify
<1>4. CASE Fails(c)
  BY <1>1, <1>4, FailsAdvances
<1>5. CASE Proceed(c, h, n, actions[c])
  <2>1. Settling(input, records, k, h, n, actions[c]) /\ \A t \in Slots : n[t] = "nothing"
    BY <1>1, <1>2, VerifySettles
  <2>2. /\ HeldAlone(c)
        /\ Orderly(input, records, pass'[c], at'[c], held'[c], need'[c], actions'[c], answer'[c])
        /\ pass'[c] # "idle" =>
             /\ pass'[c] = "run" /\ held'[c] = h /\ need'[c] = n
             /\ k \in Nat /\ at'[c] \in Nat /\ at'[c] > k
    <3> HIDE DEF h, n, k
    <3>1. QED BY <1>1, <1>2, <1>5, <2>1, ProceedOrderly DEF h, n, k
  <2>3. ASSUME NEW w \in late, w.call = calls, pass'[c] # "idle"
        PROVE  pass'[c] = "run" /\ Awaited(input, c, at'[c], held'[c], need'[c], w)
    <3>1. Awaited(input, c, k, h, n, w)
      BY <1>2, <2>3 DEF LateSafe
    <3>2. n["extra"] = "nothing"
      BY <2>1, SlotNames
    <3>3. k > 8 /\ w.id # None /\ input.tool = "order" /\ w.caller = c /\ w.slot = "extra"
      BY <3>1, <3>2 DEF Awaited
    <3>4. at'[c] > 8 /\ need'[c] = n /\ pass'[c] = "run"
      BY <2>2, <2>3, <3>3
    <3> HIDE DEF n
    <3>5. QED BY <3>2, <3>3, <3>4 DEF Awaited
  <2>4. QED BY <1>1, <1>2, <2>2, <2>3, AdvancingLate
<1>6. QED BY <1>3, <1>4, <1>5

\* One call at a time, and what the others were told stays true.
LEMMA StepConverges ==
  ASSUME IInv, InputAssumption, Converging, ~disturbed, NEW c \in Callers, Busy(c), Alone(c),
         calls' = calls, Advances(c)
  PROVE  Converging'
<1>1. /\ LateSafe /\ DOMAIN held = Callers /\ \A d \in Callers : CallTidy(d)
      /\ \A d \in Callers : Busy(d) => d = c
  BY DEF Converging
<1>2. /\ input' = input /\ HeldAlone(c) /\ Sound(input, records') /\ Grows(records, records')
      /\ Orderly(input, records', pass'[c], at'[c], held'[c], need'[c], actions'[c], answer'[c])
      /\ \A d \in Callers \ {c} :
           /\ pass'[d] = pass[d] /\ at'[d] = at[d] /\ need'[d] = need[d]
           /\ actions'[d] = actions[d] /\ answer'[d] = answer[d]
  BY DEF Advances, Alone, Others
<1>3. ASSUME NEW d \in Callers, d # c
      PROVE  pass'[d] = "idle" /\ CallTidy(d)'
  <2>1. pass[d] = "idle" /\ CallTidy(d)
    BY <1>1, <1>3 DEF Busy
  <2>2. /\ held[d] = Fresh /\ need[d] = Idle /\ actions[d] = {}
        /\ answer[d].kind = "ok" => Provided(input, records, answer[d].actions)
    BY <2>1 DEF CallTidy, Orderly
  <2>3. answer[d].kind = "ok" => Provided(input, records', answer[d].actions)
    BY <1>2, <2>2, ProvidedStays
  <2>4. /\ pass'[d] = "idle" /\ held'[d] = Fresh /\ need'[d] = Idle /\ actions'[d] = {}
        /\ answer'[d] = answer[d]
    BY <1>2, <1>3, <2>1, <2>2 DEF HeldAlone
  <2>5. Orderly(input, records', pass'[d], at'[d], held'[d], need'[d], actions'[d], answer'[d])
    BY <2>3, <2>4 DEF Orderly
  <2>6. QED BY <1>2, <2>4, <2>5 DEF CallTidy
<1>4. CallTidy(c)'
  BY <1>2 DEF CallTidy
<1>5. \A d \in Callers : CallTidy(d)'
  BY <1>3, <1>4
<1>6. \A d, e \in Callers : Busy(d)' /\ Busy(e)' => d = e
  BY <1>3 DEF Busy
<1>7. LateSafe'
  <2>1. /\ calls \in Nat
        /\ \A w \in late' : w.call \in Nat /\ w.call <= calls
        /\ \A w \in late' : w.call = calls => WriteSafe(input, records', w)
        /\ \A v, w \in late' : v.call = calls /\ w.call = calls => v = w
    BY <1>1 DEF Advances, LateSafe
  <2>2. ASSUME NEW w \in late', w.call = calls, NEW d \in Callers, Busy(d)'
        PROVE  pass'[d] = "run" /\ Awaited(input, d, at'[d], held'[d], need'[d], w)
    <3>1. d = c /\ pass'[c] # "idle"
      BY <1>3, <2>2 DEF Busy
    <3>2. QED BY <2>2, <3>1 DEF Advances
  <2>3. QED BY <1>2, <2>1, <2>2 DEF LateSafe
<1>8. QED BY <1>2, <1>5, <1>6, <1>7 DEF Converging, HeldAlone

\* A call that begins while no other runs has nothing yet, and no late write is its own.
LEMMA StartConverges ==
  ASSUME IInv, InputAssumption, Converging, NEW c \in Callers, NEW dry \in BOOLEAN, Start(c, dry)
  PROVE  Converging'
<1>1. SUFFICES ASSUME ~disturbed' PROVE Converging'
  BY DEF Converging
<1> DEFINE p == FirstPass(dry)
<1> DEFINE k == Least(After(0, p, Idle, Fresh))
<1>2. /\ ~disturbed /\ \A d \in Callers : ~Busy(d)
      /\ UNCHANGED <<input, records, late, held, need, actions>>
      /\ calls' = calls + 1 /\ pass' = [pass EXCEPT ![c] = p] /\ at' = [at EXCEPT ![c] = k]
      /\ \A d \in Callers \ {c} : answer'[d] = answer[d]
  BY <1>1 DEF Start, IInv, Shape
<1>3. /\ Shape /\ LateSafe /\ DOMAIN held = Callers /\ \A d \in Callers : CallTidy(d)
      /\ Sound(input, records) /\ (Fixture <=> IsFixture(input)) /\ input \in Inputs
  BY <1>2, InputsProgram DEF Converging, IInv
<1>4. \A d \in Callers :
        /\ pass[d] = "idle" /\ held[d] = Fresh /\ need[d] = Idle /\ actions[d] = {}
        /\ answer[d].kind = "ok" => Provided(input, records, answer[d].actions)
  BY <1>2, <1>3 DEF CallTidy, Orderly, Busy
<1>5. p \in {"dry_run", "preflight", "run"} /\ (IsFixture(input) => p = "run")
  <2>1. IsFixture(input) => ~dry /\ ~Upsert
    BY <1>3 DEF Start, Fixture, Upsert
  <2>2. QED BY <2>1 DEF FirstPass
<1>6. Tidy(input, records, k, Fresh, Idle, {})
  BY <1>3, FirstTidy
<1> HIDE DEF p, k
<1>7. CallTidy(c)'
  <2>1. /\ pass'[c] = p /\ at'[c] = k /\ held'[c] = Fresh /\ need'[c] = Idle /\ actions'[c] = {}
    BY <1>2, <1>3, <1>4 DEF Shape
  <2>2. Orderly(input, records, pass'[c], at'[c], held'[c], need'[c], actions'[c], answer'[c])
    BY <1>5, <1>6, <2>1 DEF Orderly
  <2>3. QED BY <1>2, <2>2 DEF CallTidy
<1>8. ASSUME NEW d \in Callers, d # c PROVE pass'[d] = "idle" /\ CallTidy(d)'
  <2>1. pass'[d] = "idle" /\ held'[d] = Fresh /\ need'[d] = Idle /\ actions'[d] = {} /\ answer'[d] = answer[d]
    BY <1>2, <1>3, <1>4, <1>8 DEF Shape
  <2>2. Orderly(input, records, pass'[d], at'[d], held'[d], need'[d], actions'[d], answer'[d])
    BY <1>4, <2>1 DEF Orderly
  <2>3. QED BY <1>2, <2>1, <2>2 DEF CallTidy
<1>9. \A d \in Callers : CallTidy(d)'
  BY <1>7, <1>8
<1>10. \A d, e \in Callers : Busy(d)' /\ Busy(e)' => d = e
  BY <1>8 DEF Busy
<1>11. LateSafe'
  <2>1. calls' \in Nat /\ \A w \in late : w.call \in Nat /\ w.call <= calls' /\ w.call # calls'
    BY <1>2, <1>3 DEF LateSafe
  <2>2. QED BY <1>2, <2>1 DEF LateSafe
<1>12. QED BY <1>2, <1>3, <1>9, <1>10, <1>11 DEF Converging

\* A write that comes while its call still waits for it leaves the call as it was.
LEMMA LandsTidy ==
  ASSUME InputAssumption, Shape, Sound(input, records), NEW w, WriteSafe(input, records, w),
         NEW c, NEW k, NEW h, NEW n, NEW done, Awaited(input, c, k, h, n, w),
         Tidy(input, records, k, h, n, done)
  PROVE  Tidy(input, Stored(w), k, h, n, done)
<1> DEFINE R2 == Stored(w)
<1> DEFINE P == ProgramOf(input)
<1>1. /\ Grows(records, R2)
      /\ \A t \in Slots : \A u : Free(input, records, t, u) /\ (w.id = None => t # w.slot) => Free(input, R2, t, u)
  BY SafeWrite
<1> HIDE DEF R2
<1>2. w.slot = "extra" /\ (w.id = None => n["extra"] = "recovery")
  BY DEF Awaited
<1>3. ASSUME NEW t \in Slots PROVE Needed(input, R2, h, t, n[t])
  <2>1. Needed(input, records, h, t, n[t])
    BY DEF Tidy
  <2>2. QED BY <1>1, <1>2, <2>1 DEF Needed
<1>4. \A j \in 1..(k - 1) : P[j].op = "look" /\ P[j].slot \in input.asks /\ n[P[j].slot] = "nothing" =>
        SeenTo(input, R2, k, h, done, P[j].slot)
  <2>1. SUFFICES ASSUME NEW j \in 1..(k - 1), P[j].op = "look", P[j].slot \in input.asks, n[P[j].slot] = "nothing"
                 PROVE  SeenTo(input, R2, k, h, done, P[j].slot)
    OBVIOUS
  <2>2. SeenTo(input, records, k, h, done, P[j].slot)
    BY <2>1 DEF Tidy
  <2>3. QED BY <1>1, <2>2, SeenStays
<1>5. Tidy(input, R2, k, h, n, done)
  BY <1>3, <1>4 DEF Tidy
<1>6. QED BY <1>5 DEF R2

LEMMA LandsConverges ==
  ASSUME IInv, InputAssumption, Converging, NEW w \in late, Lands(w)
  PROVE  Converging'
<1>1. SUFFICES ASSUME ~disturbed' PROVE Converging'
  BY DEF Converging
<1> DEFINE R2 == records'
<1>2. /\ ~disturbed /\ w.call = calls /\ late' = late \ {w} /\ records' = Stored(w)
      /\ UNCHANGED <<input, pass, at, held, need, actions, answer, calls>>
  BY <1>1 DEF Lands, call, counts
<1>3. /\ Shape /\ LateSafe /\ DOMAIN held = Callers /\ Sound(input, records)
      /\ \A d, e \in Callers : Busy(d) /\ Busy(e) => d = e
      /\ \A c \in Callers : CallTidy(c)
  BY <1>2 DEF Converging, IInv
<1>4. WriteSafe(input, records, w)
  BY <1>2, <1>3 DEF LateSafe
<1>5. Sound(input, R2) /\ Grows(records, R2)
  BY <1>2, <1>3, <1>4, SafeWrite
<1>6. ASSUME NEW c \in Callers
      PROVE  Orderly(input, R2, pass[c], at[c], held[c], need[c], actions[c], answer[c])
  <2>1. CallTidy(c)
    BY <1>3
  <2>2. CASE ~Busy(c)
    <3>1. /\ pass[c] = "idle" /\ held[c] = Fresh /\ need[c] = Idle /\ actions[c] = {}
          /\ answer[c].kind = "ok" => Provided(input, records, answer[c].actions)
      BY <2>1, <2>2 DEF CallTidy, Orderly, Busy
    <3> HIDE DEF R2
    <3>2. answer[c].kind = "ok" => Provided(input, R2, answer[c].actions)
      BY <1>5, <3>1, ProvidedStays
    <3>3. QED BY <3>1, <3>2 DEF Orderly
  <2>3. CASE Busy(c)
    <3>1. pass[c] = "run" /\ Awaited(input, c, at[c], held[c], need[c], w)
      BY <1>2, <1>3, <2>3 DEF LateSafe
    <3>2. Tidy(input, records, at[c], held[c], need[c], actions[c])
      BY <2>1, <3>1 DEF CallTidy, Orderly
    <3>3. Tidy(input, R2, at[c], held[c], need[c], actions[c])
      BY <1>2, <1>3, <1>4, <3>1, <3>2, LandsTidy
    <3> HIDE DEF R2
    <3>4. QED BY <3>1, <3>3 DEF Orderly
  <2>4. QED BY <2>2, <2>3
<1>7. \A c \in Callers : CallTidy(c)'
  BY <1>2, <1>6 DEF CallTidy
<1>8. LateSafe'
  <2>1. /\ calls' \in Nat /\ \A v \in late' : v.call \in Nat /\ v.call <= calls' /\ v.call # calls'
    BY <1>2, <1>3 DEF LateSafe
  <2>2. QED BY <2>1 DEF LateSafe
<1>9. \A d, e \in Callers : Busy(d)' /\ Busy(e)' => d = e
  BY <1>2, <1>3 DEF Busy
<1>10. QED BY <1>2, <1>3, <1>5, <1>7, <1>8, <1>9 DEF Converging

\* What is there before a first call.
LEMMA InitConverges ==
  ASSUME InputAssumption, Init
  PROVE  Converging
<1>1. Shape
  BY InitInv DEF IInv
<1>2. /\ Parents = ParentsOf(input) /\ input \in Inputs /\ input.asks \subseteq Slots
  BY <1>1, InputsProgram
<1>3. PICK S \in SUBSET input.asks, odd \in Slots \cup {"none"} :
        input.byId \subseteq S /\ records = There(S, odd)
  BY DEF Init
<1> DEFINE R == records
<1> DEFINE rec(s) == [slot |-> s, id |-> 1, under |-> [p \in Parents[s] |-> 1], fits |-> s # odd]
<1>4. R = {rec(s) : s \in S}
  BY <1>3 DEF There
<1>5. \A s : /\ rec(s).slot = s /\ rec(s).id = 1 /\ rec(s).under = [p \in Parents[s] |-> 1]
             /\ Whole(rec(s))
  BY DEF Whole
<1> HIDE DEF R, rec
<1>6. Single(input, R)
  BY <1>4, <1>5 DEF Single
<1>7. \A r \in R : Whole(r) /\ r.slot \in Slots
  BY <1>2, <1>3, <1>4, <1>5
<1>8. IsFixture(input) => \A r \in R : r.id = 1 /\ (r.slot = "order" => r.under = OnSupplier)
  <2>1. ParentsOf(input)["order"] = {"supplier"}
    BY DEF ParentsOf, HangsOn
  <2>2. [p \in ParentsOf(input)["order"] |-> 1] = OnSupplier
    BY <2>1 DEF OnSupplier
  <2>3. QED BY <1>2, <1>4, <1>5, <2>2
<1>9. \A s \in input.byId : \E r \in In(R, s) : r.id = 1
  <2>1. SUFFICES ASSUME NEW s \in input.byId PROVE rec(s) \in In(R, s) /\ rec(s).id = 1
    OBVIOUS
  <2>2. QED BY <1>3, <1>4, <1>5 DEF In
<1>10. Sound(input, records)
  BY <1>6, <1>7, <1>8, <1>9 DEF Sound, R
<1>11. /\ LateSafe /\ DOMAIN held = Callers /\ \A c \in Callers : ~Busy(c)
  BY DEF Init, LateSafe, Busy
<1>12. ASSUME NEW c \in Callers PROVE CallTidy(c)
  <2>1. /\ pass[c] = "idle" /\ held[c] = Fresh /\ need[c] = Idle /\ actions[c] = {}
        /\ answer[c].kind = "none"
    BY DEF Init
  <2>2. QED BY <2>1 DEF CallTidy, Orderly
<1>13. QED BY <1>10, <1>11, <1>12 DEF Converging

LEMMA CallConverges ==
  ASSUME IInv, InputAssumption, Causes, Converging, NEW c \in Callers, NEW dry \in BOOLEAN, Acts(c, dry)
  PROVE  Converging'
<1>1. CASE Start(c, dry)
  BY <1>1, StartConverges
<1>2. CASE ~Start(c, dry)
  <2>1. Busy(c) /\ calls' = calls /\ disturbed' = disturbed
    <3>1. CASE Look(c) \/ LookFails(c)
      BY <3>1 DEF Look, LookFails, unchangedWorld
    <3>2. CASE WriteAnswered(c)
      BY <3>2 DEF WriteAnswered, AtWrite, Writing, Busy, counts
    <3>3. CASE WriteRejected(c)
      BY <3>3 DEF WriteRejected, AtWrite, Writing, Busy
    <3>4. CASE WriteLost(c)
      BY <3>4 DEF WriteLost, AtWrite, Writing, Busy
    <3>5. CASE recoverExtraLine(c)
      BY <3>5 DEF recoverExtraLine, Writing, Busy, unchangedWorld
    <3>6. CASE Verify(c)
      BY <3>6 DEF Verify, Writing, Busy, unchangedWorld
    <3>7. QED BY <1>2, <3>1, <3>2, <3>3, <3>4, <3>5, <3>6 DEF Acts
  <2>2. SUFFICES ASSUME ~disturbed PROVE Converging'
    BY <2>1 DEF Converging
  <2>3. Alone(c)
    BY StepsAlone DEF Acts, IInv
  <2>4. Advances(c)
    BY <1>2, <2>2, LookAdvances, LookFailsAdvances, WriteAnsweredAdvances, WriteRejectedAdvances,
       WriteLostAdvances, RecoverAdvances, VerifyAdvances DEF Acts
  <2>5. QED BY <2>1, <2>2, <2>3, <2>4, StepConverges
<1>3. QED BY <1>1, <1>2

\* Calling again until it works leaves one record in every place: unless calls overlap, others
\* write, or a write takes effect after its caller has called again.  Each record is searched
\* for before it is written, under the records it belongs to (resolveWorkflowPart and its
\* like, exactSupplierReferenceMatches), and created only where the search came back empty: what a lost answer
\* hid the next call finds.  Only an extra line is looked for by the call that lost the answer
\* (recoverExtraLine), and the call goes on only when it is there; a fixture is looked for by
\* its name alone, and another call of the test uses the one of the first (getOrCreateRecord).
THEOREM CallingAgainConverges == Spec => []RetriesConverge
<1>1. Init => Causes /\ Converging
  BY InitCauses, InitConverges, InputAssumption
<1>2. IInv /\ Causes /\ Converging /\ [Next]_vars => Causes' /\ Converging'
  <2>1. SUFFICES ASSUME IInv, Causes, Converging, [Next]_vars PROVE Causes' /\ Converging'
    OBVIOUS
  <2>2. ASSUME NEW c \in Callers,
               \/ \E dry \in BOOLEAN : Start(c, dry)
               \/ Look(c) \/ LookFails(c)
               \/ WriteAnswered(c) \/ WriteRejected(c) \/ WriteLost(c)
               \/ recoverExtraLine(c) \/ Verify(c)
        PROVE  Causes' /\ Converging'
    <3>1. PICK dry \in BOOLEAN : Acts(c, dry)
      BY <2>2 DEF Acts
    <3>2. Causes'
      BY <2>1, <3>1, CallCauses, InputAssumption
    <3>3. Converging'
      BY <2>1, <3>1, CallConverges, InputAssumption
    <3>4. QED BY <3>2, <3>3
  <2>3. CASE (\E w \in late : Lands(w)) \/ ForeignWrite
    <3>1. Causes'
      BY <2>1, <2>3, OtherCauses
    <3>2. ForeignWrite => Converging'
      BY DEF ForeignWrite, Converging
    <3>3. Converging'
      BY <2>1, <2>3, <3>2, LandsConverges, InputAssumption
    <3>4. QED BY <3>1, <3>3
  <2>4. CASE UNCHANGED vars
    <3>1. Causes'
      BY <2>1, <2>4 DEF vars, call, counts, Causes, HistoryShape, World, CauseInv, Excused, LateOK,
         Fixture, Busy
    <3>2. Converging'
      BY <2>1, <2>4 DEF vars, call, counts, Converging, LateSafe, CallTidy, Busy
    <3>3. QED BY <3>1, <3>2
  <2>5. QED BY <2>1, <2>2, <2>3, <2>4 DEF Next
<1>3. IInv /\ Converging => RetriesConverge
  <2>1. SUFFICES ASSUME IInv, Converging, ~disturbed
                 PROVE  /\ \A q, r \in records :
                             q.slot = r.slot /\ (Fixture \/ (q.under = r.under /\ (q.slot \in Companies => q.fits = r.fits)))
                               => q = r
                        /\ \A c \in Callers : Answered(c) /\ answer[c].kind = "ok" =>
                             \A s \in input.asks :
                               <<s, "skipped">> \in answer[c].actions \/
                                 \E r \in records : r.slot = s /\ (Fixture \/ s \in {"line", "extra"} => r.fits)
    BY DEF RetriesConverge
  <2>2. /\ Fixture <=> IsFixture(input)
        /\ Single(input, records) /\ \A c \in Callers : CallTidy(c)
    BY <2>1, InputsProgram, InputAssumption DEF IInv, Converging, Sound
  <2>3. ASSUME NEW c \in Callers, Answered(c), answer[c].kind = "ok"
        PROVE  Provided(input, records, answer[c].actions)
    BY <2>2, <2>3 DEF Answered, CallTidy, Orderly, Busy
  <2>4. QED BY <2>2, <2>3 DEF Single, Provided, In
<1>4. QED BY <1>1, <1>2, <1>3, Invariance, PTL DEF Spec
=============================================================================
