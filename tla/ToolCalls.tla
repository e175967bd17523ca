------------------------------- MODULE ToolCalls -------------------------------
(***************************************************************************)
(* Write tools at work (internal/tools): concurrent calls of one tool, each  *)
(* running its steps (ToolSteps) against InvenTree, which other users change *)
(* as well.  A request whose answer was lost may still arrive, while its call *)
(* runs or long after.                                                      *)
(*                                                                          *)
(* A behaviour is of one tool; what another tool would do to its records is  *)
(* what other users do.  Calls that send nothing leave no trace, so there may *)
(* be any number of them.                                                   *)
(***************************************************************************)
EXTENDS
  CatalogTools, DeletionTools, PurchasingTools, StockTools, RecordTools,
  BulkTools
LOCAL S == INSTANCE SequencesExt

CONSTANTS
  Calls,       \* calls that may be under way at once
  Records,     \* IDs of a kind
  MaxReviews,  \* bound of the model: dry runs that end in a confirmation offer
  MaxForeign   \* bound of the model: changes by other users

ASSUME CallsAssumption ==
  /\ Records \subseteq Nat \ {0} /\ 1 \in Records
  /\ {MaxReviews, MaxForeign} \subseteq Nat

VARIABLES
  tool,     \* the step sequence the calls go through
  world,    \* InvenTree: for each kind, the records by ID
  calls,    \* the calls, under way or ended
  reviews,  \* what dry runs showed and offered to confirm
  foreign,  \* changes other users have made
  harm,     \* history: a request hit a record its call could have known of
  drift     \* history: a confirmed request hit a record other than the one shown

vars == <<tool, world, calls, reviews, foreign, harm, drift>>

Contents == {"x", "y"}

Tools ==
  CatalogTools \cup setPartParameters \cup DeletionTools \cup PurchasingTools \cup
  AdministrationTools \cup StockTools \cup RecordTools \cup BulkTools

\* What a call leaves of its steps: before the first request, how a step fails makes
\* no difference, and a look at what is not told apart makes none at all.
Writing(step) == step.op \in {"create", "patch", "put", "delete", "split"}
Traced(program) ==
  S!FoldLeft(LAMBDA kept, step :
    IF Writing(step) \/ \E i \in DOMAIN kept : Writing(kept[i]) THEN Append(kept, step)
    ELSE IF step.op = "look" THEN kept ELSE Append(kept, [step EXCEPT !.on = Plainly]),
    <<>>, program)
Traces == {Traced(program) : program \in Tools}
BarcodeTraces == {Traced(program) : program \in assignBarcode}
BareTraces ==
  {Traced(program) : program \in setPartParameters \cup issuePurchaseOrder \cup BareReadBacks}

Kinds == {"own"} \cup UNION {{tool[i].kind} \cup tool[i].apart :
                               i \in DOMAIN tool}
Ops == {tool[i].op : i \in DOMAIN tool}
Planned == Ops \cap {"hash", "token"} # {}
Previewed == Planned \/ "flag" \in Ops

Live(w, kind) == {r \in Records : w[kind][r] \in Contents}

\* A call: where it is, what it is to write, the record it is about, how it read
\* that one, which records like the one to come it found, what has been there
\* unchanged since it began, the review it confirms, its requests.
Idle == [pc |-> 0, dry |-> FALSE, want |-> "x", target |-> <<>>, seen |-> <<>>, known |-> {},
         there |-> {}, review |-> 0, sent |-> <<>>, outcome |-> "none"]

Init ==
  /\ tool \in Traces
  /\ world \in [Kinds -> [Records -> {"none", "x"}]]
  /\ \A kind \in Kinds, r \in Records :
       world[kind][r] = "x" => \A q \in Records : q < r => world[kind][q] = "x"
  /\ calls = [c \in Calls |-> Idle]
  /\ reviews = <<>> /\ foreign = 0 /\ harm = FALSE /\ drift = FALSE

-----------------------------------------------------------------------------
(* InvenTree.                                                               *)

Unused(w, kind) == {r \in Records : w[kind][r] = "none"}
Vacant(w, kind) == CHOOSE r \in Unused(w, kind) : \A q \in Unused(w, kind) : r <= q
CanLand(w, e) ==
  /\ e.op # "create" => e.target \in Live(w, e.kind)
  /\ e.op = "create" => Unused(w, e.kind) # {}
  /\ e.op = "split" => Unused(w, "related") # {}
Landing(w, e) == IF e.op = "create" THEN Vacant(w, e.kind) ELSE e.target
Landed(w, e, want) ==
  LET changed == [w EXCEPT ![e.kind][Landing(w, e)] = IF e.op = "delete" THEN "gone" ELSE want]
  IN IF e.op = "split" THEN [changed EXCEPT !["related"][Vacant(w, "related")] = want] ELSE changed

\* What a request is for has come about; of a split, for the record split; of one
\* that updates or creates, for any record.
Holds(w, e, want) ==
  \/ (e.op = "create" \/ e.upsert) /\ \E r \in Records : w[e.kind][r] = want
  \/ e.op \in {"patch", "split"} /\ ~e.upsert /\ w[e.kind][e.target] = want
  \/ e.op = "delete" /\ e.target \notin Live(w, e.kind)

\* A request lands next to a record it must not meet, and which has been there
\* since its call began.
Harmful(call, e) ==
  \E kind \in e.apart, r \in Records :
    <<kind, r>> \in call.there /\ <<kind, r>> # <<e.kind, e.target>>

\* A confirmed request lands on a record that has been other than the one shown
\* since its call began.
Drifted(call, e) ==
  /\ call.review # 0 /\ <<e.kind, e.target>> \in call.there
  /\ world[e.kind][e.target] # reviews[call.review].seen[e.kind]

\* A request of a call takes effect.
Lands(call, e) ==
  /\ CanLand(world, e) /\ world' = Landed(world, e, call.want)
  /\ harm' = (harm \/ Harmful(call, e))
  /\ drift' = (drift \/ Drifted(call, e))

\* The calls once the world is `w`: what each request is for may hold now, and less
\* may be as it was.
Observed(e, w, want) == [e EXCEPT !.held = @ \/ (e.status # "void" /\ Holds(w, e, want))]
Witnessed(cs, w) ==
  [c \in Calls |-> [cs[c] EXCEPT
     !.there = {kr \in @ : w[kr[1]][kr[2]] = world[kr[1]][kr[2]]},
     !.sent = [i \in DOMAIN @ |-> Observed(@[i], w, cs[c].want)]]]

-----------------------------------------------------------------------------
(* A call.                                                                  *)

Now(c) == tool[calls[c].pc]
Running(c) == calls[c].pc # 0 /\ calls[c].outcome = "none"

\* The call answers.  Without a request it leaves nothing behind.
Flying(call) == \E i \in DOMAIN call.sent : call.sent[i].status = "flying"
Ended(call, outcome) ==
  IF call.sent = <<>> THEN Idle
  ELSE [call EXCEPT !.outcome = outcome, !.pc = 0, !.target = <<>>, !.seen = <<>>, !.known = {},
                    !.there = IF Flying(call) THEN @ ELSE {}]
Advanced(call) ==
  IF call.pc < Len(tool) THEN [call EXCEPT !.pc = @ + 1] ELSE Ended(call, "ok")

Becomes(c, call) ==
  /\ calls' = [calls EXCEPT ![c] = call]
  /\ UNCHANGED <<tool, world, foreign, harm, drift>>

Start(c, dry, want) ==
  /\ calls[c] = Idle /\ (dry => Previewed)
  /\ Becomes(c, [Idle EXCEPT !.pc = 1, !.dry = dry, !.want = want,
       !.target = [kind \in Kinds |-> 0], !.seen = [kind \in Kinds |-> "none"],
       !.there = UNION {{kind} \X Live(world, kind) : kind \in Kinds}])
  /\ UNCHANGED reviews

\* A read that went well: the record the call is about from then on, and how it
\* is, which counts for a review.
Noted(call, target) ==
  LET kind == tool[call.pc].kind IN
  [call EXCEPT !.target[kind] = target,
     !.seen[kind] = IF Planned /\ target # 0 THEN world[kind][target] ELSE @]

Read(c) ==
  LET step == Now(c)  call == calls[c]  mine == call.target[step.kind]
      others == Live(world, step.kind) \ {mine}
      Goes(target) == Becomes(c, Advanced(Noted(call, target)))
      Answers(outcome) == Becomes(c, Ended(call, outcome)) IN
  /\ Running(c)
  /\ step.op \in {"look", "name", "get", "settled", "free", "same", "one", "find", "known",
                 "differing"}
  /\ \/ \E event \in {"unfit", "failed"} : Answers(step.on[event])
     \/ step.op = "look" /\ (Answers(step.on.absent) \/ Becomes(c, Advanced(call)))
     \/ step.op = "name" /\ Goes(1)
     \/ step.op = "get" /\ 1 \in Live(world, step.kind) /\ Goes(1)
     \/ step.op \in {"get", "settled"} /\ 1 \notin Live(world, step.kind) /\ Answers(step.on.absent)
     \/ /\ step.op = "settled" /\ 1 \in Live(world, step.kind)
        /\ IF world[step.kind][1] = call.want THEN Answers("unchanged") ELSE Goes(1)
     \/ step.op \in {"free", "same", "find"} /\ others = {} /\ Goes(mine)
     \/ step.op \in {"one", "find"} /\ \E r \in others : others = {r} /\ Goes(r)
     \/ /\ step.op = "same" /\ \E r \in others : others = {r} /\ world[step.kind][r] = call.want
        /\ Answers("unchanged")
     \/ /\ step.op = "differing"
        /\ \E r \in others : others = {r} /\ world[step.kind][r] # call.want /\ Goes(r)
     \/ /\ step.op = "known"
        /\ LET alike == {r \in others : world[step.kind][r] = call.want}
           IN Becomes(c, Advanced([call EXCEPT !.known = alike]))
  /\ UNCHANGED reviews

\* A read that compares: the record is as it was read before, and for "still" not yet
\* as asked for; of a search, it is the only one found, or there is none as before.
Reread(c) ==
  LET step == Now(c)  call == calls[c]  mine == call.target[step.kind]
      found == Live(world, step.kind)
      as(r, content) == r \in found /\ world[step.kind][r] = content
      only(r) == found = {r}
      seen == call.seen[step.kind]  news == seen # call.want IN
  /\ Running(c) /\ step.op \in {"still", "intact", "again"}
  /\ \/ \E event \in {"unfit", "failed"} : Becomes(c, Ended(call, step.on[event]))
     \/ /\ \/ step.op = "intact" /\ as(mine, seen)
           \/ step.op = "still" /\ as(mine, seen) /\ news
           \/ step.op = "again" /\ only(mine) /\ as(mine, seen) /\ news
           \/ step.op = "again" /\ mine = 0 /\ found = {}
        /\ Becomes(c, Advanced(call))
     \/ /\ \/ step.op = "still" /\ as(mine, call.want)
           \/ step.op = "again" /\ \E r \in found : only(r) /\ as(r, call.want)
        /\ Becomes(c, Ended(call, "unchanged"))
  /\ UNCHANGED reviews

\* Forgets what was read.
SameWrite(call, review) == call.want = review.want

\* What a confirmation is compared with: what a dry run showed.
AsReviewed(call, review) ==
  call.want = review.want /\ call.seen = review.seen /\ call.known = review.known

Confirm(c) ==
  LET step == Now(c)  call == calls[c] IN
  /\ Running(c) /\ step.op \in {"flag", "hash", "token"}
  /\ IF call.dry
     THEN /\ Becomes(c, Ended(call, "preview"))
          /\ IF step.op = "flag" \/ Len(reviews) = MaxReviews THEN UNCHANGED reviews
             ELSE reviews' = Append(reviews, [want |-> call.want, seen |-> call.seen,
                                                 known |-> call.known, open |-> TRUE])
     ELSE IF step.op = "flag" THEN Becomes(c, Advanced(call)) /\ UNCHANGED reviews
     ELSE \/ \E n \in DOMAIN reviews :
               /\ reviews[n].open /\ AsReviewed(call, reviews[n])
               /\ Becomes(c, Advanced([call EXCEPT !.review = n]))
               /\ reviews' = [reviews EXCEPT ![n].open = step.op # "token"]
          \/ Becomes(c, Ended(call, step.on.unfit)) /\ UNCHANGED reviews

\* The request a writing step sends, and what becomes of it.
Fate(answer) ==
  IF answer = "acked" THEN answer
  ELSE IF answer \in {"pacing", "timeout", "failure"} THEN "flying" ELSE "void"
Request(step, target, answer) ==
  [op |-> IF step.op # "put" THEN step.op ELSE IF target = 0 THEN "create" ELSE "patch",
   kind |-> step.kind, target |-> target, apart |-> step.apart,
   upsert |-> step.op = "put", held |-> FALSE,
   status |-> Fate(answer)]

Send(c, answer) ==
  LET step == Now(c)  call == calls[c]
      e == Request(step, call.target[step.kind], answer)
      after == [call EXCEPT !.sent = Append(@, e)] IN
  /\ Running(c) /\ Writing(step)
  /\ IF answer = "acked"
     THEN /\ Lands(call, e)
          /\ calls' = Witnessed([calls EXCEPT ![c] =
               Advanced([after EXCEPT !.target[step.kind] = Landing(world, e)])], world')
     ELSE /\ calls' = Witnessed([calls EXCEPT ![c] =
               IF step.on[answer] = "verify" THEN Advanced(after)
               ELSE Ended(after, step.on[answer])], world)
          /\ UNCHANGED <<world, harm, drift>>
  /\ UNCHANGED <<tool, reviews, foreign>>

\* A request whose answer was lost arrives.
Land(c, i) ==
  LET e == calls[c].sent[i] IN
  /\ e.status = "flying" /\ Lands(calls[c], e)
  /\ calls' = Witnessed([calls EXCEPT ![c].sent[i].status = "landed"], world')
  /\ UNCHANGED <<tool, reviews, foreign>>

\* The records that pass for the one written: that one, or, if the answer did not
\* name it, the only one there; the only one besides those known.
AsAsked(kind, target, want) ==
  {r \in Records :
     world[kind][r] = want /\ (IF target # 0 THEN r = target ELSE Live(world, kind) = {r})}
Fresh(kind, known, want) ==
  LET fresh == {r \in Records \ known : world[kind][r] = want} IN {r \in fresh : fresh = {r}}

Check(c) ==
  LET step == Now(c)  call == calls[c]  mine == call.target[step.kind] IN
  /\ Running(c) /\ step.op \in {"exists", "matches", "absent", "fresh", "alone"}
  /\ \/ \E event \in {"unfit", "failed", "timeout"} : Becomes(c, Ended(call, step.on[event]))
     \/ \E r \in CASE step.op = "exists" -> {mine} \cap Live(world, step.kind)
                 [] step.op = "matches" -> AsAsked(step.kind, mine, call.want)
                 [] step.op = "alone" -> AsAsked(step.kind, 0, call.want)
                 [] step.op = "absent" -> {mine} \ Live(world, step.kind)
                 [] step.op = "fresh" -> Fresh(step.kind, call.known, call.want) :
          Becomes(c, Advanced([call EXCEPT !.target[step.kind] = r]))
  /\ UNCHANGED reviews

\* Another user adds, changes or deletes a record.
Foreign(kind, r, to) ==
  /\ foreign < MaxForeign /\ foreign' = foreign + 1 /\ kind \in Kinds
  /\ \/ world[kind][r] = "none" /\ to \in Contents /\ \A q \in Records : q < r => world[kind][q] # "none"
     \/ world[kind][r] \in Contents /\ to \in (Contents \cup {"gone"}) \ {world[kind][r]}
  /\ world' = [world EXCEPT ![kind][r] = to]
  /\ calls' = Witnessed(calls, world')
  /\ UNCHANGED <<tool, reviews, harm, drift>>

Answers == {"acked", "refused", "absent", "definite", "pacing", "timeout", "failure"}

Next ==
  \/ \E c \in Calls :
       \/ \E dry \in BOOLEAN, want \in Contents : Start(c, dry, want)
       \/ Read(c)
       \/ Reread(c)
       \/ Confirm(c)
       \/ \E answer \in Answers : Send(c, answer)
       \/ \E i \in DOMAIN calls[c].sent : Land(c, i)
       \/ Check(c)
  \/ \E kind \in Kinds, r \in Records, to \in Contents \cup {"gone"} : Foreign(kind, r, to)

Spec == Init /\ [][Next]_vars

-----------------------------------------------------------------------------
(* The discipline of the tools: in which order their steps come.              *)

\* A step that leaves the record of a kind which the call is about as it is, and all
\* the steps from i to j.
Keeps(step, kind) ==
  \/ step.kind # kind
  \/ step.op \in {"look", "flag", "hash", "token", "known", "still", "intact", "again",
                 "exists", "absent", "free", "same"}
Kept(p, i, j, kind) == \A k \in i..j : Keeps(p[k], kind)

\* A step that says which record it is, that there is no other, that it is gone; that
\* holds what was read against a review; that decides what became of a write.
Names(step, kind) ==
  step.kind = kind /\ step.op \in {"name", "get", "settled", "one", "differing"}
Clears(p, i, kind) ==
  /\ p[i].kind = kind
  /\ \/ p[i].op \in {"free", "same", "again"}
     \/ p[i].op = "find" /\ Kept(p, 1, i - 1, kind)
Empties(step, kind) == step.kind = kind /\ step.op = "absent"
Confirms(step) == step.op \in {"hash", "token"}
Settles(step, write) ==
  /\ step.kind = write.kind
  /\ \/ write.op \in {"create", "put"} /\ step.op \in {"matches", "alone"}
     \/ write.op \in {"patch", "split"} /\ step.op = "matches"
     \/ write.op = "delete" /\ step.op = "absent"

ToolStep ==
  [op : {"look", "name", "get", "settled", "free", "same", "one", "find", "known", "differing",
         "still", "intact", "again", "flag", "hash", "token", "create", "patch", "put", "delete",
         "split", "exists", "matches", "absent", "fresh", "alone"},
   kind : {"own", "related"}, apart : SUBSET {"own", "related"},
   on : [DOMAIN Plainly -> {"refused", "error", "deadline", "partial", "verify"}]]
Program(p) == p # <<>> /\ p \in Seq(ToolStep)

\* What is written over is named, and what must not be beside it was looked for.
WritesWhatItRead(p) ==
  \A k \in DOMAIN p : Writing(p[k]) =>
    /\ p[k].op \in {"patch", "delete", "split"} =>
         \E i \in 1..(k - 1) : Names(p[i], p[k].kind) /\ Kept(p, i + 1, k - 1, p[k].kind)
    /\ \A kind \in p[k].apart :
         /\ \E i \in 1..(k - 1) : Clears(p, i, kind) /\ Kept(p, i + 1, k - 1, kind)
         /\ \/ kind = p[k].kind \/ Kept(p, 1, k - 1, kind)
            \/ \E i \in 1..(k - 1) : Empties(p[i], kind) /\ Kept(p, i + 1, k - 1, kind)

\* Where something is confirmed, every write comes after, over the record confirmed.
WritesWhatWasShown(p) ==
  /\ \A i, k \in DOMAIN p : Confirms(p[i]) /\ Writing(p[k]) =>
       \E j \in 1..(k - 1) : Confirms(p[j]) /\ Kept(p, j + 1, k - 1, p[k].kind)
  /\ \A i, k \in DOMAIN p : Confirms(p[i]) /\ k < i =>
       ~Writing(p[k]) /\ p[k].op \notin {"matches", "alone", "fresh"}
  /\ \A i, k \in DOMAIN p : ~(p[i].op = "hash" /\ p[k].op = "token")

\* An answer that leaves a write open is not told as a refusal, one that does not is
\* believed; what is to be verified is.
SettlesWhatIsOpen(p) ==
  \A k \in DOMAIN p : Writing(p[k]) =>
    /\ \A answer \in {"refused", "absent", "definite"} : p[k].on[answer] # "verify"
    /\ \A answer \in {"pacing", "timeout", "failure"} :
         /\ p[k].on[answer] # "refused"
         /\ p[k].on[answer] = "verify" /\ p \notin BarcodeTraces =>
              \E m \in (k + 1)..Len(p) :
                Settles(p[m], p[k]) /\ Kept(p, k + 1, m - 1, p[k].kind)

\* After a write nothing is told as if it had not been made.
OwnsUp(p) ==
  \A i, k \in DOMAIN p : Writing(p[i]) /\ i < k =>
    /\ p[k].op \notin {"settled", "same", "still", "again"}
    /\ \A event \in DOMAIN Plainly :
         /\ p[k].on[event] # "refused"
         /\ p \notin BareTraces => p[k].on[event] # "error"

Disciplined(p) ==
  /\ Program(p)
  /\ WritesWhatItRead(p) /\ WritesWhatWasShown(p) /\ SettlesWhatIsOpen(p) /\ OwnsUp(p)
DisciplinedTraces == {p \in Traces : Disciplined(p)}

-----------------------------------------------------------------------------
(* Properties.                                                              *)

\* Every tool keeps the discipline the other properties rest on: it reads what it
\* writes over and what must not stand beside it, writes what was confirmed, settles
\* what an answer left open and owns up to its writes, in this order.
ToolsAreDisciplined == tool \in DisciplinedTraces

\* A call that reports success did what it was asked: at some instant after it
\* sent each of its requests, what the request was for held, also where the
\* answer was lost and a read decided.  The exception is assign_barcode, which
\* reads back that there is a barcode, if only the one there was before.
OkWasReal ==
  tool \notin BarcodeTraces => \A c \in Calls : calls[c].outcome = "ok" =>
    \A i \in DOMAIN calls[c].sent : calls[c].sent[i].held

\* No answer hides a request.  After a clarification, not_found or validation failure
\* none has taken effect or still may.  A write InvenTree accepted is not answered with
\* a mere error; the exceptions are set_part_parameters, whose second parameter may fail
\* after the first is stored, and the tools that pass on the error of the reading after
\* the write.
AnswersOwnUp ==
  \A c \in Calls : \A i \in DOMAIN calls[c].sent :
    LET status == calls[c].sent[i].status IN
    /\ calls[c].outcome \in {"refused", "unchanged"} => status = "void"
    /\ calls[c].outcome = "error" /\ tool \notin BareTraces => status # "acked"

\* No duplicate of a record that was there when the call began is created, and
\* no record is deleted under one that hung on it then: what slips through came
\* after the call had begun.
HarmOnlyInWindow == ~harm

\* A confirmed call writes what a dry run showed, over the record as it was shown
\* unless that one changed after the call had begun; a token is good for one call.
WritesWithinReviews ==
  /\ ~drift
  /\ Planned => \A c \in Calls : calls[c].sent # <<>> =>
       /\ calls[c].review \in DOMAIN reviews
       /\ reviews[calls[c].review].want = calls[c].want
       /\ "token" \in Ops => \A d \in Calls \ {c} : calls[d].review # calls[c].review

\* What the deletion tool's comments say of every ambiguous failure: a timeout is
\* settled by a read, never passed on as an error while the request is on its way.
TimeoutsAreVerified ==
  \A c \in Calls : calls[c].outcome = "deadline" =>
    \A i \in DOMAIN calls[c].sent : calls[c].sent[i].status = "void"
=============================================================================
