---------------------------- MODULE ToolCallsProofs ----------------------------
(***************************************************************************)
(* What ToolCalls promises of every tool whose steps come in the order of      *)
(* Disciplined, for any number of calls, records and changes by others.        *)
(*                                                                          *)
(* The inductive invariant says of each call what it knows: of its requests,   *)
(* that none is next to a record that was there all along, that none is over   *)
(* one that was and is not as reviewed, and that each holds, or is still to be  *)
(* settled; of the step it is at, what the steps before have established about *)
(* the records it is about.                                                   *)
(***************************************************************************)
EXTENDS ToolCalls, SequenceTheorems, WellFoundedInduction, TLAPS

-----------------------------------------------------------------------------
(* The values of the variables, for the step sequence p.                      *)

KindsOf(p) == {"own"} \cup UNION {{p[i].kind} \cup p[i].apart : i \in DOMAIN p}
IsPlanned(p) == \E i \in DOMAIN p : Confirms(p[i])
HasToken(p) == \E i \in DOMAIN p : p[i].op = "token"

Content == Contents \cup {"none", "gone"}
Target == Records \cup {0}
Worlds(p) == [KindsOf(p) -> [Records -> Content]]
Requests(p) ==
  [op : {"create", "patch", "delete", "split"}, kind : KindsOf(p), target : Target,
   apart : SUBSET KindsOf(p), upsert : BOOLEAN, held : BOOLEAN,
   status : {"acked", "flying", "void", "landed"}]
Reviews(p) ==
  [want : Contents, seen : [KindsOf(p) -> Content], known : SUBSET Records, open : BOOLEAN]
Outcomes == {"none", "ok", "refused", "unchanged", "error", "deadline", "partial", "preview",
             "verify"}
CallsOf(p) ==
  [pc : 0..Len(p), dry : BOOLEAN, want : Contents,
   target : {<<>>} \cup [KindsOf(p) -> Target], seen : {<<>>} \cup [KindsOf(p) -> Content],
   known : SUBSET Records, there : SUBSET (KindsOf(p) \X Records), review : Nat,
   sent : Seq(Requests(p)), outcome : Outcomes]

-----------------------------------------------------------------------------
(* The invariant.                                                            *)

\* A request stands clear of what was there all along, and is over nothing that was
\* and is not as reviewed.
Reviewed(w, rs, call, kind, r) ==
  call.review # 0 /\ <<kind, r>> \in call.there => w[kind][r] = rs[call.review].seen[kind]
SafeRequest(w, rs, call, e) == ~Harmful(call, e) /\ Reviewed(w, rs, call, e.kind, e.target)
SafeRequests(w, rs, call) ==
  \A i \in DOMAIN call.sent : SafeRequest(w, rs, call, call.sent[i])

\* What a request is for is noticed when it holds.
AllNoticed(w, call) ==
  \A i \in DOMAIN call.sent :
    call.sent[i].status # "void" /\ Holds(w, call.sent[i], call.want) => call.sent[i].held

ThereIsLive(w, call) ==
  \A kind, r : <<kind, r>> \in call.there => w[kind][r] \in Contents

ReviewStands(p, rs, call) ==
  /\ call.review # 0 =>
       /\ IsPlanned(p) /\ call.review \in DOMAIN rs /\ rs[call.review].want = call.want
       /\ HasToken(p) => ~rs[call.review].open
  /\ IsPlanned(p) /\ call.sent # <<>> => call.review # 0

OutcomeTrue(p, call) ==
  /\ call.outcome # "none" => call.pc = 0
  /\ call.outcome \in {"refused", "unchanged"} =>
       \A i \in DOMAIN call.sent : call.sent[i].status = "void"
  /\ call.outcome = "error" /\ p \notin BareTraces =>
       \A i \in DOMAIN call.sent : call.sent[i].status # "acked"
  /\ call.outcome = "ok" /\ p \notin BarcodeTraces =>
       \A i \in DOMAIN call.sent : call.sent[i].held

\* What step k has established about the record of a kind.
Established(w, rs, p, call, k, kind) ==
  /\ Names(p[k], kind) => call.target[kind] \in Records
  /\ Clears(p, k, kind) =>
       \A r \in Records : <<kind, r>> \in call.there => r = call.target[kind]
  /\ Empties(p[k], kind) => <<kind, call.target[kind]>> \notin call.there
  /\ Confirms(p[k]) => call.review # 0 /\ Reviewed(w, rs, call, kind, call.target[kind])

\* No step before n writes, or takes another record for the one read.
Early(p, n) ==
  \A k \in 1..(n - 1) : ~Writing(p[k]) /\ p[k].op \notin {"matches", "alone", "fresh"}

\* Before step n: what is known of the records the call is about.
Placed(w, rs, p, call, n) ==
  /\ call.outcome = "none"
  /\ call.target \in [KindsOf(p) -> Target] /\ call.seen \in [KindsOf(p) -> Content]
  /\ call.sent # <<>> => \E k \in 1..(n - 1) : Writing(p[k])
  /\ \A kind \in KindsOf(p) : Kept(p, 1, n - 1, kind) => call.target[kind] = 0
  /\ \A kind \in KindsOf(p), k \in 1..(n - 1) :
       Kept(p, k + 1, n - 1, kind) => Established(w, rs, p, call, k, kind)
  /\ IsPlanned(p) /\ Early(p, n) =>
       \A kind \in KindsOf(p) : <<kind, call.target[kind]>> \in call.there =>
         call.seen[kind] = w[kind][call.target[kind]]

\* The step that settles request e is still to come.
Decides(step, e) ==
  /\ step.kind = e.kind
  /\ \/ (e.op = "create" \/ e.upsert) /\ step.op \in {"matches", "alone"}
     \/ e.op \in {"patch", "split"} /\ ~e.upsert /\ step.op = "matches" /\ e.target \in Records
     \/ e.op = "delete" /\ step.op = "absent"
Awaits(p, call, e, n) ==
  /\ e.status = "flying" /\ call.target[e.kind] = e.target
  /\ \E m \in n..Len(p) : Decides(p[m], e) /\ Kept(p, n, m - 1, e.kind)
AllSettled(p, call, n) ==
  p \notin BarcodeTraces =>
    \A i \in DOMAIN call.sent : call.sent[i].held \/ Awaits(p, call, call.sent[i], n)

CallOK(w, rs, p, call) ==
  /\ call \in CallsOf(p)
  /\ SafeRequests(w, rs, call) /\ AllNoticed(w, call) /\ ThereIsLive(w, call)
  /\ ReviewStands(p, rs, call) /\ OutcomeTrue(p, call)
  /\ call.pc # 0 => Placed(w, rs, p, call, call.pc) /\ AllSettled(p, call, call.pc)

TypeOK ==
  /\ Disciplined(tool) /\ world \in Worlds(tool) /\ reviews \in Seq(Reviews(tool))
  /\ DOMAIN calls = Calls
TokensOnce ==
  HasToken(tool) => \A c \in Calls : calls[c].review # 0 =>
    \A d \in Calls \ {c} : calls[d].review # calls[c].review

IInv ==
  /\ TypeOK /\ TokensOnce /\ ~harm /\ ~drift
  /\ \A c \in Calls : CallOK(world, reviews, tool, calls[c])

-----------------------------------------------------------------------------
(* Steps, kinds and requests.                                                 *)

\* A step of a program has a kind, an operation and answers of the model.
LEMMA StepTyped ==
  ASSUME NEW p, Program(p), NEW k \in DOMAIN p
  PROVE  /\ k \in 1..Len(p) /\ Len(p) \in Nat \ {0}
         /\ p[k].kind \in KindsOf(p) /\ p[k].apart \subseteq KindsOf(p)
         /\ p[k].on \in [DOMAIN Plainly -> {"refused", "error", "deadline", "partial", "verify"}]
<1>1. p \in Seq(ToolStep) /\ p # <<>>
  BY DEF Program
<1>2. k \in 1..Len(p) /\ Len(p) \in Nat \ {0}
  BY <1>1, EmptySeq
<1>3. p[k] \in ToolStep
  BY <1>1, <1>2
<1>4. p[k].on \in [DOMAIN Plainly -> {"refused", "error", "deadline", "partial", "verify"}]
  BY <1>3 DEF ToolStep
<1> QED
  BY <1>2, <1>4 DEF KindsOf

\* The events a step has an answer for.
LEMMA Events ==
  DOMAIN Plainly = {"absent", "unfit", "failed", "refused", "definite", "pacing", "timeout",
                    "failure"}
BY DEF Plainly

\* What the module says of the program of a behaviour, said of any program.
LEMMA OfTool ==
  /\ Kinds = KindsOf(tool)
  /\ Planned <=> IsPlanned(tool)
  /\ "token" \in Ops <=> HasToken(tool)
<1>1. Kinds = KindsOf(tool)
  BY DEF Kinds, KindsOf
<1>2. Planned <=> IsPlanned(tool)
  BY DEF Planned, Ops, IsPlanned, Confirms
<1>3. "token" \in Ops <=> HasToken(tool)
  BY DEF Ops, HasToken
<1> QED
  BY <1>1, <1>2, <1>3

\* The record a creation takes was not there before.
LEMMA VacantIsUnused ==
  ASSUME NEW w, NEW kind, Unused(w, kind) # {}
  PROVE  Vacant(w, kind) \in Unused(w, kind)
<1>1. Unused(w, kind) \subseteq Nat
  BY CallsAssumption DEF Unused
<1>2. PICK r \in Unused(w, kind) : \A q \in Unused(w, kind) : ~(<<q, r>> \in OpToRel(<, Nat))
  BY <1>1, WFMin, NatLessThanWellFounded
<1>3. \A q \in Unused(w, kind) : r <= q
  <2>1. SUFFICES ASSUME NEW q \in Unused(w, kind), q < r PROVE FALSE
    BY <1>1
  <2>2. <<q, r>> \in OpToRel(<, Nat)
    BY <1>1, <2>1 DEF OpToRel
  <2> QED BY <1>2, <2>2
<1> QED
  BY <1>3 DEF Vacant

\* The fields of a call.
LEMMA CallFields ==
  ASSUME NEW p, NEW call \in CallsOf(p)
  PROVE  /\ call.pc \in 0..Len(p) /\ call.dry \in BOOLEAN /\ call.want \in Contents
         /\ call.target \in {<<>>} \cup [KindsOf(p) -> Target]
         /\ call.seen \in {<<>>} \cup [KindsOf(p) -> Content]
         /\ call.known \in SUBSET Records /\ call.there \in SUBSET (KindsOf(p) \X Records)
         /\ call.review \in Nat /\ call.sent \in Seq(Requests(p)) /\ call.outcome \in Outcomes
BY DEF CallsOf

\* A call at another step of its tool is still a call.
LEMMA AtAnotherStep ==
  ASSUME NEW p, NEW call \in CallsOf(p), NEW n \in 0..Len(p)
  PROVE  [call EXCEPT !.pc = n] \in CallsOf(p)
BY DEF CallsOf

LEMMA SentFields ==
  ASSUME NEW p, NEW call \in CallsOf(p), NEW i \in DOMAIN call.sent
  PROVE  /\ i \in 1..Len(call.sent) /\ call.sent[i] \in Requests(p)
         /\ call.sent[i].op \in {"create", "patch", "delete", "split"}
         /\ call.sent[i].kind \in KindsOf(p) /\ call.sent[i].target \in Target
         /\ call.sent[i].apart \subseteq KindsOf(p)
         /\ call.sent[i].upsert \in BOOLEAN /\ call.sent[i].held \in BOOLEAN
         /\ call.sent[i].status \in {"acked", "flying", "void", "landed"}
<1>1. call.sent \in Seq(Requests(p))
  BY DEF CallsOf
<1>2. i \in 1..Len(call.sent) /\ call.sent[i] \in Requests(p)
  BY <1>1
<1> QED
  BY <1>2 DEF Requests

-----------------------------------------------------------------------------
(* A call when the world turns from v to w.                                   *)

Witness(call, v, w) ==
  [call EXCEPT
     !.there = {kr \in @ : w[kr[1]][kr[2]] = v[kr[1]][kr[2]]},
     !.sent = [i \in DOMAIN @ |-> Observed(@[i], w, call.want)]]

LEMMA WitnessedIs ==
  ASSUME NEW cs, NEW w, NEW c \in Calls
  PROVE  Witnessed(cs, w)[c] = Witness(cs[c], world, w) /\ DOMAIN Witnessed(cs, w) = Calls
BY DEF Witnessed, Witness

\* Only there and sent change, and of what is sent only what holds.
LEMMA WitnessFields ==
  ASSUME NEW p, NEW call \in CallsOf(p), NEW v, NEW w
  PROVE  LET then == Witness(call, v, w) IN
         /\ then \in CallsOf(p)
         /\ then.pc = call.pc /\ then.dry = call.dry /\ then.want = call.want
         /\ then.target = call.target /\ then.seen = call.seen /\ then.known = call.known
         /\ then.review = call.review /\ then.outcome = call.outcome
         /\ then.there = {kr \in call.there : w[kr[1]][kr[2]] = v[kr[1]][kr[2]]}
         /\ DOMAIN then.sent = DOMAIN call.sent /\ Len(then.sent) = Len(call.sent)
         /\ then.sent = <<>> <=> call.sent = <<>>
         /\ \A i \in DOMAIN call.sent :
              /\ then.sent[i].op = call.sent[i].op /\ then.sent[i].kind = call.sent[i].kind
              /\ then.sent[i].target = call.sent[i].target
              /\ then.sent[i].apart = call.sent[i].apart
              /\ then.sent[i].upsert = call.sent[i].upsert
              /\ then.sent[i].status = call.sent[i].status
              /\ then.sent[i].held <=> \/ call.sent[i].held
                                       \/ /\ call.sent[i].status # "void"
                                          /\ Holds(w, call.sent[i], call.want)
<1> DEFINE then == Witness(call, v, w)
           kept == {kr \in call.there : w[kr[1]][kr[2]] = v[kr[1]][kr[2]]}
           news(i) == call.sent[i].held \/ (call.sent[i].status # "void"
                                              /\ Holds(w, call.sent[i], call.want))
           sent == [i \in DOMAIN call.sent |-> Observed(call.sent[i], w, call.want)]
<1>1. then = [call EXCEPT !.there = kept, !.sent = sent]
  BY DEF Witness
<1>2. call.sent \in Seq(Requests(p)) /\ call.there \in SUBSET (KindsOf(p) \X Records)
  BY CallFields
<1>3. \A i \in DOMAIN call.sent : news(i) \in BOOLEAN
  OBVIOUS
<1>4. DOMAIN call = {"pc", "dry", "want", "target", "seen", "known", "there", "review", "sent",
                     "outcome"}
  BY DEF CallsOf
<1> HIDE DEF news
<1>5. ASSUME NEW i \in DOMAIN call.sent
      PROVE  /\ sent[i] \in Requests(p)
             /\ sent[i].op = call.sent[i].op /\ sent[i].kind = call.sent[i].kind
             /\ sent[i].target = call.sent[i].target /\ sent[i].apart = call.sent[i].apart
             /\ sent[i].upsert = call.sent[i].upsert /\ sent[i].status = call.sent[i].status
             /\ sent[i].held = news(i)
  <2>1. call.sent[i] \in Requests(p)
    BY <1>2
  <2>2. sent[i] = [call.sent[i] EXCEPT !.held = news(i)]
    BY DEF Observed, news
  <2> HIDE DEF sent
  <2> QED
    BY <1>3, <2>1, <2>2 DEF Requests
<1>6. DOMAIN sent = DOMAIN call.sent
  OBVIOUS
<1>7. sent \in Seq(Requests(p)) /\ Len(sent) = Len(call.sent) /\ DOMAIN sent = 1..Len(call.sent)
  <2>1. DOMAIN sent = 1..Len(call.sent) /\ Len(call.sent) \in Nat
    BY <1>2, <1>6
  <2>2. sent = [i \in 1..Len(call.sent) |-> sent[i]]
    BY <2>1
  <2> HIDE DEF sent
  <2>3. sent \in [1..Len(call.sent) -> Requests(p)]
    BY <1>5, <1>6, <2>1, <2>2
  <2> QED
    BY <2>1, <2>3
<1> HIDE DEF sent, kept
<1>8. then.sent = sent /\ then.there = kept
  BY <1>1, <1>4
<1>9. sent = <<>> <=> call.sent = <<>>
  BY <1>2, <1>7, EmptySeq
<1>10. /\ then.pc = call.pc /\ then.dry = call.dry /\ then.want = call.want
       /\ then.target = call.target /\ then.seen = call.seen /\ then.known = call.known
       /\ then.review = call.review /\ then.outcome = call.outcome
       /\ DOMAIN then = DOMAIN call
  BY <1>1, <1>4
<1>11. then \in CallsOf(p)
  <2>1. kept \in SUBSET (KindsOf(p) \X Records)
    BY <1>2 DEF kept
  <2> QED
    BY <1>1, <1>7, <2>1 DEF CallsOf
<1>12. \A i \in DOMAIN call.sent : sent[i].held <=>
         (call.sent[i].held \/ (call.sent[i].status # "void" /\ Holds(w, call.sent[i], call.want)))
  BY <1>5 DEF news
<1> HIDE DEF then
<1>13. then.there = {kr \in call.there : w[kr[1]][kr[2]] = v[kr[1]][kr[2]]}
  BY <1>8 DEF kept
<1>14. /\ DOMAIN then.sent = DOMAIN call.sent /\ Len(then.sent) = Len(call.sent)
       /\ then.sent = <<>> <=> call.sent = <<>>
  BY <1>6, <1>7, <1>8, <1>9
<1>15. \A i \in DOMAIN call.sent :
              /\ then.sent[i].op = call.sent[i].op /\ then.sent[i].kind = call.sent[i].kind
              /\ then.sent[i].target = call.sent[i].target
              /\ then.sent[i].apart = call.sent[i].apart
              /\ then.sent[i].upsert = call.sent[i].upsert
              /\ then.sent[i].status = call.sent[i].status
              /\ then.sent[i].held <=> \/ call.sent[i].held
                                       \/ /\ call.sent[i].status # "void"
                                          /\ Holds(w, call.sent[i], call.want)
  BY <1>5, <1>8, <1>12
<1> QED
  BY <1>10, <1>11, <1>13, <1>14, <1>15 DEF then

\* What still is as it was is as reviewed if it was; the rest is not there any more.
LEMMA RequestsMove ==
  ASSUME NEW p, NEW call \in CallsOf(p), NEW v, NEW w, NEW rs,
         SafeRequests(v, rs, call), ThereIsLive(v, call)
  PROVE  LET then == Witness(call, v, w) IN
         SafeRequests(w, rs, then) /\ AllNoticed(w, then) /\ ThereIsLive(w, then)
<1> DEFINE then == Witness(call, v, w)
<1>1. /\ then.there = {kr \in call.there : w[kr[1]][kr[2]] = v[kr[1]][kr[2]]}
      /\ then.review = call.review /\ then.want = call.want
      /\ DOMAIN then.sent = DOMAIN call.sent
      /\ \A i \in DOMAIN call.sent :
              /\ then.sent[i].op = call.sent[i].op /\ then.sent[i].kind = call.sent[i].kind
              /\ then.sent[i].target = call.sent[i].target
              /\ then.sent[i].apart = call.sent[i].apart
              /\ then.sent[i].upsert = call.sent[i].upsert
              /\ then.sent[i].status = call.sent[i].status
              /\ then.sent[i].held <=> \/ call.sent[i].held
                                       \/ /\ call.sent[i].status # "void"
                                          /\ Holds(w, call.sent[i], call.want)
  BY WitnessFields
<1> HIDE DEF then
<1>2. \A kind, r : <<kind, r>> \in then.there =>
         <<kind, r>> \in call.there /\ w[kind][r] = v[kind][r]
  BY <1>1
<1>3. ASSUME NEW i \in DOMAIN call.sent
      PROVE  /\ SafeRequest(w, rs, then, then.sent[i])
             /\ then.sent[i].status # "void" /\ Holds(w, then.sent[i], then.want)
                  => then.sent[i].held
  <2>1. SafeRequest(v, rs, call, call.sent[i])
    BY DEF SafeRequests
  <2>2. SafeRequest(w, rs, then, then.sent[i])
    <3> DEFINE e == call.sent[i]
               f == then.sent[i]
    <3>1. f.kind = e.kind /\ f.target = e.target /\ f.apart = e.apart
      BY <1>1
    <3> HIDE DEF e, f
    <3>2. ~Harmful(call, e) /\ Reviewed(v, rs, call, e.kind, e.target)
      BY <2>1 DEF SafeRequest, e
    <3>3. ~Harmful(then, f)
      BY <1>2, <3>1, <3>2 DEF Harmful
    <3>4. Reviewed(w, rs, then, f.kind, f.target)
      BY <1>1, <1>2, <3>1, <3>2 DEF Reviewed
    <3> QED
      BY <3>3, <3>4 DEF SafeRequest, f
  <2>3. Holds(w, then.sent[i], then.want) <=> Holds(w, call.sent[i], call.want)
    BY <1>1 DEF Holds
  <2> QED
    BY <1>1, <2>2, <2>3
<1>4. ThereIsLive(w, then)
  BY <1>2 DEF ThereIsLive
<1> QED
  BY <1>1, <1>3, <1>4 DEF SafeRequests, AllNoticed, then

LEMMA PlaceMoves ==
  ASSUME NEW p, NEW call \in CallsOf(p), NEW v, NEW w, NEW rs, NEW n,
         Placed(v, rs, p, call, n)
  PROVE  Placed(w, rs, p, Witness(call, v, w), n)
<1> DEFINE then == Witness(call, v, w)
<1>1. /\ then.there = {kr \in call.there : w[kr[1]][kr[2]] = v[kr[1]][kr[2]]}
      /\ then.review = call.review /\ then.target = call.target /\ then.seen = call.seen
      /\ then.outcome = call.outcome
      /\ then.sent = <<>> <=> call.sent = <<>>
  BY WitnessFields
<1> HIDE DEF then
<1>2. \A kind, r : <<kind, r>> \in then.there =>
         <<kind, r>> \in call.there /\ w[kind][r] = v[kind][r]
  BY <1>1
<1>3. ASSUME NEW kind \in KindsOf(p), NEW k \in 1..(n - 1),
             Established(v, rs, p, call, k, kind)
      PROVE  Established(w, rs, p, then, k, kind)
  BY <1>1, <1>2, <1>3 DEF Established, Reviewed
<1>4. \A kind \in KindsOf(p) : <<kind, then.target[kind]>> \in then.there =>
         <<kind, call.target[kind]>> \in call.there
           /\ w[kind][call.target[kind]] = v[kind][call.target[kind]]
  BY <1>1, <1>2
<1> QED
  BY <1>1, <1>3, <1>4 DEF Placed, then

LEMMA AwaitsMoves ==
  ASSUME NEW p, NEW call \in CallsOf(p), NEW v, NEW w, NEW n, NEW i \in DOMAIN call.sent,
         Awaits(p, call, call.sent[i], n)
  PROVE  Awaits(p, Witness(call, v, w), Witness(call, v, w).sent[i], n)
<1> DEFINE then == Witness(call, v, w)
<1>1. /\ then.target = call.target
      /\ then.sent[i].op = call.sent[i].op /\ then.sent[i].kind = call.sent[i].kind
      /\ then.sent[i].target = call.sent[i].target
      /\ then.sent[i].upsert = call.sent[i].upsert
      /\ then.sent[i].status = call.sent[i].status
  BY WitnessFields
<1> HIDE DEF then
<1>2. Awaits(p, then, then.sent[i], n)
  BY <1>1 DEF Awaits, Decides
<1> QED
  BY <1>2 DEF then

LEMMA SettledMoves ==
  ASSUME NEW p, NEW call \in CallsOf(p), NEW v, NEW w, NEW n, AllSettled(p, call, n)
  PROVE  AllSettled(p, Witness(call, v, w), n)
<1> DEFINE then == Witness(call, v, w)
<1>1. /\ DOMAIN then.sent = DOMAIN call.sent
      /\ \A i \in DOMAIN call.sent : call.sent[i].held => then.sent[i].held
  BY WitnessFields
<1>2. \A i \in DOMAIN call.sent :
        Awaits(p, call, call.sent[i], n) => Awaits(p, then, then.sent[i], n)
  BY AwaitsMoves
<1> HIDE DEF then
<1> QED
  BY <1>1, <1>2 DEF AllSettled, then

LEMMA CallMoves ==
  ASSUME NEW p, NEW call, NEW v, NEW w, NEW rs, CallOK(v, rs, p, call)
  PROVE  CallOK(w, rs, p, Witness(call, v, w))
<1> DEFINE then == Witness(call, v, w)
<1>1. call \in CallsOf(p)
  BY DEF CallOK
<1>2. /\ then \in CallsOf(p) /\ then.pc = call.pc /\ then.want = call.want
      /\ then.review = call.review /\ then.outcome = call.outcome
      /\ then.sent = <<>> <=> call.sent = <<>>
      /\ DOMAIN then.sent = DOMAIN call.sent
      /\ \A i \in DOMAIN call.sent : /\ then.sent[i].status = call.sent[i].status
                                     /\ call.sent[i].held => then.sent[i].held
  BY <1>1, WitnessFields
<1>3. SafeRequests(w, rs, then) /\ AllNoticed(w, then) /\ ThereIsLive(w, then)
  BY <1>1, RequestsMove DEF CallOK
<1>4. call.pc # 0 => Placed(w, rs, p, then, call.pc) /\ AllSettled(p, then, call.pc)
  BY <1>1, PlaceMoves, SettledMoves DEF CallOK
<1> HIDE DEF then
<1>5. ReviewStands(p, rs, then) /\ OutcomeTrue(p, then)
  BY <1>2 DEF CallOK, ReviewStands, OutcomeTrue
<1> QED
  BY <1>2, <1>3, <1>4, <1>5 DEF CallOK, then

-----------------------------------------------------------------------------
(* A call when there are more reviews.                                        *)

\* What was shown stays, and a token spent is not given back.
Grown(rs, later) ==
  \A n \in DOMAIN rs : /\ n \in DOMAIN later
                       /\ later[n].want = rs[n].want /\ later[n].seen = rs[n].seen
                       /\ later[n].open => rs[n].open

LEMMA CallKept ==
  ASSUME NEW p, NEW call, NEW w, NEW rs, NEW later, CallOK(w, rs, p, call), Grown(rs, later)
  PROVE  CallOK(w, later, p, call)
<1>1. call.review # 0 => call.review \in DOMAIN rs
  BY DEF CallOK, ReviewStands
<1>2. call.review # 0 => /\ call.review \in DOMAIN later
                         /\ later[call.review].want = rs[call.review].want
                         /\ later[call.review].seen = rs[call.review].seen
                         /\ later[call.review].open => rs[call.review].open
  BY <1>1 DEF Grown
<1>3. \A kind, r : Reviewed(w, rs, call, kind, r) => Reviewed(w, later, call, kind, r)
  BY <1>2 DEF Reviewed
<1>4. SafeRequests(w, later, call)
  BY <1>3 DEF CallOK, SafeRequests, SafeRequest
<1>5. ReviewStands(p, later, call)
  BY <1>2 DEF CallOK, ReviewStands
<1>6. call.pc # 0 => Placed(w, later, p, call, call.pc)
  BY <1>3 DEF CallOK, Placed, Established
<1> QED
  BY <1>4, <1>5, <1>6 DEF CallOK

-----------------------------------------------------------------------------
(* The end of a call.                                                         *)

LEMMA IdleOK ==
  ASSUME NEW p, Program(p), NEW w, NEW rs
  PROVE  CallOK(w, rs, p, Idle)
<1>1. Len(p) \in Nat
  BY DEF Program
<1>2. Idle \in CallsOf(p)
  BY <1>1 DEF Idle, CallsOf, Contents, Outcomes
<1>3. SafeRequests(w, rs, Idle) /\ AllNoticed(w, Idle) /\ ThereIsLive(w, Idle)
  BY DEF SafeRequests, AllNoticed, ThereIsLive, Idle
<1>4. ReviewStands(p, rs, Idle) /\ OutcomeTrue(p, Idle)
  BY DEF ReviewStands, OutcomeTrue, Idle
<1>5. Idle.pc = 0
  BY DEF Idle
<1> QED
  BY <1>2, <1>3, <1>4, <1>5 DEF CallOK

\* What an answer may be, after what was sent.
Truthful(p, call, outcome) ==
  /\ outcome \in {"refused", "unchanged"} =>
       \A i \in DOMAIN call.sent : call.sent[i].status = "void"
  /\ outcome = "error" /\ p \notin BareTraces =>
       \A i \in DOMAIN call.sent : call.sent[i].status # "acked"
  /\ outcome = "ok" /\ p \notin BarcodeTraces =>
       \A i \in DOMAIN call.sent : call.sent[i].held

\* What is known of the requests of a call.
Sound(w, rs, p, call) ==
  /\ call \in CallsOf(p)
  /\ SafeRequests(w, rs, call) /\ AllNoticed(w, call) /\ ThereIsLive(w, call)
  /\ ReviewStands(p, rs, call)

LEMMA EndedOK ==
  ASSUME NEW p, Program(p), NEW w, NEW rs, NEW call, Sound(w, rs, p, call),
         NEW outcome \in Outcomes \ {"none"}, Truthful(p, call, outcome)
  PROVE  CallOK(w, rs, p, Ended(call, outcome))
<1>1. CASE call.sent = <<>>
  BY <1>1, IdleOK DEF Ended
<1>2. CASE call.sent # <<>>
  <2> DEFINE then == Ended(call, outcome)
             there == IF Flying(call) THEN call.there ELSE {}
  <2>1. then = [call EXCEPT !.outcome = outcome, !.pc = 0, !.target = <<>>, !.seen = <<>>,
                            !.known = {}, !.there = there]
    BY <1>2 DEF Ended
  <2>2. there \subseteq call.there
    OBVIOUS
  <2> HIDE DEF there
  <2>3. /\ call \in CallsOf(p) /\ call.there \in SUBSET (KindsOf(p) \X Records)
        /\ DOMAIN call = {"pc", "dry", "want", "target", "seen", "known", "there", "review",
                          "sent", "outcome"}
    BY DEF Sound, CallsOf
  <2>4. /\ then.pc = 0 /\ then.outcome = outcome /\ then.there = there /\ then.want = call.want
        /\ then.review = call.review /\ then.sent = call.sent
    BY <2>1, <2>3
  <2>5. then \in CallsOf(p)
    <3>1. Len(p) \in Nat
      BY DEF Program
    <3>2. there \in SUBSET (KindsOf(p) \X Records)
      BY <2>2, <2>3
    <3>3. then = [pc |-> 0, dry |-> call.dry, want |-> call.want, target |-> <<>>, seen |-> <<>>,
                  known |-> {}, there |-> there, review |-> call.review, sent |-> call.sent,
                  outcome |-> outcome]
      BY <2>1, <2>3
    <3>4. call.dry \in BOOLEAN /\ call.want \in Contents /\ call.review \in Nat
          /\ call.sent \in Seq(Requests(p)) /\ {} \in SUBSET Records /\ 0 \in 0..Len(p)
      BY <2>3, <3>1 DEF CallsOf
    <3> QED
      BY <3>2, <3>3, <3>4 DEF CallsOf
  <2> HIDE DEF then
  <2>6. SafeRequests(w, rs, then)
    <3>1. ASSUME NEW i \in DOMAIN call.sent
          PROVE  SafeRequest(w, rs, then, call.sent[i])
      <4>1. SafeRequest(w, rs, call, call.sent[i])
        BY DEF Sound, SafeRequests
      <4>2. ~Harmful(then, call.sent[i])
        BY <2>2, <2>4, <4>1 DEF SafeRequest, Harmful
      <4>3. Reviewed(w, rs, then, call.sent[i].kind, call.sent[i].target)
        BY <2>2, <2>4, <4>1 DEF SafeRequest, Reviewed
      <4> QED
        BY <4>2, <4>3 DEF SafeRequest
    <3> QED
      BY <2>4, <3>1 DEF SafeRequests
  <2>7. AllNoticed(w, then) /\ ThereIsLive(w, then)
    BY <2>2, <2>4 DEF Sound, AllNoticed, ThereIsLive
  <2>8. ReviewStands(p, rs, then)
    BY <2>4 DEF Sound, ReviewStands
  <2>9. OutcomeTrue(p, then)
    BY <2>4 DEF OutcomeTrue, Truthful
  <2> QED
    BY <2>4, <2>5, <2>6, <2>7, <2>8, <2>9 DEF CallOK, then
<1> QED
  BY <1>1, <1>2

\* A call that is sound goes on to the next step, or ends with the last.
LEMMA AdvancedOK ==
  ASSUME Program(tool), NEW w, NEW rs, NEW call, Sound(w, rs, tool, call),
         call.pc \in DOMAIN tool, Placed(w, rs, tool, call, call.pc + 1),
         AllSettled(tool, call, call.pc + 1)
  PROVE  CallOK(w, rs, tool, Advanced(call))
<1>1. Len(tool) \in Nat /\ call.pc \in 1..Len(tool) /\ call \in CallsOf(tool)
  BY StepTyped DEF Sound
<1>2. CASE call.pc < Len(tool)
  <2> DEFINE then == [call EXCEPT !.pc = call.pc + 1]
  <2>1. Advanced(call) = then
    BY <1>2 DEF Advanced
  <2>2. DOMAIN call = {"pc", "dry", "want", "target", "seen", "known", "there", "review", "sent",
                       "outcome"}
    BY <1>1 DEF CallsOf
  <2>3. /\ then.pc = call.pc + 1 /\ then.outcome = call.outcome /\ then.there = call.there
        /\ then.want = call.want /\ then.review = call.review /\ then.sent = call.sent
        /\ then.target = call.target /\ then.seen = call.seen
    BY <2>2
  <2>4. then \in CallsOf(tool)
    <3>1. call.pc + 1 \in 0..Len(tool)
      BY <1>1, <1>2
    <3> QED
      BY <1>1, <3>1, AtAnotherStep
  <2> HIDE DEF then
  <2>5. SafeRequests(w, rs, then) /\ AllNoticed(w, then) /\ ThereIsLive(w, then)
    BY <2>3 DEF Sound, SafeRequests, SafeRequest, Harmful, Reviewed, AllNoticed, ThereIsLive
  <2>6. ReviewStands(tool, rs, then) /\ OutcomeTrue(tool, then)
    BY <2>3 DEF Sound, Placed, ReviewStands, OutcomeTrue
  <2>7. Placed(w, rs, tool, then, call.pc + 1)
    BY <2>3 DEF Placed, Established, Reviewed
  <2>8. AllSettled(tool, then, call.pc + 1)
    BY <2>3 DEF AllSettled, Awaits
  <2> QED
    BY <2>1, <2>3, <2>4, <2>5, <2>6, <2>7, <2>8 DEF CallOK
<1>3. CASE ~(call.pc < Len(tool))
  <2>1. Advanced(call) = Ended(call, "ok")
    BY <1>3 DEF Advanced
  <2>2. call.pc + 1 > Len(tool)
    BY <1>1, <1>3
  <2>3. ASSUME NEW i \in DOMAIN call.sent, tool \notin BarcodeTraces
        PROVE  call.sent[i].held
    BY <1>1, <2>2, <2>3 DEF AllSettled, Awaits
  <2>4. Truthful(tool, call, "ok")
    BY <2>3 DEF Truthful
  <2> QED
    BY <2>1, <2>4, EndedOK DEF Outcomes
<1> QED
  BY <1>2, <1>3

\* A step other than a write answers as Truthful asks.
LEMMA AnswersTruly ==
  ASSUME NEW p, Disciplined(p), NEW k \in DOMAIN p, NEW w, NEW rs, NEW call,
         Placed(w, rs, p, call, k), call \in CallsOf(p), NEW event \in DOMAIN Plainly
  PROVE  /\ p[k].on[event] \in Outcomes \ {"none"}
         /\ Truthful(p, call, p[k].on[event])
<1>1. /\ Program(p)
      /\ p[k].on[event] \in {"refused", "error", "deadline", "partial", "verify"}
      /\ k \in 1..Len(p) /\ Len(p) \in Nat
  BY StepTyped DEF Disciplined
<1>2. CASE call.sent = <<>>
  BY <1>1, <1>2 DEF Truthful, Outcomes
<1>3. CASE call.sent # <<>>
  <2>1. PICK i \in 1..(k - 1) : Writing(p[i])
    BY <1>3 DEF Placed
  <2>2. i \in DOMAIN p /\ i < k
    BY <1>1, <2>1 DEF Program
  <2>3. p[k].on[event] # "refused" /\ (p \notin BareTraces => p[k].on[event] # "error")
    BY <2>1, <2>2 DEF Disciplined, OwnsUp
  <2> QED
    BY <1>1, <2>3 DEF Truthful, Outcomes
<1> QED
  BY <1>2, <1>3

-----------------------------------------------------------------------------
(* From one step to the next.                                                 *)

\* The kinds a step keeps have the record they had.
Retains(p, n, call, next) ==
  \A kind \in KindsOf(p) : Keeps(p[n], kind) => next.target[kind] = call.target[kind]

\* A call that confirms nothing keeps its review; one that does has one that fits.
Confirmed(w, rs, p, call, next) ==
  \/ next.review = call.review
  \/ \A kind \in KindsOf(p) : next.review # 0 /\ Reviewed(w, rs, next, kind, next.target[kind])

LEMMA PlacedNext ==
  ASSUME NEW p, Program(p), NEW n \in DOMAIN p, NEW w, NEW rs, NEW call, NEW next,
         Placed(w, rs, p, call, n),
         next.outcome = "none", next.there = call.there,
         next.target \in [KindsOf(p) -> Target], next.seen \in [KindsOf(p) -> Content],
         next.sent # <<>> => call.sent # <<>> \/ Writing(p[n]),
         Retains(p, n, call, next), Confirmed(w, rs, p, call, next),
         \A kind \in KindsOf(p) : Established(w, rs, p, next, n, kind),
         IsPlanned(p) /\ Early(p, n + 1) =>
           \A kind \in KindsOf(p) : <<kind, next.target[kind]>> \in next.there =>
             next.seen[kind] = w[kind][next.target[kind]]
  PROVE  Placed(w, rs, p, next, n + 1)
<1>1. n \in 1..Len(p) /\ Len(p) \in Nat /\ n + 1 - 1 = n
  BY StepTyped
<1>2. next.sent # <<>> => \E k \in 1..n : Writing(p[k])
  BY <1>1 DEF Placed
<1>3. ASSUME NEW kind \in KindsOf(p), Kept(p, 1, n, kind)
      PROVE  next.target[kind] = 0
  <2>1. Kept(p, 1, n - 1, kind) /\ Keeps(p[n], kind)
    BY <1>1, <1>3 DEF Kept
  <2> QED
    BY <2>1 DEF Placed, Retains
<1>4. ASSUME NEW kind \in KindsOf(p), NEW k \in 1..n, Kept(p, k + 1, n, kind)
      PROVE  Established(w, rs, p, next, k, kind)
  <2>1. CASE k = n
    BY <2>1
  <2>2. CASE k # n
    <3>1. k \in 1..(n - 1) /\ Kept(p, k + 1, n - 1, kind) /\ Keeps(p[n], kind)
      BY <1>1, <1>4, <2>2 DEF Kept
    <3>2. Established(w, rs, p, call, k, kind)
      BY <3>1 DEF Placed
    <3>3. next.target[kind] = call.target[kind]
      BY <3>1 DEF Retains
    <3> QED
      BY <3>2, <3>3 DEF Established, Confirmed, Reviewed
  <2> QED
    BY <2>1, <2>2
<1> QED
  BY <1>1, <1>2, <1>3, <1>4 DEF Placed

\* What awaits a decision goes on waiting where there is none.
LEMMA AwaitsNext ==
  ASSUME NEW p, Program(p), NEW n \in DOMAIN p, NEW call, NEW next, NEW e,
         e.kind \in KindsOf(p), Awaits(p, call, e, n), ~Decides(p[n], e),
         Retains(p, n, call, next)
  PROVE  Awaits(p, next, e, n + 1)
<1>1. n \in 1..Len(p) /\ Len(p) \in Nat
  BY StepTyped
<1>2. PICK m \in n..Len(p) : Decides(p[m], e) /\ Kept(p, n, m - 1, e.kind)
  BY DEF Awaits
<1>3. m \in (n + 1)..Len(p) /\ n \in n..(m - 1)
  BY <1>1, <1>2
<1>4. Keeps(p[n], e.kind) /\ Kept(p, n + 1, m - 1, e.kind)
  BY <1>1, <1>2, <1>3 DEF Kept
<1> QED
  BY <1>2, <1>3, <1>4 DEF Awaits, Retains

LEMMA SettledNext ==
  ASSUME NEW p, Program(p), NEW n \in DOMAIN p, NEW call \in CallsOf(p), NEW next,
         AllSettled(p, call, n), next.sent = call.sent, Retains(p, n, call, next),
         \A i \in DOMAIN call.sent :
           /\ call.sent[i].status = "flying" /\ Decides(p[n], call.sent[i])
           /\ call.target[call.sent[i].kind] = call.sent[i].target
           => call.sent[i].held
  PROVE  AllSettled(p, next, n + 1)
<1>1. ASSUME NEW i \in DOMAIN call.sent, ~call.sent[i].held, Awaits(p, call, call.sent[i], n)
      PROVE  Awaits(p, next, call.sent[i], n + 1)
  <2>1. ~Decides(p[n], call.sent[i])
    BY <1>1 DEF Awaits
  <2>2. call.sent[i].kind \in KindsOf(p)
    BY SentFields
  <2> QED
    BY <1>1, <2>1, <2>2, AwaitsNext
<1> QED
  BY <1>1 DEF AllSettled

\* The parts of a call that is under way.
LEMMA UnderWay ==
  ASSUME NEW p, NEW w, NEW rs, NEW call, CallOK(w, rs, p, call), call.pc # 0, Program(p)
  PROVE  /\ Sound(w, rs, p, call) /\ call.pc \in DOMAIN p /\ call \in CallsOf(p)
         /\ call.outcome = "none"
         /\ call.target \in [KindsOf(p) -> Target] /\ call.seen \in [KindsOf(p) -> Content]
         /\ Placed(w, rs, p, call, call.pc) /\ AllSettled(p, call, call.pc)
<1>1. call \in CallsOf(p) /\ p \in Seq(ToolStep)
  BY DEF CallOK, Program
<1>2. call.pc \in 0..Len(p)
  BY <1>1 DEF CallsOf
<1>3. call.pc \in DOMAIN p
  BY <1>1, <1>2
<1>4. Sound(w, rs, p, call)
  BY DEF CallOK, Sound
<1>5. Placed(w, rs, p, call, call.pc) /\ AllSettled(p, call, call.pc)
  BY DEF CallOK
<1> QED
  BY <1>1, <1>3, <1>4, <1>5 DEF Placed

\* A step after which the call is as before, but for where it is and what it knows.
Idles(step) == step.op \in {"look", "flag", "known", "still", "intact", "again"}

LEMMA IdleStep ==
  ASSUME Program(tool), NEW w, NEW rs, NEW call, CallOK(w, rs, tool, call), call.pc # 0,
         Idles(tool[call.pc]), NEW known \in SUBSET Records,
         LET kind == tool[call.pc].kind IN
           Clears(tool, call.pc, kind) =>
             \A r \in Records : <<kind, r>> \in call.there => r = call.target[kind]
  PROVE  CallOK(w, rs, tool, Advanced([call EXCEPT !.known = known]))
<1> DEFINE next == [call EXCEPT !.known = known]
           n == call.pc
<1>1. /\ Sound(w, rs, tool, call) /\ n \in DOMAIN tool /\ call \in CallsOf(tool)
      /\ call.outcome = "none"
      /\ call.target \in [KindsOf(tool) -> Target] /\ call.seen \in [KindsOf(tool) -> Content]
      /\ Placed(w, rs, tool, call, n) /\ AllSettled(tool, call, n)
  BY UnderWay
<1>2. /\ next \in CallsOf(tool) /\ next.pc = n /\ next.outcome = "none" /\ next.want = call.want
      /\ next.there = call.there /\ next.target = call.target /\ next.seen = call.seen
      /\ next.review = call.review /\ next.sent = call.sent
  BY <1>1 DEF CallsOf
<1> HIDE DEF next
<1>3. Sound(w, rs, tool, next)
  BY <1>1, <1>2 DEF Sound, SafeRequests, SafeRequest, Harmful, Reviewed, AllNoticed, ThereIsLive,
                    ReviewStands
<1>4. Retains(tool, n, call, next) /\ Confirmed(w, rs, tool, call, next)
  BY <1>2 DEF Retains, Confirmed
<1>5. \A kind \in KindsOf(tool) : Established(w, rs, tool, next, n, kind)
  BY <1>2 DEF Established, Names, Clears, Empties, Confirms, Idles
<1>6. IsPlanned(tool) /\ Early(tool, n + 1) =>
        \A kind \in KindsOf(tool) : <<kind, next.target[kind]>> \in next.there =>
          next.seen[kind] = w[kind][next.target[kind]]
  <2>1. n \in Nat
    BY <1>1, StepTyped
  <2>2. Early(tool, n + 1) => Early(tool, n)
    BY <2>1 DEF Early
  <2> QED
    BY <1>1, <1>2, <2>2 DEF Placed
<1> HIDE DEF n
<1>7. Placed(w, rs, tool, next, n + 1)
  BY <1>1, <1>2, <1>4, <1>5, <1>6, PlacedNext
<1>8. \A i \in DOMAIN call.sent : ~Decides(tool[n], call.sent[i])
  BY DEF Idles, Decides, n
<1>9. AllSettled(tool, next, n + 1)
  BY <1>1, <1>2, <1>4, <1>8, SettledNext
<1>10. CallOK(w, rs, tool, Advanced(next))
  BY <1>1, <1>2, <1>3, <1>7, <1>9, AdvancedOK
<1> QED
  BY <1>10 DEF next

-----------------------------------------------------------------------------
(* Reading.                                                                   *)

\* Steps that may take a record for the one the call is about.
Takes(step) == step.op \in {"name", "get", "settled", "free", "same", "one", "find", "differing"}

LEMMA TakingStep ==
  ASSUME Program(tool), world \in Worlds(tool), NEW rs, NEW call,
         CallOK(world, rs, tool, call), call.pc # 0, Takes(tool[call.pc]), NEW t \in Target,
         LET step == tool[call.pc] IN
           /\ Names(step, step.kind) => t \in Records
           /\ Clears(tool, call.pc, step.kind) =>
                \A r \in Records : <<step.kind, r>> \in call.there => r = t
           /\ Keeps(step, step.kind) => t = call.target[step.kind]
  PROVE  CallOK(world, rs, tool, Advanced(Noted(call, t)))
<1> DEFINE n == call.pc
           kind == tool[call.pc].kind
           saw == IF Planned /\ t # 0 THEN world[kind][t] ELSE call.seen[kind]
           next == Noted(call, t)
<1>1. /\ Sound(world, rs, tool, call) /\ n \in DOMAIN tool /\ call \in CallsOf(tool)
      /\ call.outcome = "none"
      /\ call.target \in [KindsOf(tool) -> Target] /\ call.seen \in [KindsOf(tool) -> Content]
      /\ Placed(world, rs, tool, call, n) /\ AllSettled(tool, call, n)
  BY UnderWay
<1>2. kind \in KindsOf(tool) /\ n \in Nat
  BY <1>1, StepTyped
<1>3. saw \in Content
  BY <1>1, <1>2 DEF Worlds, Target
<1>4. next = [call EXCEPT !.target = [call.target EXCEPT ![kind] = t],
                          !.seen = [call.seen EXCEPT ![kind] = saw]]
  BY <1>1 DEF Noted, CallsOf
<1> HIDE DEF next, saw
<1>5. /\ next \in CallsOf(tool) /\ next.pc = n /\ next.outcome = "none" /\ next.want = call.want
      /\ next.there = call.there /\ next.target = [call.target EXCEPT ![kind] = t]
      /\ next.seen = [call.seen EXCEPT ![kind] = saw]
      /\ next.review = call.review /\ next.sent = call.sent
  <2>1. /\ [call.target EXCEPT ![kind] = t] \in [KindsOf(tool) -> Target]
        /\ [call.seen EXCEPT ![kind] = saw] \in [KindsOf(tool) -> Content]
    BY <1>1, <1>3
  <2> QED
    BY <1>1, <1>4, <2>1 DEF CallsOf
<1>6. Sound(world, rs, tool, next)
  BY <1>1, <1>5 DEF Sound, SafeRequests, SafeRequest, Harmful, Reviewed, AllNoticed, ThereIsLive,
                    ReviewStands
<1>7. /\ \A other \in KindsOf(tool) : other # kind =>
            next.target[other] = call.target[other] /\ next.seen[other] = call.seen[other]
      /\ next.target[kind] = t /\ next.seen[kind] = saw
      /\ next.target \in [KindsOf(tool) -> Target] /\ next.seen \in [KindsOf(tool) -> Content]
  BY <1>1, <1>2, <1>3, <1>5
<1>8. Retains(tool, n, call, next) /\ Confirmed(world, rs, tool, call, next)
  BY <1>5, <1>7 DEF Retains, Confirmed
<1>9. ASSUME NEW other \in KindsOf(tool)
      PROVE  Established(world, rs, tool, next, n, other)
  <2>1. ~Confirms(tool[n]) /\ ~Empties(tool[n], other)
    BY DEF Confirms, Empties, Takes
  <2>2. CASE other = kind
    BY <1>5, <1>7, <2>1, <2>2 DEF Established
  <2>3. CASE other # kind
    BY <2>1, <2>3 DEF Established, Names, Clears
  <2> QED
    BY <2>2, <2>3
<1>10. ASSUME IsPlanned(tool), Early(tool, n + 1), NEW other \in KindsOf(tool),
              <<other, next.target[other]>> \in next.there
       PROVE  next.seen[other] = world[other][next.target[other]]
  <2>1. Early(tool, n)
    BY <1>2, <1>10 DEF Early
  <2>2. CASE other = kind
    <3>1. t \in Records
      BY <1>1, <1>5, <1>7, <1>10, <2>2, CallFields
    <3>2. Planned /\ t # 0
      BY <3>1, <1>10, OfTool, CallsAssumption
    <3> QED
      BY <1>7, <2>2, <3>2 DEF saw
  <2>3. CASE other # kind
    BY <1>1, <1>5, <1>7, <1>10, <2>1, <2>3 DEF Placed
  <2> QED
    BY <2>2, <2>3
<1>11. next.sent # <<>> => call.sent # <<>>
  BY <1>5
<1> HIDE DEF n
<1>12. Placed(world, rs, tool, next, n + 1)
  BY <1>1, <1>5, <1>7, <1>8, <1>9, <1>10, <1>11, PlacedNext
<1>13. \A i \in DOMAIN call.sent : ~Decides(tool[n], call.sent[i])
  BY DEF Takes, Decides, n
<1>14. AllSettled(tool, next, n + 1)
  BY <1>1, <1>5, <1>8, <1>13, SettledNext
<1>15. CallOK(world, rs, tool, Advanced(next))
  BY <1>1, <1>5, <1>6, <1>12, <1>14, AdvancedOK
<1> QED
  BY <1>15 DEF next

\* A turn of one call, at the end of which it is as it should be.
TurnOK(c) ==
  \E next : /\ Becomes(c, next) /\ CallOK(world, reviews, tool, next)
            /\ next.review \in {0, calls[c].review}

\* Of the review a call goes on or is over.
LEMMA ReviewAfter ==
  ASSUME NEW p, NEW call \in CallsOf(p), NEW outcome
  PROVE  /\ Ended(call, outcome).review \in {0, call.review}
         /\ Advanced(call).review \in {0, call.review}
<1>1. Ended(call, outcome).review \in {0, call.review}
  BY DEF Ended, Idle, CallsOf
<1>2. Ended(call, "ok").review \in {0, call.review}
  BY DEF Ended, Idle, CallsOf
<1>3. [call EXCEPT !.pc = call.pc + 1].review = call.review
  BY DEF CallsOf
<1> QED
  BY <1>1, <1>2, <1>3 DEF Advanced

\* A step that fails answers, and that is the end.
LEMMA AnswerOK ==
  ASSUME Disciplined(tool), NEW w, NEW rs, NEW call, CallOK(w, rs, tool, call), call.pc # 0,
         NEW event \in DOMAIN Plainly
  PROVE  CallOK(w, rs, tool, Ended(call, tool[call.pc].on[event]))
<1>1. /\ Sound(w, rs, tool, call) /\ call.pc \in DOMAIN tool /\ call \in CallsOf(tool)
      /\ Placed(w, rs, tool, call, call.pc) /\ Program(tool)
  BY UnderWay DEF Disciplined
<1>2. /\ tool[call.pc].on[event] \in Outcomes \ {"none"}
      /\ Truthful(tool, call, tool[call.pc].on[event])
  BY <1>1, AnswersTruly
<1> QED
  BY <1>1, <1>2, EndedOK

\* A step that finds the work done is before any write.
LEMMA UnchangedOK ==
  ASSUME Disciplined(tool), NEW w, NEW rs, NEW call, CallOK(w, rs, tool, call), call.pc # 0,
         tool[call.pc].op \in {"settled", "same", "still", "again"}
  PROVE  CallOK(w, rs, tool, Ended(call, "unchanged"))
<1>1. /\ Sound(w, rs, tool, call) /\ call.pc \in DOMAIN tool /\ Placed(w, rs, tool, call, call.pc)
      /\ Program(tool)
  BY UnderWay DEF Disciplined
<1>2. call.pc \in 1..Len(tool) /\ Len(tool) \in Nat
  BY <1>1, StepTyped
<1>3. call.sent = <<>>
  <2>1. SUFFICES ASSUME call.sent # <<>> PROVE FALSE
    OBVIOUS
  <2>2. PICK i \in 1..(call.pc - 1) : Writing(tool[i])
    BY <1>1, <2>1 DEF Placed
  <2>3. i \in DOMAIN tool /\ i < call.pc
    BY <1>1, <1>2, <2>2 DEF Program
  <2> QED
    BY <1>1, <2>2, <2>3 DEF Disciplined, OwnsUp
<1> QED
  BY <1>1, <1>3, IdleOK DEF Ended

\* What the invariant says of a call under way.
LEMMA OfCall ==
  ASSUME IInv, NEW c \in Calls, Running(c)
  PROVE  /\ Disciplined(tool) /\ Program(tool) /\ world \in Worlds(tool)
         /\ CallOK(world, reviews, tool, calls[c]) /\ calls[c].pc # 0
         /\ calls[c] \in CallsOf(tool)
BY DEF IInv, TypeOK, Disciplined, Running, CallOK

\* What was looked for beside the record of a call is not there.
KeepsClear(c) ==
  Clears(tool, calls[c].pc, Now(c).kind) =>
    \A r \in Records : <<Now(c).kind, r>> \in calls[c].there => r = calls[c].target[Now(c).kind]

\* How a call may turn.
LEMMA Turns ==
  ASSUME IInv, NEW c \in Calls, Running(c)
  PROVE  /\ \A event \in DOMAIN Plainly :
              Becomes(c, Ended(calls[c], Now(c).on[event])) => TurnOK(c)
         /\ Now(c).op \in {"settled", "same", "still", "again"} =>
              (Becomes(c, Ended(calls[c], "unchanged")) => TurnOK(c))
         /\ Idles(Now(c)) /\ KeepsClear(c) =>
              /\ \A known \in SUBSET Records :
                   Becomes(c, Advanced([calls[c] EXCEPT !.known = known])) => TurnOK(c)
              /\ Becomes(c, Advanced(calls[c])) => TurnOK(c)
<1> DEFINE call == calls[c]
<1>1. /\ Disciplined(tool) /\ Program(tool) /\ world \in Worlds(tool)
      /\ CallOK(world, reviews, tool, call) /\ call.pc # 0 /\ call \in CallsOf(tool)
  BY OfCall
<1>2. ASSUME NEW event \in DOMAIN Plainly, Becomes(c, Ended(call, Now(c).on[event]))
      PROVE  TurnOK(c)
  BY <1>1, <1>2, AnswerOK, ReviewAfter DEF TurnOK, Now
<1>3. ASSUME Now(c).op \in {"settled", "same", "still", "again"},
             Becomes(c, Ended(call, "unchanged"))
      PROVE  TurnOK(c)
  BY <1>1, <1>3, UnchangedOK, ReviewAfter DEF TurnOK, Now
<1>4. ASSUME Idles(Now(c)), KeepsClear(c), NEW known \in SUBSET Records,
             Becomes(c, Advanced([call EXCEPT !.known = known]))
      PROVE  TurnOK(c)
  <2> DEFINE next == [call EXCEPT !.known = known]
  <2>1. CallOK(world, reviews, tool, Advanced(next))
    BY <1>1, <1>4, IdleStep DEF Now, KeepsClear
  <2>2. next \in CallsOf(tool) /\ next.review = call.review
    BY <1>1 DEF CallsOf
  <2>3. Advanced(next).review \in {0, call.review}
    BY <2>2, ReviewAfter
  <2> QED
    BY <1>4, <2>1, <2>3 DEF TurnOK
<1>5. ASSUME Idles(Now(c)), KeepsClear(c), Becomes(c, Advanced(call))
      PROVE  TurnOK(c)
  <2>1. call.known \in SUBSET Records /\ [call EXCEPT !.known = call.known] = call
    BY <1>1 DEF CallsOf
  <2> QED
    BY <1>4, <1>5, <2>1
<1> QED
  BY <1>2, <1>3, <1>4, <1>5

LEMMA TakingTurn ==
  ASSUME IInv, NEW c \in Calls, Running(c), Takes(Now(c)), NEW t \in Target,
         Names(Now(c), Now(c).kind) => t \in Records,
         Clears(tool, calls[c].pc, Now(c).kind) =>
           \A r \in Records : <<Now(c).kind, r>> \in calls[c].there => r = t,
         Keeps(Now(c), Now(c).kind) => t = calls[c].target[Now(c).kind],
         Becomes(c, Advanced(Noted(calls[c], t)))
  PROVE  TurnOK(c)
<1> DEFINE call == calls[c]
           next == Noted(call, t)
<1>1. /\ Disciplined(tool) /\ Program(tool) /\ world \in Worlds(tool)
      /\ CallOK(world, reviews, tool, call) /\ call.pc # 0 /\ call \in CallsOf(tool)
  BY OfCall
<1>2. CallOK(world, reviews, tool, Advanced(next))
  BY <1>1, TakingStep DEF Now
<1>3. Advanced(next).review \in {0, call.review}
  <2>1. next.review = call.review /\ next.pc = call.pc
    BY <1>1 DEF Noted, CallsOf
  <2>2. [next EXCEPT !.pc = next.pc + 1].review = next.review
    BY <1>1 DEF Noted, CallsOf
  <2>3. Ended(next, "ok").review \in {0, next.review}
    BY <1>1 DEF Ended, Idle, Noted, CallsOf
  <2> QED
    BY <2>1, <2>2, <2>3 DEF Advanced
<1> QED
  BY <1>2, <1>3 DEF TurnOK

LEMMA ReadOK ==
  ASSUME IInv, NEW c \in Calls, Read(c)
  PROVE  TurnOK(c) /\ UNCHANGED reviews
<1> DEFINE step == Now(c)
           call == calls[c]
           kind == step.kind
           mine == call.target[kind]
           others == Live(world, kind) \ {mine}
           Goes(t) == Becomes(c, Advanced(Noted(call, t)))
<1>1. /\ Disciplined(tool) /\ Program(tool) /\ world \in Worlds(tool)
      /\ CallOK(world, reviews, tool, call) /\ call.pc # 0 /\ call \in CallsOf(tool)
      /\ Running(c) /\ step = tool[call.pc]
  BY OfCall DEF Read, Now
<1>2. /\ call.pc \in DOMAIN tool /\ call.target \in [KindsOf(tool) -> Target]
      /\ kind \in KindsOf(tool) /\ Placed(world, reviews, tool, call, call.pc)
  BY <1>1, UnderWay, StepTyped
<1>3. /\ mine \in Target /\ 1 \in Records /\ 1 \in Target /\ Live(world, kind) \subseteq Records
      /\ Records \subseteq Target /\ 0 \notin Records
  BY <1>2, CallsAssumption DEF Target, Live
<1>4. \A r \in Records : <<kind, r>> \in call.there => r \in Live(world, kind)
  BY <1>1 DEF CallOK, ThereIsLive, Live
<1>5. ASSUME NEW event \in {"unfit", "failed", "absent"},
             Becomes(c, Ended(call, step.on[event]))
      PROVE  TurnOK(c)
  BY <1>1, <1>5, Turns, Events
<1>6. ASSUME step.op = "look", Becomes(c, Advanced(call))
      PROVE  TurnOK(c)
  BY <1>1, <1>6, Turns DEF Idles, KeepsClear, Clears
<1>7. ASSUME step.op \in {"name", "get", "settled"}, Goes(1)
      PROVE  TurnOK(c)
  <2>1. Takes(step) /\ ~Clears(tool, call.pc, kind) /\ ~Keeps(step, kind)
    BY <1>1, <1>7 DEF Takes, Clears, Keeps
  <2> QED
    BY <1>1, <1>3, <1>7, <2>1, TakingTurn
<1>8. ASSUME step.op \in {"free", "same", "find"}, others = {}, Goes(mine)
      PROVE  TurnOK(c)
  <2>1. Takes(step) /\ ~Names(step, kind)
    BY <1>8 DEF Takes, Names
  <2>2. \A r \in Records : <<kind, r>> \in call.there => r = mine
    BY <1>4, <1>8
  <2> QED
    BY <1>1, <1>3, <1>8, <2>1, <2>2, TakingTurn
<1>9. ASSUME step.op \in {"one", "find", "differing"}, NEW r \in others, others = {r}, Goes(r)
      PROVE  TurnOK(c)
  <2>1. Takes(step) /\ ~Keeps(step, kind) /\ r \in Records
    BY <1>3, <1>9 DEF Takes, Keeps
  <2>2. ASSUME Clears(tool, call.pc, kind), NEW q \in Records, <<kind, q>> \in call.there
        PROVE  q = r
    <3>1. Kept(tool, 1, call.pc - 1, kind)
      BY <1>1, <1>9, <2>2 DEF Clears
    <3>2. mine = 0
      BY <1>2, <3>1 DEF Placed
    <3> QED
      BY <1>3, <1>4, <1>9, <2>2, <3>2
  <2> QED
    BY <1>1, <1>3, <1>9, <2>1, <2>2, TakingTurn
<1>10. ASSUME step.op \in {"settled", "same"}, Becomes(c, Ended(call, "unchanged"))
       PROVE  TurnOK(c)
  BY <1>1, <1>10, Turns
<1>11. ASSUME step.op = "known",
              Becomes(c, Advanced([call EXCEPT !.known =
                {r \in others : world[kind][r] = call.want}]))
       PROVE  TurnOK(c)
  <2>1. {r \in others : world[kind][r] = call.want} \in SUBSET Records
    BY <1>3
  <2> QED
    BY <1>1, <1>11, <2>1, Turns DEF Idles, KeepsClear, Clears
<1>12. TurnOK(c)
  BY <1>5, <1>6, <1>7, <1>8, <1>9, <1>10, <1>11 DEF Read
<1> QED
  BY <1>12 DEF Read

LEMMA RereadOK ==
  ASSUME IInv, NEW c \in Calls, Reread(c)
  PROVE  TurnOK(c) /\ UNCHANGED reviews
<1> DEFINE step == Now(c)
           call == calls[c]
           kind == step.kind
           mine == call.target[kind]
           found == Live(world, kind)
<1>1. /\ CallOK(world, reviews, tool, call) /\ Running(c)
      /\ step.op \in {"still", "intact", "again"}
  BY OfCall DEF Reread
<1>2. ASSUME NEW event \in {"unfit", "failed"}, Becomes(c, Ended(call, step.on[event]))
      PROVE  TurnOK(c)
  BY <1>1, <1>2, Turns, Events
<1>3. ASSUME step.op # "again", Becomes(c, Advanced(call))
      PROVE  TurnOK(c)
  BY <1>1, <1>3, Turns DEF Idles, KeepsClear, Clears, Now
<1>4. ASSUME step.op = "again", found = {mine} \/ (mine = 0 /\ found = {}),
             Becomes(c, Advanced(call))
      PROVE  TurnOK(c)
  <2>1. \A r \in Records : <<kind, r>> \in call.there => r \in found
    BY <1>1 DEF CallOK, ThereIsLive, Live
  <2>2. KeepsClear(c)
    BY <1>4, <2>1 DEF KeepsClear
  <2> QED
    BY <1>1, <1>4, <2>2, Turns DEF Idles
<1>5. ASSUME Becomes(c, Ended(call, "unchanged")), step.op \in {"still", "again"}
      PROVE  TurnOK(c)
  BY <1>1, <1>5, Turns
<1>6. TurnOK(c)
  BY <1>1, <1>2, <1>3, <1>4, <1>5 DEF Reread
<1> QED
  BY <1>6 DEF Reread

\* A call begins with what is there, and with nothing read.
LEMMA StartOK ==
  ASSUME IInv, NEW c \in Calls, NEW dry \in BOOLEAN, NEW want \in Contents, Start(c, dry, want)
  PROVE  TurnOK(c) /\ UNCHANGED reviews
<1> DEFINE there == UNION {{kind} \X Live(world, kind) : kind \in Kinds}
           zero == [kind \in Kinds |-> 0]
           none == [kind \in Kinds |-> "none"]
           next == [Idle EXCEPT !.pc = 1, !.dry = dry, !.want = want,
                      !.target = zero, !.seen = none, !.there = there]
<1>1. Program(tool) /\ Kinds = KindsOf(tool) /\ calls[c] = Idle
  BY OfTool DEF IInv, TypeOK, Disciplined, Start
<1>2. there \in SUBSET (KindsOf(tool) \X Records)
  BY <1>1 DEF Live
<1>3. \A kind, r : <<kind, r>> \in there => world[kind][r] \in Contents
  BY DEF Live
<1> HIDE DEF there, zero, none
<1>4. Idle \in CallsOf(tool) /\ Idle.review = 0 /\ Idle.sent = <<>> /\ Idle.outcome = "none"
  <2>1. CallOK(world, reviews, tool, Idle)
    BY <1>1, IdleOK
  <2> QED
    BY <2>1 DEF CallOK, Idle
<1>5. /\ next.pc = 1 /\ next.target = [kind \in KindsOf(tool) |-> 0]
      /\ next.seen = [kind \in KindsOf(tool) |-> "none"] /\ next.there = there
      /\ next.review = 0 /\ next.sent = <<>> /\ next.outcome = "none"
  BY <1>1, <1>4 DEF zero, none, CallsOf
<1>6. /\ 1 \in 0..Len(tool) /\ 0 \in Target /\ "none" \in Content /\ "none" \in Outcomes
      /\ {} \in SUBSET Records /\ <<>> \in Seq(Requests(tool)) /\ 0 \in Nat
  <2>1. Len(tool) \in Nat \ {0}
    BY <1>1, EmptySeq DEF Program
  <2> QED
    BY <2>1 DEF Target, Content, Outcomes
<1>7. /\ next.target \in [KindsOf(tool) -> Target] /\ next.seen \in [KindsOf(tool) -> Content]
  BY <1>5, <1>6
<1>8. next \in CallsOf(tool)
  <2>1. zero \in [KindsOf(tool) -> Target] /\ none \in [KindsOf(tool) -> Content]
    BY <1>1, <1>6 DEF zero, none
  <2> QED
    BY <1>2, <1>4, <1>6, <2>1 DEF CallsOf
<1> HIDE DEF next
<1>9. SafeRequests(world, reviews, next) /\ AllNoticed(world, next) /\ ThereIsLive(world, next)
  BY <1>3, <1>5 DEF SafeRequests, AllNoticed, ThereIsLive
<1>10. ReviewStands(tool, reviews, next) /\ OutcomeTrue(tool, next)
  BY <1>5 DEF ReviewStands, OutcomeTrue
<1>11. Placed(world, reviews, tool, next, 1)
  <2>1. \A kind \in KindsOf(tool) : next.target[kind] = 0
    BY <1>5
  <2>2. \A kind \in KindsOf(tool) : <<kind, next.target[kind]>> \notin next.there
    BY <1>2, <1>5, <2>1, CallsAssumption
  <2> QED
    BY <1>5, <1>7, <2>1, <2>2 DEF Placed
<1>12. AllSettled(tool, next, 1)
  BY <1>5 DEF AllSettled
<1>13. CallOK(world, reviews, tool, next)
  BY <1>5, <1>8, <1>9, <1>10, <1>11, <1>12 DEF CallOK
<1>14. Becomes(c, next) /\ UNCHANGED reviews
  BY DEF Start, next, there, zero, none
<1> QED
  BY <1>5, <1>13, <1>14 DEF TurnOK

-----------------------------------------------------------------------------
(* Confirming.                                                                *)

\* The reviews a step leaves; a token it spends was spent by no other call.
ReviewTurnOK(c) ==
  \E next : /\ Becomes(c, next) /\ CallOK(world, reviews', tool, next)
            /\ Grown(reviews, reviews') /\ reviews' \in Seq(Reviews(tool))
            /\ \/ next.review \in {0, calls[c].review}
               \/ HasToken(tool) => \A d \in Calls : calls[d].review # next.review

LEMMA ReviewFields ==
  ASSUME NEW p, NEW rs \in Seq(Reviews(p)), NEW n \in DOMAIN rs
  PROVE  /\ n \in 1..Len(rs) /\ Len(rs) \in Nat /\ rs[n] \in Reviews(p)
         /\ rs[n].want \in Contents /\ rs[n].seen \in [KindsOf(p) -> Content]
         /\ rs[n].known \in SUBSET Records /\ rs[n].open \in BOOLEAN
<1>1. n \in 1..Len(rs) /\ Len(rs) \in Nat /\ rs[n] \in Reviews(p)
  OBVIOUS
<1> QED
  BY <1>1 DEF Reviews

\* A dry run ends with a review of what it read.
LEMMA OfferOK ==
  ASSUME IInv, NEW c \in Calls, Running(c), Confirms(Now(c)),
         Becomes(c, Ended(calls[c], "preview")),
         reviews' = Append(reviews, [want |-> calls[c].want, seen |-> calls[c].seen,
                                        known |-> calls[c].known, open |-> TRUE])
  PROVE  ReviewTurnOK(c)
<1> DEFINE call == calls[c]
           next == Ended(call, "preview")
           review == [want |-> call.want, seen |-> call.seen, known |-> call.known, open |-> TRUE]
<1>1. /\ Program(tool) /\ CallOK(world, reviews, tool, call) /\ call.pc # 0
      /\ call \in CallsOf(tool) /\ reviews \in Seq(Reviews(tool))
  BY OfCall DEF IInv, TypeOK
<1>2. Sound(world, reviews, tool, call) /\ call.seen \in [KindsOf(tool) -> Content]
  BY <1>1, UnderWay
<1>3. CallOK(world, reviews, tool, next)
  <2>1. Truthful(tool, call, "preview") /\ "preview" \in Outcomes \ {"none"}
    BY DEF Truthful, Outcomes
  <2> QED
    BY <1>1, <1>2, <2>1, EndedOK
<1>4. review \in Reviews(tool)
  BY <1>1, <1>2, CallFields DEF Reviews
<1>5. reviews' = Append(reviews, review)
  OBVIOUS
<1> HIDE DEF review, next
<1>6. reviews' \in Seq(Reviews(tool)) /\ Grown(reviews, reviews')
  BY <1>1, <1>4, <1>5 DEF Grown
<1>7. CallOK(world, reviews', tool, next)
  BY <1>3, <1>6, CallKept
<1>8. next.review \in {0, call.review}
  BY <1>1, ReviewAfter DEF next
<1> QED
  BY <1>6, <1>7, <1>8 DEF ReviewTurnOK, next

\* What is confirmed is what was shown, and nothing was written before.
LEMMA ConfirmedOK ==
  ASSUME IInv, NEW c \in Calls, Running(c), Confirms(Now(c)), NEW n \in DOMAIN reviews,
         reviews[n].open, AsReviewed(calls[c], reviews[n]),
         Becomes(c, Advanced([calls[c] EXCEPT !.review = n])),
         reviews' = [reviews EXCEPT ![n].open = Now(c).op # "token"]
  PROVE  ReviewTurnOK(c)
<1> DEFINE call == calls[c]
           next == [call EXCEPT !.review = n]
           k == call.pc
           stays == Now(c).op # "token"
           spent == [reviews[n] EXCEPT !.open = stays]
<1>1. /\ Disciplined(tool) /\ Program(tool) /\ CallOK(world, reviews, tool, call) /\ k # 0
      /\ call \in CallsOf(tool) /\ reviews \in Seq(Reviews(tool)) /\ Now(c) = tool[k]
  BY OfCall DEF IInv, TypeOK, Now
<1>2. /\ n \in Nat \ {0} /\ reviews[n] \in Reviews(tool) /\ stays \in BOOLEAN
  BY <1>1, ReviewFields
<1>3. spent \in Reviews(tool) /\ spent.open = stays
      /\ spent.want = reviews[n].want /\ spent.seen = reviews[n].seen
  BY <1>2 DEF Reviews
<1>4. reviews' = [reviews EXCEPT ![n] = spent]
  OBVIOUS
<1> HIDE DEF spent
<1>5. /\ reviews' \in Seq(Reviews(tool)) /\ reviews'[n] = spent /\ DOMAIN reviews' = DOMAIN reviews
      /\ \A m \in DOMAIN reviews : m # n => reviews'[m] = reviews[m]
  BY <1>1, <1>3, <1>4
<1>6. Grown(reviews, reviews')
  BY <1>3, <1>5 DEF Grown
<1>7. CallOK(world, reviews', tool, call)
  BY <1>1, <1>6, CallKept
<1>8. /\ Sound(world, reviews', tool, call) /\ k \in DOMAIN tool /\ call.outcome = "none"
      /\ call.target \in [KindsOf(tool) -> Target] /\ call.seen \in [KindsOf(tool) -> Content]
      /\ Placed(world, reviews', tool, call, k) /\ AllSettled(tool, call, k)
  BY <1>1, <1>7, UnderWay
<1>9. k \in 1..Len(tool) /\ Len(tool) \in Nat /\ DOMAIN tool = 1..Len(tool)
  BY <1>1, <1>8, StepTyped DEF Program
<1>10. Early(tool, k) /\ IsPlanned(tool) /\ Confirms(tool[k])
  BY <1>1, <1>8, <1>9 DEF Disciplined, WritesWhatWasShown, Early, IsPlanned
<1>11. call.sent = <<>>
  BY <1>8, <1>10 DEF Placed, Early
<1>12. HasToken(tool) => ~stays
  BY <1>1, <1>8, <1>10 DEF HasToken, Disciplined, WritesWhatWasShown, Confirms
<1>13. /\ next \in CallsOf(tool) /\ next.pc = k /\ next.outcome = "none" /\ next.want = call.want
       /\ next.there = call.there /\ next.target = call.target /\ next.seen = call.seen
       /\ next.review = n /\ next.sent = <<>>
  <2>1. next \in CallsOf(tool)
    BY <1>1, <1>2 DEF CallsOf
  <2> QED
    BY <1>1, <1>8, <1>11, <2>1 DEF CallsOf
<1> HIDE DEF next, stays
<1>14. Sound(world, reviews', tool, next)
  <2>1. ReviewStands(tool, reviews', next)
    BY <1>3, <1>5, <1>10, <1>12, <1>13 DEF ReviewStands, AsReviewed
  <2>2. SafeRequests(world, reviews', next) /\ AllNoticed(world, next)
    BY <1>13 DEF SafeRequests, AllNoticed
  <2>3. ThereIsLive(world, next)
    BY <1>8, <1>13 DEF Sound, ThereIsLive
  <2> QED
    BY <1>13, <2>1, <2>2, <2>3 DEF Sound
<1>15. \A kind \in KindsOf(tool) : <<kind, next.target[kind]>> \in next.there =>
         next.seen[kind] = world[kind][next.target[kind]]
  BY <1>8, <1>10, <1>13 DEF Placed
<1>16. \A kind \in KindsOf(tool) :
         next.review # 0 /\ Reviewed(world, reviews', next, kind, next.target[kind])
  <2>1. reviews'[n].seen = next.seen
    BY <1>3, <1>5, <1>13 DEF AsReviewed
  <2>2. ASSUME NEW kind \in KindsOf(tool)
        PROVE  Reviewed(world, reviews', next, kind, next.target[kind])
    BY <1>13, <1>15, <2>1 DEF Reviewed
  <2> QED
    BY <1>2, <1>13, <2>2
<1>17. Confirmed(world, reviews', tool, call, next) /\ Retains(tool, k, call, next)
  BY <1>13, <1>16 DEF Confirmed, Retains
<1>18. \A kind \in KindsOf(tool) : Established(world, reviews', tool, next, k, kind)
  BY <1>10, <1>16 DEF Established, Confirms, Names, Clears, Empties
<1> HIDE DEF k
<1>19. Placed(world, reviews', tool, next, k + 1)
  BY <1>1, <1>8, <1>13, <1>15, <1>17, <1>18, PlacedNext
<1>20. AllSettled(tool, next, k + 1)
  BY <1>13 DEF AllSettled
<1>21. CallOK(world, reviews', tool, Advanced(next))
  BY <1>1, <1>8, <1>13, <1>14, <1>19, <1>20, AdvancedOK
<1>22. Advanced(next).review \in {0, n}
  BY <1>13, ReviewAfter
<1>23. HasToken(tool) => \A d \in Calls : calls[d].review # n
  <2>1. \A d \in Calls : ReviewStands(tool, reviews, calls[d])
    BY DEF IInv, CallOK
  <2> QED
    BY <1>2, <2>1 DEF ReviewStands
<1>24. Becomes(c, Advanced(next))
  BY DEF next
<1> QED
  BY <1>5, <1>6, <1>21, <1>22, <1>23, <1>24 DEF ReviewTurnOK

LEMMA ConfirmOK ==
  ASSUME IInv, NEW c \in Calls, Confirm(c)
  PROVE  (TurnOK(c) /\ UNCHANGED reviews) \/ ReviewTurnOK(c)
<1> DEFINE step == Now(c)
           call == calls[c]
<1>1. /\ Running(c) /\ step.op \in {"flag", "hash", "token"} /\ Program(tool)
      /\ CallOK(world, reviews, tool, call) /\ call.pc # 0 /\ call \in CallsOf(tool)
      /\ Disciplined(tool)
  BY OfCall DEF Confirm
<1>2. step.op # "flag" => Confirms(step)
  BY <1>1 DEF Confirms
<1>3. ASSUME Becomes(c, Ended(call, "preview"))
      PROVE  TurnOK(c)
  <2>1. Truthful(tool, call, "preview") /\ "preview" \in Outcomes \ {"none"}
    BY DEF Truthful, Outcomes
  <2>2. Sound(world, reviews, tool, call)
    BY <1>1, UnderWay
  <2>3. CallOK(world, reviews, tool, Ended(call, "preview"))
    BY <1>1, <2>1, <2>2, EndedOK
  <2> QED
    BY <1>1, <1>3, <2>3, ReviewAfter DEF TurnOK
<1>4. ASSUME step.op = "flag", Becomes(c, Advanced(call))
      PROVE  TurnOK(c)
  BY <1>1, <1>4, Turns DEF Idles, KeepsClear, Clears, Now
<1>5. ASSUME Becomes(c, Ended(call, step.on.unfit))
      PROVE  TurnOK(c)
  BY <1>1, <1>5, Turns, Events
<1>6. CASE call.dry
  BY <1>1, <1>2, <1>3, <1>6, OfferOK DEF Confirm
<1>7. CASE ~call.dry
  BY <1>1, <1>2, <1>4, <1>5, <1>7, ConfirmedOK DEF Confirm
<1> QED
  BY <1>6, <1>7

-----------------------------------------------------------------------------
(* Checking.                                                                  *)

\* A check that goes well bears out the requests it settles.
LEMMA CheckStep ==
  ASSUME Program(tool), NEW rs, NEW call, CallOK(world, rs, tool, call), call.pc # 0,
         NEW r \in Target,
         LET step == tool[call.pc]
             mine == call.target[step.kind] IN
           /\ step.op \in {"exists", "matches", "absent", "fresh", "alone"}
           /\ step.op \in {"exists", "absent"} => r = mine
           /\ step.op = "absent" => r \notin Live(world, step.kind)
           /\ step.op \in {"matches", "alone", "fresh"} =>
                r \in Records /\ world[step.kind][r] = call.want
           /\ step.op = "matches" /\ mine # 0 => r = mine
  PROVE  /\ CallOK(world, rs, tool, Advanced([call EXCEPT !.target[tool[call.pc].kind] = r]))
         /\ Advanced([call EXCEPT !.target[tool[call.pc].kind] = r]).review \in {0, call.review}
<1> DEFINE n == call.pc
           step == tool[n]
           kind == step.kind
           mine == call.target[kind]
           next == [call EXCEPT !.target[kind] = r]
<1>1. /\ Sound(world, rs, tool, call) /\ n \in DOMAIN tool /\ call \in CallsOf(tool)
      /\ call.outcome = "none"
      /\ call.target \in [KindsOf(tool) -> Target] /\ call.seen \in [KindsOf(tool) -> Content]
      /\ Placed(world, rs, tool, call, n) /\ AllSettled(tool, call, n)
  BY UnderWay
<1>2. kind \in KindsOf(tool) /\ n \in Nat \ {0}
  BY <1>1, StepTyped
<1>3. next = [call EXCEPT !.target = [call.target EXCEPT ![kind] = r]]
  BY <1>1 DEF CallsOf
<1> HIDE DEF next
<1>4. /\ next \in CallsOf(tool) /\ next.pc = n /\ next.outcome = "none" /\ next.want = call.want
      /\ next.there = call.there /\ next.target = [call.target EXCEPT ![kind] = r]
      /\ next.seen = call.seen /\ next.review = call.review /\ next.sent = call.sent
  <2>1. [call.target EXCEPT ![kind] = r] \in [KindsOf(tool) -> Target]
    BY <1>1
  <2> QED
    BY <1>1, <1>3, <2>1 DEF CallsOf
<1>5. Sound(world, rs, tool, next)
  BY <1>1, <1>4 DEF Sound, SafeRequests, SafeRequest, Harmful, Reviewed, AllNoticed, ThereIsLive,
                    ReviewStands
<1>6. /\ \A other \in KindsOf(tool) : other # kind => next.target[other] = call.target[other]
      /\ next.target[kind] = r /\ next.target \in [KindsOf(tool) -> Target]
  BY <1>1, <1>2, <1>4
<1>7. step.op \notin {"exists", "absent"} => ~Keeps(step, kind)
  BY DEF Keeps
<1>8. Retains(tool, n, call, next) /\ Confirmed(world, rs, tool, call, next)
  BY <1>4, <1>6, <1>7 DEF Retains, Confirmed
<1>9. ASSUME NEW other \in KindsOf(tool)
      PROVE  Established(world, rs, tool, next, n, other)
  <2>1. ~Confirms(step) /\ ~Names(step, other) /\ ~Clears(tool, n, other)
    BY DEF Confirms, Names, Clears
  <2>2. ASSUME Empties(step, other)
        PROVE  <<other, next.target[other]>> \notin next.there
    <3>1. other = kind /\ r \notin Live(world, kind)
      BY <2>2 DEF Empties
    <3>2. <<kind, r>> \in call.there => r \in Records /\ world[kind][r] \in Contents
      BY <1>1, CallFields DEF Sound, ThereIsLive
    <3> QED
      BY <1>4, <1>6, <3>1, <3>2 DEF Live
  <2> QED
    BY <2>1, <2>2 DEF Established
<1>10. ASSUME IsPlanned(tool), Early(tool, n + 1)
       PROVE  \A other \in KindsOf(tool) : <<other, next.target[other]>> \in next.there =>
                next.seen[other] = world[other][next.target[other]]
  <2>1. Early(tool, n) /\ step.op \in {"exists", "absent"}
    BY <1>2, <1>10 DEF Early
  <2>2. \A other \in KindsOf(tool) : next.target[other] = call.target[other]
    BY <1>6, <2>1
  <2> QED
    BY <1>1, <1>4, <1>10, <2>1, <2>2 DEF Placed
<1>11. ASSUME NEW i \in DOMAIN call.sent, call.sent[i].status = "flying",
              Decides(step, call.sent[i]),
              call.target[call.sent[i].kind] = call.sent[i].target
       PROVE  call.sent[i].held
  <2> DEFINE e == call.sent[i]
  <2>1. e.kind = kind /\ e.target = mine
    BY <1>11 DEF Decides
  <2>2. Holds(world, e, call.want)
    <3>1. CASE (e.op = "create" \/ e.upsert) /\ step.op \in {"matches", "alone"}
      BY <2>1, <3>1 DEF Holds
    <3>2. CASE e.op \in {"patch", "split"} /\ ~e.upsert /\ step.op = "matches"
                 /\ e.target \in Records
      BY <2>1, <3>2, CallsAssumption DEF Holds
    <3>3. CASE e.op = "delete" /\ step.op = "absent"
      BY <2>1, <3>3 DEF Holds
    <3> QED
      BY <1>11, <3>1, <3>2, <3>3 DEF Decides
  <2> QED
    BY <1>1, <1>11, <2>2 DEF Sound, AllNoticed
<1>12. Advanced(next).review \in {0, call.review}
  BY <1>4, ReviewAfter
<1>13. next.sent # <<>> => call.sent # <<>>
  BY <1>4
<1> HIDE DEF n
<1>14. Placed(world, rs, tool, next, n + 1)
  BY <1>1, <1>4, <1>6, <1>8, <1>9, <1>10, <1>13, PlacedNext
<1>15. AllSettled(tool, next, n + 1)
  BY <1>1, <1>4, <1>8, <1>11, SettledNext
<1>16. CallOK(world, rs, tool, Advanced(next))
  BY <1>1, <1>4, <1>5, <1>14, <1>15, AdvancedOK
<1> QED
  BY <1>12, <1>16 DEF next, n

LEMMA CheckOK ==
  ASSUME IInv, NEW c \in Calls, Check(c)
  PROVE  TurnOK(c) /\ UNCHANGED reviews
<1> DEFINE step == Now(c)
           call == calls[c]
           kind == step.kind
           mine == call.target[kind]
           Goes(r) == Becomes(c, Advanced([call EXCEPT !.target[kind] = r]))
<1>1. /\ Running(c) /\ Program(tool) /\ CallOK(world, reviews, tool, call) /\ call.pc # 0
      /\ step = tool[call.pc] /\ step.op \in {"exists", "matches", "absent", "fresh", "alone"}
  BY OfCall DEF Check, Now
<1>2. mine \in Target
  BY <1>1, UnderWay, StepTyped
<1>3. ASSUME NEW event \in {"unfit", "failed", "timeout"}, Becomes(c, Ended(call, step.on[event]))
      PROVE  TurnOK(c)
  BY <1>1, <1>3, Turns, Events
<1>4. ASSUME NEW r \in Target, Goes(r),
             step.op \in {"exists", "absent"} => r = mine,
             step.op = "absent" => r \notin Live(world, kind),
             step.op \in {"matches", "alone", "fresh"} =>
               r \in Records /\ world[kind][r] = call.want,
             step.op = "matches" /\ mine # 0 => r = mine
      PROVE  TurnOK(c)
  BY <1>1, <1>4, CheckStep DEF TurnOK
<1>5. CASE step.op = "exists"
  <2>1. ASSUME NEW r \in {mine} \cap Live(world, kind), Goes(r)
        PROVE  TurnOK(c)
    BY <1>2, <1>4, <1>5, <2>1
  <2> QED
    BY <1>3, <1>5, <2>1 DEF Check
<1>6. CASE step.op = "absent"
  <2>1. ASSUME NEW r \in {mine} \ Live(world, kind), Goes(r)
        PROVE  TurnOK(c)
    BY <1>2, <1>4, <1>6, <2>1
  <2> QED
    BY <1>3, <1>6, <2>1 DEF Check
<1>7. CASE step.op = "matches"
  <2>1. ASSUME NEW r \in AsAsked(kind, mine, call.want), Goes(r)
        PROVE  TurnOK(c)
    <3>1. r \in Records /\ world[kind][r] = call.want /\ (mine # 0 => r = mine) /\ r \in Target
      BY DEF AsAsked, Target
    <3> QED
      BY <1>4, <1>7, <2>1, <3>1
  <2> QED
    BY <1>3, <1>7, <2>1 DEF Check
<1>8. CASE step.op = "alone"
  <2>1. ASSUME NEW r \in AsAsked(kind, 0, call.want), Goes(r)
        PROVE  TurnOK(c)
    <3>1. r \in Records /\ world[kind][r] = call.want /\ r \in Target
      BY DEF AsAsked, Target
    <3> QED
      BY <1>4, <1>8, <2>1, <3>1
  <2> QED
    BY <1>3, <1>8, <2>1 DEF Check
<1>9. CASE step.op = "fresh"
  <2>1. ASSUME NEW r \in Fresh(kind, call.known, call.want), Goes(r)
        PROVE  TurnOK(c)
    <3>1. r \in Records /\ world[kind][r] = call.want /\ r \in Target
      BY DEF Fresh, Target
    <3> QED
      BY <1>4, <1>9, <2>1, <3>1
  <2> QED
    BY <1>3, <1>9, <2>1 DEF Check
<1>10. TurnOK(c)
  BY <1>1, <1>5, <1>6, <1>7, <1>8, <1>9
<1> QED
  BY <1>10 DEF Check

-----------------------------------------------------------------------------
(* What a request does.                                                       *)

\* A request that lands leaves records, and what it was for.
LEMMA LandsTyped ==
  ASSUME NEW p, NEW w \in Worlds(p), NEW e \in Requests(p), NEW want \in Contents, CanLand(w, e)
  PROVE  /\ Landing(w, e) \in Records
         /\ Landed(w, e, want) \in Worlds(p)
         /\ Holds(Landed(w, e, want), e, want)
<1> DEFINE kind == e.kind
           hit == Landing(w, e)
           new == IF e.op = "delete" THEN "gone" ELSE want
           changed == [w EXCEPT ![kind] = [w[kind] EXCEPT ![hit] = new]]
           v == Vacant(w, "related")
           later == Landed(w, e, want)
<1>1. /\ kind \in KindsOf(p) /\ e.op \in {"create", "patch", "delete", "split"}
      /\ e.target \in Target /\ e.upsert \in BOOLEAN
  BY DEF Requests
<1>2. hit \in Records /\ (e.op # "create" => hit = e.target /\ w[kind][hit] \in Contents)
  <2>1. CASE e.op = "create"
    BY <2>1, VacantIsUnused DEF CanLand, Landing, Unused
  <2>2. CASE e.op # "create"
    BY <2>2 DEF CanLand, Landing, Live
  <2> QED
    BY <2>1, <2>2
<1>3. want \in Content /\ new \in Content /\ w \in [KindsOf(p) -> [Records -> Content]]
  BY DEF Content, Worlds
<1>4. w[kind] \in [Records -> Content]
  BY <1>1, <1>3
<1>5. later = IF e.op = "split" THEN [changed EXCEPT !["related"][v] = want] ELSE changed
  BY DEF Landed
<1> HIDE DEF hit, v, later, new
<1>6. [w[kind] EXCEPT ![hit] = new] \in [Records -> Content]
      /\ [w[kind] EXCEPT ![hit] = new][hit] = new
  BY <1>2, <1>3, <1>4
<1>7. changed \in [KindsOf(p) -> [Records -> Content]] /\ changed[kind][hit] = new
  BY <1>1, <1>3, <1>6
<1> HIDE DEF changed
<1>8. later \in Worlds(p) /\ later[kind][hit] = new
  <2>1. CASE e.op # "split"
    BY <1>5, <1>7, <2>1 DEF Worlds
  <2>2. CASE e.op = "split" /\ "related" \notin KindsOf(p)
    BY <1>1, <1>5, <1>7, <2>2 DEF Worlds
  <2>3. CASE e.op = "split" /\ "related" \in KindsOf(p)
    <3> DEFINE beside == [changed["related"] EXCEPT ![v] = want]
    <3>1. v \in Records /\ w["related"][v] = "none"
      BY <2>3, VacantIsUnused DEF CanLand, Unused, v
    <3>2. changed["related"] \in [Records -> Content]
      BY <1>7, <2>3
    <3>3. beside \in [Records -> Content] /\ \A r \in Records \ {v} : beside[r] = changed["related"][r]
      BY <1>3, <3>1, <3>2
    <3>4. later = [changed EXCEPT !["related"] = beside]
      BY <1>5, <2>3
    <3> HIDE DEF beside
    <3>5. later \in Worlds(p)
      BY <1>7, <2>3, <3>3, <3>4 DEF Worlds
    <3>6. kind = "related" => hit # v
      BY <1>2, <2>3, <3>1 DEF Contents
    <3>7. later[kind][hit] = new
      BY <1>1, <1>2, <1>7, <2>3, <3>3, <3>4, <3>6
    <3> QED
      BY <3>5, <3>7
  <2> QED
    BY <2>1, <2>2, <2>3
<1>9. Holds(later, e, want)
  <2>1. CASE e.op = "delete"
    BY <1>2, <1>8, <2>1 DEF Holds, Live, Contents, new
  <2>2. CASE e.op # "delete" /\ (e.op = "create" \/ e.upsert)
    BY <1>2, <1>8, <2>2 DEF Holds, new
  <2>3. CASE e.op \in {"patch", "split"} /\ ~e.upsert
    BY <1>2, <1>8, <2>3 DEF Holds, new
  <2> QED
    BY <1>1, <2>1, <2>2, <2>3
<1> QED
  BY <1>2, <1>8, <1>9 DEF hit, later

\* The request of a writing step.
LEMMA RequestFields ==
  ASSUME NEW p, Program(p), NEW k \in DOMAIN p, Writing(p[k]), NEW t \in Target, NEW answer
  PROVE  LET e == Request(p[k], t, answer) IN
         /\ e \in Requests(p)
         /\ e.kind = p[k].kind /\ e.target = t /\ e.apart = p[k].apart
         /\ e.status = Fate(answer)
         /\ p[k].op \in {"create", "put"} => e.op = "create" \/ e.upsert
         /\ p[k].op \notin {"create", "put"} => e.op = p[k].op /\ ~e.upsert
<1> DEFINE e == Request(p[k], t, answer)
           op == IF p[k].op # "put" THEN p[k].op ELSE IF t = 0 THEN "create" ELSE "patch"
           puts == p[k].op = "put"
<1>1. /\ p[k].kind \in KindsOf(p) /\ p[k].apart \in SUBSET KindsOf(p)
      /\ op \in {"create", "patch", "delete", "split"}
      /\ puts \in BOOLEAN /\ FALSE \in BOOLEAN
      /\ Fate(answer) \in {"acked", "flying", "void", "landed"}
  BY StepTyped DEF Writing, Fate
<1>2. e = [op |-> op, kind |-> p[k].kind, target |-> t, apart |-> p[k].apart,
           upsert |-> puts, held |-> FALSE, status |-> Fate(answer)]
  BY DEF Request
<1> HIDE DEF e, op, puts
<1>3. e \in Requests(p)
  BY <1>1, <1>2 DEF Requests
<1>4. /\ e.op = op /\ e.kind = p[k].kind /\ e.target = t /\ e.apart = p[k].apart
      /\ e.status = Fate(answer) /\ e.upsert = puts
  BY <1>2
<1>5. p[k].op \in {"create", "put"} => e.op = "create" \/ e.upsert
  BY <1>4 DEF op, puts
<1>6. p[k].op \notin {"create", "put"} => e.op = p[k].op /\ ~e.upsert
  BY <1>4 DEF op, puts
<1> QED
  BY <1>3, <1>4, <1>5, <1>6 DEF e

\* What a discipline of reading first makes of a request: it is clear of what was there,
\* it is over what was confirmed, and over a record that was named.
LEMMA WriteIsSafe ==
  ASSUME NEW p, Disciplined(p), NEW w, NEW rs, NEW call, CallOK(w, rs, p, call), call.pc # 0,
         Writing(p[call.pc]), NEW e,
         e.kind = p[call.pc].kind, e.apart = p[call.pc].apart,
         e.target = call.target[p[call.pc].kind]
  PROVE  /\ SafeRequest(w, rs, call, e)
         /\ IsPlanned(p) => call.review # 0
         /\ p[call.pc].op \in {"patch", "delete", "split"} => e.target \in Records
<1> DEFINE k == call.pc
<1>1. /\ Program(p) /\ k \in DOMAIN p /\ Placed(w, rs, p, call, k) /\ call \in CallsOf(p)
  BY UnderWay DEF Disciplined
<1>2. /\ p[k].kind \in KindsOf(p) /\ p[k].apart \subseteq KindsOf(p) /\ 0 \notin Records
  BY <1>1, StepTyped, CallsAssumption
<1>3. ASSUME NEW kind \in e.apart, NEW r \in Records, <<kind, r>> \in call.there,
             <<kind, r>> # <<e.kind, e.target>>
      PROVE  FALSE
  <2>1. kind \in KindsOf(p)
    BY <1>2, <1>3
  <2>2. PICK i \in 1..(k - 1) : Clears(p, i, kind) /\ Kept(p, i + 1, k - 1, kind)
    BY <1>1, <1>3 DEF Disciplined, WritesWhatItRead
  <2>3. r = call.target[kind]
    BY <1>1, <1>3, <2>1, <2>2 DEF Placed, Established
  <2>4. CASE kind = p[k].kind
    BY <1>3, <2>3, <2>4
  <2>5. CASE Kept(p, 1, k - 1, kind)
    BY <1>1, <1>2, <2>1, <2>3, <2>5 DEF Placed
  <2>6. CASE \E j \in 1..(k - 1) : Empties(p[j], kind) /\ Kept(p, j + 1, k - 1, kind)
    <3>1. PICK j \in 1..(k - 1) : Empties(p[j], kind) /\ Kept(p, j + 1, k - 1, kind)
      BY <2>6
    <3>2. <<kind, call.target[kind]>> \notin call.there
      BY <1>1, <2>1, <3>1 DEF Placed, Established
    <3> QED
      BY <1>3, <2>3, <3>2
  <2> QED
    BY <1>1, <1>3, <2>4, <2>5, <2>6 DEF Disciplined, WritesWhatItRead
<1>4. ASSUME IsPlanned(p)
      PROVE  call.review # 0 /\ Reviewed(w, rs, call, e.kind, e.target)
  <2>1. PICK i \in DOMAIN p : Confirms(p[i])
    BY <1>4 DEF IsPlanned
  <2>2. PICK j \in 1..(k - 1) : Confirms(p[j]) /\ Kept(p, j + 1, k - 1, p[k].kind)
    BY <1>1, <2>1 DEF Disciplined, WritesWhatWasShown
  <2> QED
    BY <1>1, <1>2, <2>2 DEF Placed, Established
<1>5. ~IsPlanned(p) => Reviewed(w, rs, call, e.kind, e.target)
  BY DEF CallOK, ReviewStands, Reviewed
<1>6. ASSUME p[k].op \in {"patch", "delete", "split"}
      PROVE  e.target \in Records
  <2>1. PICK i \in 1..(k - 1) : Names(p[i], p[k].kind) /\ Kept(p, i + 1, k - 1, p[k].kind)
    BY <1>1, <1>6 DEF Disciplined, WritesWhatItRead
  <2> QED
    BY <1>1, <1>2, <2>1 DEF Placed, Established
<1>7. ~Harmful(call, e)
  BY <1>3 DEF Harmful
<1> QED
  BY <1>4, <1>5, <1>6, <1>7 DEF SafeRequest

\* It is the same whether a call is a witness before or after it goes on or ends.
LEMMA WitnessEnds ==
  ASSUME NEW a \in CallsOf(tool), a.sent # <<>>, NEW v, NEW w, NEW outcome
  PROVE  Witness(Ended(a, outcome), v, w) = Ended(Witness(a, v, w), outcome)
<1> DEFINE left(S) == {kr \in S : w[kr[1]][kr[2]] = v[kr[1]][kr[2]]}
           sent == [i \in DOMAIN a.sent |-> Observed(a.sent[i], w, a.want)]
           there == IF Flying(a) THEN a.there ELSE {}
           b == Witness(a, v, w)
           z == Ended(a, outcome)
<1>1. /\ b.sent # <<>> /\ (Flying(b) <=> Flying(a)) /\ b \in CallsOf(tool)
      /\ b.dry = a.dry /\ b.want = a.want /\ b.review = a.review /\ b.there = left(a.there)
  BY WitnessFields DEF Flying
<1>2. b.sent = sent
  <2>1. "sent" \in DOMAIN a
    BY DEF CallsOf
  <2> QED
    BY <2>1 DEF Witness
<1>3. z = [pc |-> 0, dry |-> a.dry, want |-> a.want, target |-> <<>>, seen |-> <<>>, known |-> {},
           there |-> there, review |-> a.review, sent |-> a.sent, outcome |-> outcome]
  BY DEF Ended, CallsOf
<1>4. Ended(b, outcome) =
          [pc |-> 0, dry |-> a.dry, want |-> a.want, target |-> <<>>, seen |-> <<>>, known |-> {},
           there |-> IF Flying(a) THEN left(a.there) ELSE {}, review |-> a.review, sent |-> sent,
           outcome |-> outcome]
  <2> HIDE DEF b, sent, left
  <2> QED
    BY <1>1, <1>2 DEF Ended, CallsOf
<1>5. (IF Flying(a) THEN left(a.there) ELSE {}) = left(there)
  OBVIOUS
<1>6. Witness(z, v, w) = [z EXCEPT !.there = left(z.there),
                            !.sent = [i \in DOMAIN z.sent |-> Observed(z.sent[i], w, z.want)]]
  BY DEF Witness
<1> HIDE DEF there, z
<1>7. z.there = there /\ z.sent = a.sent /\ z.want = a.want
  BY <1>3
<1>8. Witness(z, v, w) = [z EXCEPT !.there = left(there), !.sent = sent]
  BY <1>6, <1>7
<1> HIDE DEF left, sent, b
<1>9. Witness(z, v, w) =
          [pc |-> 0, dry |-> a.dry, want |-> a.want, target |-> <<>>, seen |-> <<>>, known |-> {},
           there |-> left(there), review |-> a.review, sent |-> sent, outcome |-> outcome]
  BY <1>3, <1>8
<1> QED
  BY <1>4, <1>5, <1>9 DEF b, z

LEMMA WitnessAdvances ==
  ASSUME NEW a \in CallsOf(tool), a.sent # <<>>, NEW v, NEW w
  PROVE  Witness(Advanced(a), v, w) = Advanced(Witness(a, v, w))
<1> DEFINE b == Witness(a, v, w)
<1>1. b.pc = a.pc /\ b \in CallsOf(tool)
  BY WitnessFields
<1>2. CASE a.pc < Len(tool)
  <2> DEFINE there == {kr \in a.there : w[kr[1]][kr[2]] = v[kr[1]][kr[2]]}
             sent == [i \in DOMAIN a.sent |-> Observed(a.sent[i], w, a.want)]
             z == [a EXCEPT !.pc = a.pc + 1]
  <2>1. Advanced(a) = z /\ Advanced(b) = [b EXCEPT !.pc = a.pc + 1]
    BY <1>1, <1>2 DEF Advanced
  <2>2. z.there = a.there /\ z.sent = a.sent /\ z.want = a.want
    BY DEF CallsOf
  <2>3. Witness(z, v, w) = [z EXCEPT !.there = there, !.sent = sent]
    <3> HIDE DEF z
    <3>1. Witness(z, v, w) = [z EXCEPT !.there = {kr \in z.there : w[kr[1]][kr[2]] = v[kr[1]][kr[2]]},
                          !.sent = [i \in DOMAIN z.sent |-> Observed(z.sent[i], w, z.want)]]
      BY DEF Witness
    <3> QED
      BY <2>2, <3>1
  <2>4. b = [a EXCEPT !.there = there, !.sent = sent]
    BY DEF Witness
  <2> HIDE DEF there, sent, b
  <2>5. [z EXCEPT !.there = there, !.sent = sent] = [b EXCEPT !.pc = a.pc + 1]
    BY <2>4 DEF CallsOf
  <2> QED
    BY <2>1, <2>3, <2>5 DEF b
<1>3. CASE ~(a.pc < Len(tool))
  BY <1>1, <1>3, WitnessEnds DEF Advanced
<1> QED
  BY <1>2, <1>3

-----------------------------------------------------------------------------
(* Sending.                                                                   *)

\* A call that has sent e, and goes on about the records `target`.
Sending(call, e, target) == [call EXCEPT !.sent = Append(call.sent, e), !.target = target]

LEMMA SendingFields ==
  ASSUME NEW call \in CallsOf(tool), NEW e \in Requests(tool),
         NEW target \in [KindsOf(tool) -> Target]
  PROVE  LET next == Sending(call, e, target) IN
         /\ next \in CallsOf(tool)
         /\ next.pc = call.pc /\ next.want = call.want /\ next.there = call.there
         /\ next.target = target /\ next.seen = call.seen /\ next.review = call.review
         /\ next.outcome = call.outcome /\ next.sent = Append(call.sent, e)
         /\ next.sent # <<>> /\ DOMAIN next.sent = 1..(Len(call.sent) + 1)
         /\ Len(call.sent) \in Nat /\ DOMAIN call.sent = 1..Len(call.sent)
         /\ next.sent[Len(call.sent) + 1] = e
         /\ \A i \in DOMAIN call.sent : i \in DOMAIN next.sent /\ next.sent[i] = call.sent[i]
<1> DEFINE next == Sending(call, e, target)
           sent == Append(call.sent, e)
<1>1. call.sent \in Seq(Requests(tool))
  BY CallFields
<1>2. /\ sent \in Seq(Requests(tool)) /\ sent # <<>> /\ DOMAIN sent = 1..(Len(call.sent) + 1)
      /\ Len(call.sent) \in Nat /\ DOMAIN call.sent = 1..Len(call.sent)
      /\ sent[Len(call.sent) + 1] = e
      /\ \A i \in DOMAIN call.sent : i \in DOMAIN sent /\ sent[i] = call.sent[i]
  BY <1>1, EmptySeq
<1>3. next = [call EXCEPT !.sent = sent, !.target = target]
  BY DEF Sending
<1> HIDE DEF sent, next
<1>4. /\ next \in CallsOf(tool)
      /\ next.pc = call.pc /\ next.want = call.want /\ next.there = call.there
      /\ next.target = target /\ next.seen = call.seen /\ next.review = call.review
      /\ next.outcome = call.outcome /\ next.sent = sent
  BY <1>2, <1>3 DEF CallsOf
<1> QED
  BY <1>2, <1>4 DEF next, sent

\* What is known of a call that has sent e when the world has turned to w.
SentOn(w, rs, call, e, target) ==
  LET n == call.pc + 1
      moved == Sending(call, e, target)
      b == Witness(moved, world, w) IN
  /\ moved \in CallsOf(tool) /\ moved.sent # <<>>
  /\ b.pc = call.pc /\ b.review = call.review
  /\ Sound(w, rs, tool, b) /\ Placed(w, rs, tool, b, n)
  /\ \A i \in DOMAIN b.sent :
       \/ b.sent[i].status = e.status
       \/ i \in DOMAIN call.sent /\ b.sent[i].status = call.sent[i].status
  /\ \/ tool \in BarcodeTraces
     \/ e.status # "void" /\ Holds(w, e, call.want)
     \/ Awaits(tool, moved, e, n)
     => AllSettled(tool, b, n)

\* The request a call is about to send.
NextRequest(call, answer) == Request(tool[call.pc], call.target[tool[call.pc].kind], answer)

LEMMA SendStep ==
  ASSUME Disciplined(tool), NEW w, NEW rs, NEW call,
         CallOK(world, rs, tool, call), call.pc # 0, Writing(tool[call.pc]),
         NEW answer, NEW e, e = NextRequest(call, answer),
         NEW target \in [KindsOf(tool) -> Target],
         \A kind \in KindsOf(tool) :
           kind # tool[call.pc].kind => target[kind] = call.target[kind]
  PROVE  SentOn(w, rs, call, e, target)
<1> DEFINE k == call.pc
           moved == Sending(call, e, target)
           b == Witness(moved, world, w)
           last == Len(call.sent) + 1
<1>1. /\ Program(tool) /\ Sound(world, rs, tool, call) /\ k \in DOMAIN tool
      /\ call \in CallsOf(tool) /\ call.outcome = "none"
      /\ call.target \in [KindsOf(tool) -> Target] /\ call.seen \in [KindsOf(tool) -> Content]
      /\ Placed(world, rs, tool, call, k) /\ AllSettled(tool, call, k)
  BY UnderWay DEF Disciplined
<1>2. k \in Nat \ {0} /\ tool[k].kind \in KindsOf(tool)
  BY <1>1, StepTyped
<1>3. /\ e \in Requests(tool) /\ e.kind = tool[k].kind /\ e.apart = tool[k].apart
      /\ e.target = call.target[tool[k].kind]
  <2> DEFINE t == call.target[tool[k].kind]
  <2>1. t \in Target /\ Program(tool) /\ k \in DOMAIN tool /\ Writing(tool[k])
    BY <1>1, <1>2
  <2> HIDE DEF t, k
  <2>2. /\ Request(tool[k], t, answer) \in Requests(tool)
        /\ Request(tool[k], t, answer).kind = tool[k].kind
        /\ Request(tool[k], t, answer).apart = tool[k].apart
        /\ Request(tool[k], t, answer).target = t
    BY <2>1, RequestFields
  <2> QED
    BY <2>2 DEF t, k, NextRequest
<1>4. SafeRequest(world, rs, call, e) /\ (IsPlanned(tool) => call.review # 0)
  BY <1>3, WriteIsSafe DEF NextRequest
<1>5. /\ moved \in CallsOf(tool)
      /\ moved.pc = call.pc /\ moved.want = call.want /\ moved.there = call.there
      /\ moved.target = target /\ moved.seen = call.seen /\ moved.review = call.review
      /\ moved.outcome = call.outcome
      /\ moved.sent # <<>> /\ DOMAIN moved.sent = 1..last
      /\ Len(call.sent) \in Nat /\ DOMAIN call.sent = 1..Len(call.sent)
      /\ moved.sent[last] = e
      /\ \A i \in DOMAIN call.sent : i \in DOMAIN moved.sent /\ moved.sent[i] = call.sent[i]
  <2>1. e \in Requests(tool)
    BY <1>3
  <2>2. call \in CallsOf(tool)
    BY <1>1
  <2> HIDE DEF k, last
  <2>3. /\ moved \in CallsOf(tool)
        /\ moved.pc = call.pc /\ moved.want = call.want /\ moved.there = call.there
        /\ moved.target = target /\ moved.seen = call.seen /\ moved.review = call.review
        /\ moved.outcome = call.outcome /\ moved.sent # <<>>
    BY <2>1, <2>2, SendingFields
  <2>4. /\ DOMAIN moved.sent = 1..(Len(call.sent) + 1)
        /\ Len(call.sent) \in Nat /\ DOMAIN call.sent = 1..Len(call.sent)
        /\ moved.sent[Len(call.sent) + 1] = e
        /\ \A i \in DOMAIN call.sent : i \in DOMAIN moved.sent /\ moved.sent[i] = call.sent[i]
    BY <2>1, <2>2, SendingFields
  <2> HIDE DEF moved
  <2> QED
    BY <2>3, <2>4 DEF last
<1> HIDE DEF moved
<1>6. \A i \in DOMAIN moved.sent :
        \/ i = last /\ moved.sent[i] = e
        \/ i \in DOMAIN call.sent /\ moved.sent[i] = call.sent[i]
  BY <1>5
<1> HIDE DEF last
<1>7. SafeRequests(world, rs, moved) /\ ThereIsLive(world, moved)
  <2>1. \A r : SafeRequest(world, rs, call, r) => SafeRequest(world, rs, moved, r)
    BY <1>5 DEF SafeRequest, Harmful, Reviewed
  <2>2. \A i \in DOMAIN moved.sent : SafeRequest(world, rs, moved, moved.sent[i])
    BY <1>1, <1>4, <1>6, <2>1 DEF Sound, SafeRequests
  <2>3. ThereIsLive(world, moved)
    BY <1>1, <1>5 DEF Sound, ThereIsLive
  <2> QED
    BY <2>2, <2>3 DEF SafeRequests
<1>8. Retains(tool, k, call, moved) /\ Confirmed(world, rs, tool, call, moved)
  BY <1>5 DEF Retains, Confirmed, Keeps, Writing
<1>9. \A kind \in KindsOf(tool) : Established(world, rs, tool, moved, k, kind)
  BY DEF Established, Names, Clears, Empties, Confirms, Writing
<1>10. ~Early(tool, k + 1)
  BY <1>2 DEF Early
<1>11. Placed(world, rs, tool, moved, k + 1)
  <2> HIDE DEF k
  <2> QED
    BY <1>1, <1>5, <1>8, <1>9, <1>10, PlacedNext DEF k
<1>12. Placed(w, rs, tool, b, k + 1)
  BY <1>5, <1>11, PlaceMoves
<1>13. /\ b \in CallsOf(tool) /\ b.pc = k /\ b.review = call.review /\ b.want = call.want
       /\ b.sent # <<>> /\ DOMAIN b.sent = DOMAIN moved.sent
       /\ \A i \in DOMAIN moved.sent :
            /\ b.sent[i].status = moved.sent[i].status
            /\ b.sent[i].held <=> \/ moved.sent[i].held
                                  \/ /\ moved.sent[i].status # "void"
                                     /\ Holds(w, moved.sent[i], moved.want)
  <2>1. moved \in CallsOf(tool) /\ moved.sent # <<>> /\ moved.pc = k /\ moved.review = call.review
    BY <1>5
  <2>2. /\ b \in CallsOf(tool) /\ b.pc = moved.pc /\ b.review = moved.review /\ b.want = moved.want
        /\ DOMAIN b.sent = DOMAIN moved.sent /\ (b.sent = <<>> <=> moved.sent = <<>>)
    BY <2>1, WitnessFields
  <2>3. ASSUME NEW i \in DOMAIN moved.sent
        PROVE  /\ b.sent[i].status = moved.sent[i].status
               /\ b.sent[i].held <=> \/ moved.sent[i].held
                                     \/ /\ moved.sent[i].status # "void"
                                        /\ Holds(w, moved.sent[i], moved.want)
    BY <2>1, WitnessFields
  <2> QED
    BY <1>5, <2>1, <2>2, <2>3
<1>14. \A i \in DOMAIN moved.sent :
         Awaits(tool, moved, moved.sent[i], k + 1) => Awaits(tool, b, b.sent[i], k + 1)
  BY <1>5, AwaitsMoves
<1>15. SafeRequests(w, rs, b) /\ AllNoticed(w, b) /\ ThereIsLive(w, b)
  BY <1>5, <1>7, RequestsMove
<1> HIDE DEF b
<1>16. ReviewStands(tool, rs, b)
  BY <1>1, <1>4, <1>13 DEF Sound, ReviewStands
<1>17. Sound(w, rs, tool, b)
  BY <1>13, <1>15, <1>16 DEF Sound
<1>18. \A i \in DOMAIN b.sent :
         \/ b.sent[i].status = e.status
         \/ i \in DOMAIN call.sent /\ b.sent[i].status = call.sent[i].status
  BY <1>6, <1>13
<1>19. ASSUME NEW i \in DOMAIN call.sent, Awaits(tool, call, call.sent[i], k)
       PROVE  Awaits(tool, moved, call.sent[i], k + 1)
  <2>1. ~Decides(tool[k], call.sent[i])
    BY DEF Decides, Writing
  <2>2. call.sent[i].kind \in KindsOf(tool)
    BY <1>1, SentFields
  <2> HIDE DEF k
  <2> QED
    BY <1>1, <1>8, <1>19, <2>1, <2>2, AwaitsNext
<1>20. ASSUME \/ tool \in BarcodeTraces
              \/ e.status # "void" /\ Holds(w, e, call.want)
              \/ Awaits(tool, moved, e, k + 1)
       PROVE  AllSettled(tool, b, k + 1)
  <2>1. ASSUME tool \notin BarcodeTraces, NEW i \in DOMAIN moved.sent
        PROVE  b.sent[i].held \/ Awaits(tool, b, b.sent[i], k + 1)
    <3>1. CASE moved.sent[i] = e
      BY <1>5, <1>13, <1>14, <1>20, <2>1, <3>1
    <3>2. CASE i \in DOMAIN call.sent /\ moved.sent[i] = call.sent[i]
      <4>1. call.sent[i].held \/ Awaits(tool, call, call.sent[i], k)
        BY <1>1, <2>1, <3>2 DEF AllSettled
      <4> QED
        BY <1>13, <1>14, <1>19, <2>1, <3>2, <4>1
    <3> QED
      BY <1>6, <2>1, <3>1, <3>2
  <2> QED
    BY <1>13, <2>1 DEF AllSettled
<1> QED
  BY <1>5, <1>12, <1>13, <1>17, <1>18, <1>20 DEF SentOn, k, moved, b

\* The calls after the world has turned.
WorldTurnOK ==
  /\ world' \in Worlds(tool) /\ DOMAIN calls' = Calls /\ ~harm' /\ ~drift'
  /\ \A d \in Calls : /\ CallOK(world', reviews, tool, calls'[d])
                      /\ calls'[d].review \in {0, calls[d].review}

\* The calls that only look on.
LEMMA OthersMove ==
  ASSUME IInv, NEW cs, NEW w, NEW d \in Calls, cs[d] = calls[d]
  PROVE  /\ CallOK(w, reviews, tool, Witnessed(cs, w)[d])
         /\ Witnessed(cs, w)[d].review = calls[d].review
         /\ DOMAIN Witnessed(cs, w) = Calls
<1>1. CallOK(world, reviews, tool, calls[d]) /\ calls[d] \in CallsOf(tool)
  BY DEF IInv, CallOK
<1>2. Witnessed(cs, w)[d] = Witness(calls[d], world, w) /\ DOMAIN Witnessed(cs, w) = Calls
  BY WitnessedIs
<1>3. CallOK(w, reviews, tool, Witness(calls[d], world, w))
  BY <1>1, CallMoves
<1>4. Witness(calls[d], world, w).review = calls[d].review
  BY <1>1, WitnessFields
<1> QED
  BY <1>2, <1>3, <1>4

\* One call does something, the others look on.
LEMMA CallsTurn ==
  ASSUME IInv, NEW c \in Calls, NEW call, NEW w,
         CallOK(w, reviews, tool, Witness(call, world, w)),
         Witness(call, world, w).review \in {0, calls[c].review}
  PROVE  LET later == Witnessed([calls EXCEPT ![c] = call], w) IN
         /\ DOMAIN later = Calls
         /\ \A d \in Calls : /\ CallOK(w, reviews, tool, later[d])
                             /\ later[d].review \in {0, calls[d].review}
<1> DEFINE cs == [calls EXCEPT ![c] = call]
           later == Witnessed(cs, w)
<1>1. cs[c] = call /\ \A d \in Calls \ {c} : cs[d] = calls[d]
  BY DEF IInv, TypeOK
<1> HIDE DEF cs
<1>2. later[c] = Witness(call, world, w) /\ DOMAIN later = Calls
  BY <1>1, WitnessedIs
<1>3. \A d \in Calls \ {c} : CallOK(w, reviews, tool, later[d]) /\ later[d].review = calls[d].review
  BY <1>1, OthersMove
<1> HIDE DEF later
<1>4. \A d \in Calls : CallOK(w, reviews, tool, later[d]) /\ later[d].review \in {0, calls[d].review}
  BY <1>2, <1>3
<1> QED
  BY <1>2, <1>4 DEF later, cs

LEMMA AckedOK ==
  ASSUME IInv, NEW c \in Calls, Send(c, "acked")
  PROVE  WorldTurnOK
<1> DEFINE call == calls[c]
           k == call.pc
           kind == tool[k].kind
           e == Request(tool[k], call.target[kind], "acked")
           target == [call.target EXCEPT ![kind] = Landing(world, e)]
           moved == Sending(call, e, target)
           b == Witness(moved, world, world')
<1>1. /\ Running(c) /\ Disciplined(tool) /\ Program(tool) /\ world \in Worlds(tool)
      /\ CallOK(world, reviews, tool, call) /\ k # 0 /\ call \in CallsOf(tool)
      /\ Now(c) = tool[k] /\ Writing(tool[k])
  BY OfCall DEF Send, Now
<1>2. /\ k \in DOMAIN tool /\ call.target \in [KindsOf(tool) -> Target] /\ kind \in KindsOf(tool)
      /\ call.want \in Contents
  BY <1>1, UnderWay, StepTyped, CallFields
<1>3. /\ e \in Requests(tool) /\ e.kind = kind /\ e.apart = tool[k].apart
      /\ e.target = call.target[kind] /\ e.status = "acked"
  <2> DEFINE t == call.target[kind]
  <2>1. t \in Target /\ Program(tool) /\ k \in DOMAIN tool /\ Writing(tool[k])
    BY <1>1, <1>2
  <2> HIDE DEF t, k
  <2>2. /\ Request(tool[k], t, "acked") \in Requests(tool)
        /\ Request(tool[k], t, "acked").kind = tool[k].kind
        /\ Request(tool[k], t, "acked").apart = tool[k].apart
        /\ Request(tool[k], t, "acked").target = t
        /\ Request(tool[k], t, "acked").status = Fate("acked")
    BY <2>1, RequestFields
  <2> QED
    BY <2>2 DEF t, Fate
<1>4. Lands(call, e)
  BY <1>1 DEF Send
<1>5. calls' = Witnessed([calls EXCEPT ![c] = Advanced(moved)], world')
  <2>1. [[call EXCEPT !.sent = Append(call.sent, e)] EXCEPT !.target[kind] = Landing(world, e)]
           = moved
    <3> HIDE DEF e, kind
    <3>1. DOMAIN call = {"pc", "dry", "want", "target", "seen", "known", "there", "review", "sent",
                         "outcome"}
      BY <1>1 DEF CallsOf
    <3> QED
      BY <3>1 DEF Sending
  <2>2. calls' = Witnessed([calls EXCEPT ![c] = Advanced(
                   [[call EXCEPT !.sent = Append(call.sent, e)]
                      EXCEPT !.target[kind] = Landing(world, e)])], world')
    BY <1>1 DEF Send
  <2> QED
    BY <2>1, <2>2
<1> HIDE DEF e
<1>6. /\ world' = Landed(world, e, call.want) /\ CanLand(world, e)
  BY <1>4 DEF Lands
<1>7. /\ Landing(world, e) \in Records /\ world' \in Worlds(tool) /\ Holds(world', e, call.want)
  BY <1>1, <1>2, <1>3, <1>6, LandsTyped
<1>8. ~harm' /\ ~drift'
  <2>1. SafeRequest(world, reviews, call, e)
    BY <1>1, <1>3, WriteIsSafe
  <2>2. ~Harmful(call, e) /\ ~Drifted(call, e)
    BY <2>1 DEF SafeRequest, Reviewed, Drifted
  <2> QED
    BY <1>4, <2>2 DEF Lands, IInv
<1>9. /\ target \in [KindsOf(tool) -> Target]
      /\ \A other \in KindsOf(tool) : other # kind => target[other] = call.target[other]
  <2>1. Landing(world, e) \in Target
    BY <1>7 DEF Target
  <2> HIDE DEF kind
  <2> QED
    BY <1>2, <2>1
<1> HIDE DEF target
<1>10. /\ moved \in CallsOf(tool) /\ moved.sent # <<>>
       /\ b.pc = k /\ b.review = call.review
       /\ Sound(world', reviews, tool, b) /\ Placed(world', reviews, tool, b, k + 1)
       /\ AllSettled(tool, b, k + 1)
  <2>1. e = Request(tool[k], call.target[tool[k].kind], "acked") /\ e.status # "void"
    BY <1>3 DEF e
  <2> QED
    <3>1. SentOn(world', reviews, call, e, target)
      BY <1>1, <1>9, <2>1, SendStep DEF NextRequest
    <3> QED
      BY <1>7, <2>1, <3>1 DEF SentOn
<1> HIDE DEF k, moved
<1>11. CallOK(world', reviews, tool, Advanced(b)) /\ b \in CallsOf(tool)
  BY <1>1, <1>2, <1>10, AdvancedOK DEF Sound
<1>12. Advanced(b).review \in {0, call.review}
  BY <1>10, <1>11, ReviewAfter
<1>13. Witness(Advanced(moved), world, world') = Advanced(b)
  BY <1>10, WitnessAdvances
<1> HIDE DEF b
<1> QED
  BY <1>5, <1>7, <1>8, <1>11, <1>12, <1>13, CallsTurn DEF WorldTurnOK

\* An answer that is not an acknowledgement: what it leaves open is verified, or owned up
\* to.
LEMMA UnackedOK ==
  ASSUME IInv, NEW c \in Calls, NEW answer \in Answers \ {"acked"}, Send(c, answer)
  PROVE  WorldTurnOK
<1> DEFINE call == calls[c]
           k == call.pc
           kind == tool[k].kind
           t == call.target[kind]
           e == Request(tool[k], t, answer)
           moved == Sending(call, e, call.target)
           b == Witness(moved, world, world)
           outcome == tool[k].on[answer]
<1>1. /\ Running(c) /\ Disciplined(tool) /\ Program(tool) /\ world \in Worlds(tool)
      /\ CallOK(world, reviews, tool, call) /\ k # 0 /\ call \in CallsOf(tool)
      /\ Now(c) = tool[k] /\ Writing(tool[k])
  BY OfCall DEF Send, Now
<1>2. /\ k \in DOMAIN tool /\ call.target \in [KindsOf(tool) -> Target] /\ kind \in KindsOf(tool)
      /\ Placed(world, reviews, tool, call, k) /\ k \in 1..Len(tool) /\ Len(tool) \in Nat
  BY <1>1, UnderWay, StepTyped
<1>3. /\ e \in Requests(tool) /\ e.kind = kind /\ e.apart = tool[k].apart
      /\ e.target = t /\ e.status = Fate(answer)
      /\ tool[k].op \in {"create", "put"} => e.op = "create" \/ e.upsert
      /\ tool[k].op \notin {"create", "put"} => e.op = tool[k].op /\ ~e.upsert
  <2>1. t \in Target /\ Program(tool) /\ k \in DOMAIN tool /\ Writing(tool[k])
    BY <1>1, <1>2
  <2> HIDE DEF t, k
  <2> QED
    BY <2>1, RequestFields
<1>4. /\ answer \in DOMAIN Plainly /\ e.status \in {"flying", "void"}
      /\ e.status = "void" <=> answer \in {"refused", "absent", "definite"}
      /\ e.status = "flying" <=> answer \in {"pacing", "timeout", "failure"}
  BY <1>3, Events DEF Answers, Fate
<1>5. /\ calls' = Witnessed([calls EXCEPT ![c] =
                    IF outcome = "verify" THEN Advanced(moved) ELSE Ended(moved, outcome)], world)
      /\ world' = world /\ harm' = harm /\ drift' = drift
  <2>1. [call EXCEPT !.sent = Append(call.sent, e)] = moved
    <3> HIDE DEF e
    <3>1. DOMAIN call = {"pc", "dry", "want", "target", "seen", "known", "there", "review", "sent",
                         "outcome"}
          /\ call = [f \in DOMAIN call |-> call[f]]
      BY <1>1 DEF CallsOf
    <3> QED
      BY <3>1 DEF Sending
  <2>2. /\ calls' = Witnessed([calls EXCEPT ![c] =
                    IF outcome = "verify" THEN Advanced([call EXCEPT !.sent = Append(call.sent, e)])
                    ELSE Ended([call EXCEPT !.sent = Append(call.sent, e)], outcome)], world)
        /\ world' = world /\ harm' = harm /\ drift' = drift
    BY <1>1 DEF Send
  <2> QED
    BY <2>1, <2>2
<1>6. SafeRequest(world, reviews, call, e)
      /\ (tool[k].op \in {"patch", "delete", "split"} => e.target \in Records)
  <2> HIDE DEF e
  <2> QED
    BY <1>1, <1>3, WriteIsSafe
<1>7. /\ moved \in CallsOf(tool) /\ moved.sent # <<>> /\ moved.target = call.target
      /\ b.pc = k /\ b.review = call.review
      /\ Sound(world, reviews, tool, b) /\ Placed(world, reviews, tool, b, k + 1)
      /\ \A i \in DOMAIN b.sent :
           \/ b.sent[i].status = e.status
           \/ i \in DOMAIN call.sent /\ b.sent[i].status = call.sent[i].status
      /\ tool \in BarcodeTraces \/ Awaits(tool, moved, e, k + 1) => AllSettled(tool, b, k + 1)
  <2>1. moved.target = call.target
    <3> HIDE DEF e
    <3> QED BY <1>1, <1>2, <1>3, SendingFields
  <2>2. e = Request(tool[k], call.target[tool[k].kind], answer)
    OBVIOUS
  <2> HIDE DEF e
  <2> QED
    <3>1. SentOn(world, reviews, call, e, call.target)
      BY <1>1, <1>2, <2>2, SendStep DEF NextRequest
    <3> QED
      BY <2>1, <3>1 DEF SentOn
<1> HIDE DEF e, moved, b
<1>8. ASSUME outcome = "verify", tool \notin BarcodeTraces
      PROVE  Awaits(tool, moved, e, k + 1)
  <2>1. answer \in {"pacing", "timeout", "failure"} /\ e.status = "flying"
    BY <1>1, <1>2, <1>4, <1>8 DEF Disciplined, SettlesWhatIsOpen, Answers
  <2>2. PICK m \in (k + 1)..Len(tool) :
          Settles(tool[m], tool[k]) /\ Kept(tool, k + 1, m - 1, kind)
    BY <1>1, <1>2, <1>8, <2>1 DEF Disciplined, SettlesWhatIsOpen
  <2>3. Decides(tool[m], e)
    BY <1>3, <1>6, <2>2 DEF Decides, Settles
  <2> QED
    BY <1>3, <1>7, <2>1, <2>2, <2>3 DEF Awaits
<1>9. CASE outcome = "verify"
  <2>1. AllSettled(tool, b, k + 1)
    BY <1>7, <1>8, <1>9
  <2> HIDE DEF k
  <2>2. CallOK(world, reviews, tool, Advanced(b)) /\ b \in CallsOf(tool)
    BY <1>1, <1>2, <1>7, <2>1, AdvancedOK DEF Sound
  <2>3. Advanced(b).review \in {0, call.review}
    BY <1>7, <2>2, ReviewAfter
  <2>4. Witness(Advanced(moved), world, world) = Advanced(b)
    BY <1>7, WitnessAdvances DEF b
  <2> QED
    BY <1>1, <1>5, <1>9, <2>2, <2>3, <2>4, CallsTurn DEF WorldTurnOK, IInv
<1>10. CASE outcome # "verify"
  <2>1. outcome \in Outcomes \ {"none"} /\ Truthful(tool, call, outcome)
        /\ outcome \in {"refused", "error", "deadline", "partial", "verify"}
    BY <1>1, <1>2, <1>4, AnswersTruly, StepTyped
  <2>2. outcome = "refused" => e.status = "void"
    BY <1>1, <1>2, <1>4 DEF Disciplined, SettlesWhatIsOpen
  <2> HIDE DEF outcome
  <2>3. Truthful(tool, b, outcome)
    BY <1>4, <1>7, <2>1, <2>2 DEF Truthful
  <2>4. CallOK(world, reviews, tool, Ended(b, outcome)) /\ b \in CallsOf(tool)
    BY <1>1, <1>7, <2>1, <2>3, EndedOK DEF Sound
  <2>5. Ended(b, outcome).review \in {0, call.review}
    BY <1>7, <2>4, ReviewAfter
  <2>6. Witness(Ended(moved, outcome), world, world) = Ended(b, outcome)
    BY <1>7, WitnessEnds DEF b
  <2> QED
    BY <1>1, <1>5, <1>10, <2>4, <2>5, <2>6, CallsTurn DEF WorldTurnOK, IInv
<1> QED
  BY <1>9, <1>10

LEMMA SendOK ==
  ASSUME IInv, NEW c \in Calls, NEW answer \in Answers, Send(c, answer)
  PROVE  WorldTurnOK /\ UNCHANGED <<tool, reviews>>
<1>1. WorldTurnOK
  BY AckedOK, UnackedOK
<1> QED
  BY <1>1 DEF Send

-----------------------------------------------------------------------------
(* The world.                                                                 *)

\* A request that arrives late finds the call as it was, or ended.
LEMMA LandedOK ==
  ASSUME NEW p, NEW v, NEW w, NEW rs, NEW call, CallOK(v, rs, p, call),
         NEW i \in DOMAIN call.sent, call.sent[i].status = "flying",
         Holds(w, call.sent[i], call.want)
  PROVE  LET next == [call EXCEPT !.sent[i].status = "landed"] IN
         CallOK(w, rs, p, Witness(next, v, w)) /\ Witness(next, v, w).review = call.review
<1> DEFINE e == call.sent[i]
           landed == [e EXCEPT !.status = "landed"]
           next == [call EXCEPT !.sent[i].status = "landed"]
           b == Witness(next, v, w)
<1>1. /\ call \in CallsOf(p) /\ call.sent \in Seq(Requests(p)) /\ e \in Requests(p)
      /\ SafeRequests(v, rs, call) /\ AllNoticed(v, call) /\ ThereIsLive(v, call)
      /\ ReviewStands(p, rs, call) /\ OutcomeTrue(p, call)
      /\ call.pc # 0 => Placed(v, rs, p, call, call.pc) /\ AllSettled(p, call, call.pc)
  BY CallFields, SentFields DEF CallOK
<1>2. /\ landed \in Requests(p) /\ landed.op = e.op /\ landed.kind = e.kind
      /\ landed.target = e.target /\ landed.apart = e.apart /\ (landed.upsert <=> e.upsert)
      /\ landed.status = "landed"
  BY <1>1 DEF Requests
<1>3. next = [call EXCEPT !.sent = [call.sent EXCEPT ![i] = landed]]
  BY <1>1 DEF CallsOf
<1> HIDE DEF landed, next
<1>4. /\ [call.sent EXCEPT ![i] = landed] \in Seq(Requests(p))
      /\ DOMAIN [call.sent EXCEPT ![i] = landed] = DOMAIN call.sent
      /\ [call.sent EXCEPT ![i] = landed][i] = landed
      /\ \A j \in DOMAIN call.sent : j # i => [call.sent EXCEPT ![i] = landed][j] = call.sent[j]
  BY <1>1, <1>2
<1>5. /\ next \in CallsOf(p) /\ next.pc = call.pc /\ next.want = call.want
      /\ next.there = call.there /\ next.target = call.target /\ next.seen = call.seen
      /\ next.review = call.review /\ next.outcome = call.outcome
      /\ DOMAIN next.sent = DOMAIN call.sent
      /\ next.sent[i] = landed /\ \A j \in DOMAIN call.sent : j # i => next.sent[j] = call.sent[j]
  BY <1>1, <1>3, <1>4 DEF CallsOf
<1>6. SafeRequests(v, rs, next) /\ ThereIsLive(v, next)
  <2>1. \A r : SafeRequest(v, rs, call, r) => SafeRequest(v, rs, next, r)
    BY <1>5 DEF SafeRequest, Harmful, Reviewed
  <2>2. SafeRequest(v, rs, next, landed)
    <3>1. SafeRequest(v, rs, next, e)
      BY <1>1, <2>1 DEF SafeRequests
    <3> HIDE DEF e
    <3> QED
      BY <1>2, <3>1 DEF SafeRequest, Harmful, Reviewed
  <2>3. SafeRequests(v, rs, next)
    BY <1>1, <1>5, <2>1, <2>2 DEF SafeRequests
  <2> QED
    BY <1>1, <1>5, <2>3 DEF ThereIsLive
<1>7. SafeRequests(w, rs, b) /\ AllNoticed(w, b) /\ ThereIsLive(w, b)
  BY <1>5, <1>6, RequestsMove
<1>8. ASSUME call.pc # 0
      PROVE  Placed(w, rs, p, b, call.pc)
  <2>1. next.sent # <<>> /\ call.sent # <<>>
    BY <1>1, <1>5, EmptySeq
  <2>2. Placed(v, rs, p, next, call.pc)
    BY <1>1, <1>5, <1>8, <2>1 DEF Placed, Established, Reviewed
  <2> QED
    BY <1>5, <2>2, PlaceMoves
<1>9. /\ b \in CallsOf(p) /\ b.pc = call.pc /\ b.want = call.want
      /\ b.review = call.review /\ b.outcome = call.outcome /\ b.target = call.target
      /\ DOMAIN b.sent = DOMAIN call.sent /\ (b.sent = <<>> <=> next.sent = <<>>)
  BY <1>5, WitnessFields
<1>10. ASSUME NEW j \in DOMAIN call.sent
       PROVE  /\ b.sent[j].status = IF j = i THEN "landed" ELSE call.sent[j].status
              /\ b.sent[j].held <=> \/ next.sent[j].held
                                    \/ /\ next.sent[j].status # "void"
                                       /\ Holds(w, next.sent[j], next.want)
              /\ j # i => /\ b.sent[j].op = call.sent[j].op /\ b.sent[j].kind = call.sent[j].kind
                          /\ b.sent[j].target = call.sent[j].target
                          /\ (b.sent[j].upsert <=> call.sent[j].upsert)
  <2>1. j \in DOMAIN next.sent
    BY <1>5
  <2>2. /\ b.sent[j].status = next.sent[j].status
        /\ b.sent[j].held <=> \/ next.sent[j].held
                              \/ /\ next.sent[j].status # "void"
                                 /\ Holds(w, next.sent[j], next.want)
        /\ b.sent[j].op = next.sent[j].op /\ b.sent[j].kind = next.sent[j].kind
        /\ b.sent[j].target = next.sent[j].target /\ b.sent[j].upsert = next.sent[j].upsert
    BY <1>5, <2>1, WitnessFields
  <2> HIDE DEF b
  <2> QED
    BY <1>2, <1>5, <2>2
<1>11. Holds(w, landed, call.want)
  <2> HIDE DEF e
  <2> QED
    BY <1>2 DEF Holds, e
<1>12. b.sent[i].held
  BY <1>2, <1>5, <1>10, <1>11
<1>13. \A j \in DOMAIN call.sent : call.sent[j].held => b.sent[j].held
  BY <1>5, <1>10, <1>12
<1> HIDE DEF b
<1>14. ReviewStands(p, rs, b)
  <2>1. call.sent # <<>>
    BY <1>1, EmptySeq
  <2> QED
    BY <1>1, <1>9, <2>1 DEF ReviewStands
<1>15. OutcomeTrue(p, b)
  <2>1. \A j \in DOMAIN b.sent : b.sent[j].status # "void" => call.sent[j].status # "void"
    BY <1>9, <1>10
  <2>2. call.outcome \notin {"refused", "unchanged"}
    BY <1>1 DEF OutcomeTrue
  <2>3. \A j \in DOMAIN b.sent : b.sent[j].status = "acked" => call.sent[j].status = "acked"
    BY <1>9, <1>10
  <2> QED
    BY <1>1, <1>9, <1>13, <2>2, <2>3 DEF OutcomeTrue
<1>16. ASSUME call.pc # 0
       PROVE  AllSettled(p, b, call.pc)
  <2>1. ASSUME NEW j \in DOMAIN call.sent, j # i, Awaits(p, call, call.sent[j], call.pc)
        PROVE  Awaits(p, b, b.sent[j], call.pc)
    BY <1>9, <1>10, <2>1 DEF Awaits, Decides
  <2> QED
    BY <1>1, <1>9, <1>12, <1>13, <1>16, <2>1 DEF AllSettled
<1>17. CallOK(w, rs, p, b)
  BY <1>7, <1>8, <1>9, <1>14, <1>15, <1>16 DEF CallOK
<1> QED
  BY <1>9, <1>17 DEF b, next

LEMMA LandOK ==
  ASSUME IInv, NEW c \in Calls, NEW i \in DOMAIN calls[c].sent, Land(c, i)
  PROVE  WorldTurnOK /\ UNCHANGED <<tool, reviews>>
<1> DEFINE call == calls[c]
           e == call.sent[i]
           next == [call EXCEPT !.sent[i].status = "landed"]
<1>1. /\ world \in Worlds(tool) /\ CallOK(world, reviews, tool, call) /\ call \in CallsOf(tool)
      /\ call.want \in Contents /\ e \in Requests(tool)
  BY CallFields, SentFields DEF IInv, TypeOK, CallOK
<1>2. /\ e.status = "flying" /\ Lands(call, e)
      /\ calls' = Witnessed([calls EXCEPT ![c] = next], world')
  BY DEF Land, IInv, TypeOK
<1>3. world' \in Worlds(tool) /\ Holds(world', e, call.want)
  BY <1>1, <1>2, LandsTyped DEF Lands
<1>4. ~harm' /\ ~drift'
  <2>1. SafeRequest(world, reviews, call, e)
    BY <1>1 DEF CallOK, SafeRequests
  <2>2. ~Harmful(call, e) /\ ~Drifted(call, e)
    BY <2>1 DEF SafeRequest, Reviewed, Drifted
  <2> QED
    BY <1>2, <2>2 DEF Lands, IInv
<1>5. CallOK(world', reviews, tool, Witness(next, world, world'))
      /\ Witness(next, world, world').review = call.review
  BY <1>1, <1>2, <1>3, LandedOK
<1> HIDE DEF next
<1>6. WorldTurnOK
  BY <1>2, <1>3, <1>4, <1>5, CallsTurn DEF WorldTurnOK
<1> QED
  BY <1>6 DEF Land

LEMMA ForeignOK ==
  ASSUME IInv, NEW kind \in Kinds, NEW r \in Records, NEW to \in Contents \cup {"gone"},
         Foreign(kind, r, to)
  PROVE  WorldTurnOK /\ UNCHANGED <<tool, reviews>>
<1>1. world' \in Worlds(tool)
  BY OfTool DEF IInv, TypeOK, Foreign, Worlds, Content
<1>2. \A d \in Calls : /\ CallOK(world', reviews, tool, calls'[d])
                       /\ calls'[d].review = calls[d].review
  BY OthersMove DEF Foreign
<1>3. DOMAIN calls' = Calls /\ ~harm' /\ ~drift'
  BY WitnessedIs DEF Foreign, Witnessed, IInv
<1> QED
  BY <1>1, <1>2, <1>3 DEF WorldTurnOK, Foreign

-----------------------------------------------------------------------------
(* The invariant is inductive.                                                *)

LEMMA InitInv == Init /\ ToolsAreDisciplined => IInv
<1> SUFFICES ASSUME Init, ToolsAreDisciplined PROVE IInv
  OBVIOUS
<1>1. Disciplined(tool) /\ Program(tool)
  BY DEF ToolsAreDisciplined, DisciplinedTraces, Disciplined
<1>2. world \in Worlds(tool)
  BY OfTool DEF Init, Worlds, Content, Contents
<1>3. reviews \in Seq(Reviews(tool)) /\ calls = [c \in Calls |-> Idle]
  BY DEF Init
<1>4. \A c \in Calls : CallOK(world, reviews, tool, calls[c]) /\ calls[c].review = 0
  <2>1. CallOK(world, reviews, tool, Idle) /\ Idle.review = 0
    BY <1>1, IdleOK DEF Idle
  <2> QED
    BY <1>3, <2>1
<1> QED
  BY <1>1, <1>2, <1>3, <1>4 DEF IInv, TypeOK, TokensOnce, Init

LEMMA TurnKeeps ==
  ASSUME IInv, NEW c \in Calls, TurnOK(c), UNCHANGED reviews
  PROVE  IInv'
<1>1. PICK next : /\ Becomes(c, next) /\ CallOK(world, reviews, tool, next)
                  /\ next.review \in {0, calls[c].review}
  BY DEF TurnOK
<1>2. /\ calls'[c] = next /\ \A d \in Calls \ {c} : calls'[d] = calls[d]
      /\ DOMAIN calls' = Calls
      /\ tool' = tool /\ world' = world /\ reviews' = reviews /\ harm' = harm /\ drift' = drift
  BY <1>1 DEF Becomes, IInv, TypeOK
<1>3. TypeOK' /\ ~harm' /\ ~drift'
  BY <1>2 DEF IInv, TypeOK
<1>4. TokensOnce'
  BY <1>1, <1>2 DEF IInv, TokensOnce
<1>5. \A d \in Calls : CallOK(world', reviews', tool', calls'[d])
  BY <1>1, <1>2 DEF IInv
<1> QED
  BY <1>3, <1>4, <1>5 DEF IInv

LEMMA ReviewTurnKeeps ==
  ASSUME IInv, NEW c \in Calls, ReviewTurnOK(c)
  PROVE  IInv'
<1>1. PICK next : /\ Becomes(c, next) /\ CallOK(world, reviews', tool, next)
                  /\ Grown(reviews, reviews') /\ reviews' \in Seq(Reviews(tool))
                  /\ \/ next.review \in {0, calls[c].review}
                     \/ HasToken(tool) => \A d \in Calls : calls[d].review # next.review
  BY DEF ReviewTurnOK
<1>2. /\ calls'[c] = next /\ \A d \in Calls \ {c} : calls'[d] = calls[d]
      /\ DOMAIN calls' = Calls
      /\ tool' = tool /\ world' = world /\ harm' = harm /\ drift' = drift
  BY <1>1 DEF Becomes, IInv, TypeOK
<1>3. TypeOK' /\ ~harm' /\ ~drift'
  BY <1>1, <1>2 DEF IInv, TypeOK
<1>4. TokensOnce'
  BY <1>1, <1>2 DEF IInv, TokensOnce
<1>5. ASSUME NEW d \in Calls
      PROVE  CallOK(world', reviews', tool', calls'[d])
  <2>1. CASE d = c
    BY <1>1, <1>2, <2>1
  <2>2. CASE d # c
    <3>1. CallOK(world, reviews, tool, calls[d])
      BY DEF IInv
    <3>2. CallOK(world, reviews', tool, calls[d])
      BY <1>1, <3>1, CallKept
    <3> QED
      BY <1>2, <2>2, <3>2
  <2> QED
    BY <2>1, <2>2
<1> QED
  BY <1>3, <1>4, <1>5 DEF IInv

LEMMA WorldTurnKeeps ==
  ASSUME IInv, WorldTurnOK, UNCHANGED <<tool, reviews>>
  PROVE  IInv'
<1>1. TypeOK' /\ ~harm' /\ ~drift'
  BY DEF WorldTurnOK, IInv, TypeOK
<1>2. TokensOnce'
  BY DEF WorldTurnOK, IInv, TokensOnce
<1>3. \A d \in Calls : CallOK(world', reviews', tool', calls'[d])
  BY DEF WorldTurnOK
<1> QED
  BY <1>1, <1>2, <1>3 DEF IInv

\* One step per action.
LEMMA NextKeeps == IInv /\ [Next]_vars => IInv'
<1> SUFFICES ASSUME IInv, [Next]_vars PROVE IInv'
  OBVIOUS
<1>1. ASSUME NEW c \in Calls, NEW dry \in BOOLEAN, NEW want \in Contents, Start(c, dry, want)
      PROVE  IInv'
  BY <1>1, StartOK, TurnKeeps
<1>2. ASSUME NEW c \in Calls, Read(c) PROVE IInv'
  BY <1>2, ReadOK, TurnKeeps
<1>3. ASSUME NEW c \in Calls, Reread(c) PROVE IInv'
  BY <1>3, RereadOK, TurnKeeps
<1>4. ASSUME NEW c \in Calls, Confirm(c) PROVE IInv'
  BY <1>4, ConfirmOK, TurnKeeps, ReviewTurnKeeps
<1>5. ASSUME NEW c \in Calls, NEW answer \in Answers, Send(c, answer) PROVE IInv'
  BY <1>5, SendOK, WorldTurnKeeps
<1>6. ASSUME NEW c \in Calls, NEW i \in DOMAIN calls[c].sent, Land(c, i) PROVE IInv'
  BY <1>6, LandOK, WorldTurnKeeps
<1>7. ASSUME NEW c \in Calls, Check(c) PROVE IInv'
  BY <1>7, CheckOK, TurnKeeps
<1>8. ASSUME NEW kind \in Kinds, NEW r \in Records, NEW to \in Contents \cup {"gone"},
             Foreign(kind, r, to)
      PROVE  IInv'
  BY <1>8, ForeignOK, WorldTurnKeeps
<1>9. ASSUME UNCHANGED vars PROVE IInv'
  BY <1>9 DEF vars, IInv, TypeOK, TokensOnce
<1> QED
  BY <1>1, <1>2, <1>3, <1>4, <1>5, <1>6, <1>7, <1>8, <1>9 DEF Next, Foreign

LEMMA Invariant == Spec /\ ToolsAreDisciplined => []IInv
BY InitInv, NextKeeps, PTL DEF Spec

-----------------------------------------------------------------------------
(* The theorems.  Their premise, that the tool keeps the discipline, is what the *)
(* invariant ToolsAreDisciplined says of every tool there is.                  *)

\* What a call reports as done was done: in whatever order calls, late requests and
\* other users come, and however often, each request of a call that answered "ok" held
\* at some instant after it was sent (OkWasReal; the tools' read-backs).
THEOREM SuccessIsReal == Spec /\ ToolsAreDisciplined => []OkWasReal
<1>1. IInv => OkWasReal
  BY DEF IInv, CallOK, OutcomeTrue, OkWasReal
<1> QED
  BY <1>1, Invariant, PTL

\* A refusal or a finding that nothing is to be done leaves no request behind that took
\* effect or may, and no acknowledged write ends in a mere error (AnswersOwnUp;
\* definiteMutationRejection, the reads before a write, the partial failures after it).
THEOREM NoAnswerHides == Spec /\ ToolsAreDisciplined => []AnswersOwnUp
<1>1. IInv => AnswersOwnUp
  BY DEF IInv, CallOK, OutcomeTrue, AnswersOwnUp
<1> QED
  BY <1>1, Invariant, PTL

\* No request ever meets a record that was there unchanged since its call began and that
\* it must not meet, however late it arrives (HarmOnlyInWindow; the searches for duplicates
\* and dependants before a write).
THEOREM NoHarmInView == Spec /\ ToolsAreDisciplined => []HarmOnlyInWindow
<1>1. IInv => HarmOnlyInWindow
  BY DEF IInv, HarmOnlyInWindow
<1> QED
  BY <1>1, Invariant, PTL

\* A confirmed call writes what was shown, over what was shown, and no token serves two
\* (WritesWithinReviews; the plan hashes and confirmation tokens).
THEOREM WritesAsReviewed == Spec /\ ToolsAreDisciplined => []WritesWithinReviews
<1>1. ASSUME IInv PROVE WritesWithinReviews
  <2>1. ASSUME Planned, NEW c \in Calls, calls[c].sent # <<>>
        PROVE  /\ calls[c].review \in DOMAIN reviews
               /\ reviews[calls[c].review].want = calls[c].want
               /\ "token" \in Ops => \A d \in Calls \ {c} : calls[d].review # calls[c].review
    <3>1. IsPlanned(tool) /\ ReviewStands(tool, reviews, calls[c])
      BY <1>1, <2>1, OfTool DEF IInv, CallOK
    <3>2. calls[c].review # 0
      BY <2>1, <3>1 DEF ReviewStands
    <3> QED
      BY <1>1, <3>1, <3>2, OfTool DEF ReviewStands, IInv, TokensOnce
  <2> QED
    BY <1>1, <2>1 DEF WritesWithinReviews, IInv
<1> QED
  BY <1>1, Invariant, PTL
=============================================================================
