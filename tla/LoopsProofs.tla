------------------------------ MODULE LoopsProofs ------------------------------
(***************************************************************************)
(* Proofs about the two loops every tool stands on.                          *)
(*                                                                          *)
(* A bulk call (BatchExecute), for every number of items, however the request  *)
(* names its records, every concurrency and any number of foreign writes.  The *)
(* checked properties speak of outcomes, of PATCHes and of what the client was *)
(* told.  The inductive invariant ties each of them to where the item's closure *)
(* is: what it has found out, sent and counted by then.                        *)
(*                                                                          *)
(* The paged reads (PagedReads), for every list, filter, page size and bound.   *)
(* A list is a finite set of numbers, and a record stands at the place its set  *)
(* gives it; what a loop has read is told from the places before its offset.    *)
(***************************************************************************)
EXTENDS BatchExecute, PagedReads, FiniteSetTheorems, SequenceTheorems, TLAPS

-----------------------------------------------------------------------------
(* The bulk call: where a closure is.                                         *)

\* The closure has recorded its result and drawn its number.
Concluded(i) == stage[i] \in {"reporting", "sending", "done"}

\* A result and a number exist from the moment a closure concludes.
ResultsInv ==
  \A i \in Items :
    /\ outcome[i] # "none" <=> Concluded(i)
    /\ number[i] # 0 <=> Concluded(i)

\* Nothing is sent before the preflight is done, and nothing at all of an item whose
\* record another one names.
SendingInv ==
  \A i \in Items :
    /\ stage[i] \in {"queued", "begun", "preflighted"} => patch[i] = "unsent"
    /\ stage[i] \in {"preflighted", "recovering", "mutated"} \/ patch[i] # "unsent"
         => i \notin Duplicates

\* What the preflight accepted is still there unless another actor wrote it.
PreflightInv ==
  \A i \in Items : stage[i] = "preflighted" /\ i \notin raced => Held(i) # "other"

\* A record that holds the target now has held it.
AchievedInv == \A r \in Records : world[r] = "target" => r \in achieved

Numbered == {i \in Items : number[i] # 0}

\* The numbers drawn are 1, 2, ... up to the counter, each by one item.
CountInv ==
  /\ completed = Cardinality(Numbered)
  /\ \A i \in Numbered : number[i] \in 1..completed
  /\ \A i, j \in Numbered : number[i] = number[j] => i = j
  /\ \A k \in 1..completed : \E i \in Numbered : number[i] = k

\* What the client was told are numbers of items that are done, each once, and the
\* last number is told before its item is done.
NotifiedInv ==
  /\ \A k \in 1..Len(notified) : \E i \in Items : stage[i] = "done" /\ number[i] = notified[k]
  /\ \A j, k \in 1..Len(notified) : notified[j] = notified[k] => j = k
  /\ \A i \in Items : stage[i] = "done" /\ number[i] = N => \E k \in 1..Len(notified) : notified[k] = N

IInv ==
  /\ TypeOK /\ ResultsInv /\ SendingInv /\ PreflightInv /\ AchievedInv
  /\ OutcomesAreTrue /\ CountInv /\ NotifiedInv

-----------------------------------------------------------------------------
\* Concluding an item counts one that was not counted: the counter is below N and the
\* item's number is a new one.
LEMMA Counting ==
  ASSUME TypeOK, ResultsInv, CountInv,
         NEW i \in Items, NEW o, ~Concluded(i), Conclude(i, o)
  PROVE  /\ completed < N
         /\ completed' = completed + 1
         /\ number' = [number EXCEPT ![i] = completed + 1]
         /\ CountInv'
<1>1. /\ completed' = completed + 1
      /\ number' = [number EXCEPT ![i] = completed + 1]
      /\ number \in [Items -> 0..N] /\ completed \in 0..N
  BY DEF Conclude, Counted, TypeOK
<1>2. number[i] = 0 /\ i \notin Numbered
  BY DEF ResultsInv, Numbered
<1>3. IsFiniteSet(Items) /\ Cardinality(Items) = N
  BY FS_Interval, BatchAssumption DEF Items
<1>4. Numbered \cup {i} \subseteq Items /\ IsFiniteSet(Numbered)
  BY <1>3, FS_Subset DEF Numbered
<1>5. Cardinality(Numbered \cup {i}) = completed + 1
  BY <1>2, <1>4, FS_AddElement DEF CountInv
<1>6. completed + 1 <= N
  BY <1>3, <1>4, <1>5, FS_Subset
<1>7. Numbered' = Numbered \cup {i}
  BY <1>1, <1>2 DEF Numbered
<1>8. \A j \in Numbered' : number'[j] \in 1..completed'
  BY <1>1, <1>2, <1>4, <1>7 DEF CountInv
<1>9. \A j, k \in Numbered' : number'[j] = number'[k] => j = k
  BY <1>1, <1>2, <1>4, <1>7 DEF CountInv
<1>10. \A n \in 1..completed' : \E j \in Numbered' : number'[j] = n
  <2> SUFFICES ASSUME NEW n \in 1..completed'
               PROVE  \E j \in Numbered' : number'[j] = n
    OBVIOUS
  <2>1. CASE n = completed + 1
    BY <1>1, <1>4, <1>7, <2>1
  <2>2. CASE n \in 1..completed
    <3>1. PICK j \in Numbered : number[j] = n
      BY <2>2 DEF CountInv
    <3>2. QED
      BY <1>1, <1>2, <1>4, <1>7, <3>1
  <2>3. QED
    BY <1>1, <2>1, <2>2
<1>11. completed' = Cardinality(Numbered')
  BY <1>1, <1>5, <1>7
<1>12. CountInv'
  BY <1>8, <1>9, <1>10, <1>11 DEF CountInv
<1>13. QED
  BY <1>1, <1>6, <1>12, BatchAssumption

\* A conclusion keeps the types of what it writes.
LEMMA ConcludingTypes ==
  ASSUME TypeOK, ResultsInv, CountInv,
         NEW i \in Items, NEW o \in Outcomes, ~Concluded(i), Conclude(i, o)
  PROVE  /\ outcome' \in [Items -> Outcomes \cup {"none"}]
         /\ completed' \in 0..N
         /\ number' \in [Items -> 0..N]
         /\ stage' \in [Items -> Stages]
<1>1. completed < N /\ completed' = completed + 1
      /\ number' = [number EXCEPT ![i] = completed + 1]
  BY Counting
<1>2. outcome' = [outcome EXCEPT ![i] = o] /\ stage' = [stage EXCEPT ![i] = "reporting"]
  BY DEF Conclude, Goto
<1>3. completed \in 0..N /\ completed + 1 \in 0..N
  BY <1>1, BatchAssumption DEF TypeOK
<1>4. QED
  BY <1>1, <1>2, <1>3 DEF TypeOK, Stages

\* The types.
LEMMA TypeStep ==
  ASSUME TypeOK, ResultsInv, CountInv, [Next]_vars
  PROVE  TypeOK'
<1>1. ASSUME NEW i \in Items, Dispatch(i) PROVE TypeOK'
  BY <1>1 DEF Dispatch, Goto, TypeOK, Stages, request, outside, reporter, counter, channel
<1>2. ASSUME NEW i \in Items, Preflight(i) PROVE TypeOK'
  <2>1. UNCHANGED <<request, outside, channel, patch, raced>> /\ ~Concluded(i)
    BY <1>2 DEF Preflight, Concluded
  <2>2. CASE \E o \in Outcomes : Conclude(i, o)
    BY <2>1, <2>2, ConcludingTypes DEF TypeOK, request, outside, channel
  <2>3. CASE Continue(i, "preflighted")
    BY <2>1, <2>3 DEF Continue, Goto, TypeOK, Stages, request, outside, channel
  <2>4. QED
    BY <1>2, <2>2, <2>3 DEF Preflight, Outcomes
<1>3. ASSUME NEW i \in Items, PatchAnswered(i) PROVE TypeOK'
  <2>1. stage' = [stage EXCEPT ![i] = "mutated"] /\ patch' = [patch EXCEPT ![i] = "landed"]
        /\ UNCHANGED <<request, foreign, cancelled, reporter, outcome, raced>>
        /\ achieved' \in SUBSET Records
    BY <1>3 DEF PatchAnswered, Goto
  <2>2. world' \in [Records -> Values]
    BY <1>3 DEF PatchAnswered, Held, TypeOK, Values
  <2>3. QED
    BY <2>1, <2>2 DEF TypeOK, Stages, request, reporter, counter, channel
<1>4. ASSUME NEW i \in Items, PatchRejected(i) PROVE TypeOK'
  <2>1. UNCHANGED <<request, outside, channel, raced>> /\ ~Concluded(i)
        /\ patch' = [patch EXCEPT ![i] = "rejected"]
        /\ \E o \in Outcomes : Conclude(i, o)
    BY <1>4 DEF PatchRejected, Concluded, MutateErrorOutcome, Outcomes
  <2>2. QED
    BY <2>1, ConcludingTypes DEF TypeOK, request, outside, channel
<1>5. ASSUME NEW i \in Items, PatchUnanswered(i) PROVE TypeOK'
  BY <1>5 DEF PatchUnanswered, Goto, TypeOK, Stages, request, outside, reporter, counter, channel
<1>6. ASSUME NEW i \in Items, PatchLands(i) PROVE TypeOK'
  <2>1. world' \in [Records -> Values] /\ achieved' \subseteq Records
    BY <1>6 DEF PatchLands, TypeOK, Values
  <2>2. QED
    BY <1>6, <2>1 DEF PatchLands, TypeOK, request, reporter, counter, channel
<1>7. ASSUME NEW i \in Items, Recover(i) PROVE TypeOK'
  <2>1. UNCHANGED <<request, outside, channel, patch, raced>> /\ ~Concluded(i)
    BY <1>7 DEF Recover, Concluded
  <2>2. CASE \E o \in Outcomes : Conclude(i, o)
    BY <2>1, <2>2, ConcludingTypes DEF TypeOK, request, outside, channel
  <2>3. CASE Continue(i, "mutated")
    BY <2>1, <2>3 DEF Continue, Goto, TypeOK, Stages, request, outside, channel
  <2>4. QED
    BY <1>7, <2>2, <2>3 DEF Recover, Outcomes, MutateErrorOutcome
<1>8. ASSUME NEW i \in Items, Verify(i) PROVE TypeOK'
  <2>1. UNCHANGED <<request, outside, channel, patch, raced>> /\ ~Concluded(i)
        /\ \E o \in Outcomes : Conclude(i, o)
    BY <1>8 DEF Verify, Concluded, Outcomes
  <2>2. QED
    BY <2>1, ConcludingTypes DEF TypeOK, request, outside, channel
<1>9. ASSUME NEW i \in Items, Report(i) PROVE TypeOK'
  <2>1. UNCHANGED <<request, outside, outcome, patch, raced, completed, number, notified>>
    BY <1>9 DEF Report
  <2>2. mutex' \in 0..N
    BY <1>9, BatchAssumption DEF Report, Unlocked, Items
  <2>3. quiet' \in BOOLEAN
    BY <1>9 DEF Report, TypeOK
  <2>4. stage' \in [Items -> Stages]
    BY <1>9 DEF Report, Goto, TypeOK, Stages
  <2>5. QED
    BY <2>1, <2>2, <2>3, <2>4 DEF TypeOK, request, outside
<1>10. ASSUME NEW i \in Items, Notify(i) PROVE TypeOK'
  <2>1. number[i] \in Items
    BY <1>10 DEF Notify, ResultsInv, Concluded, TypeOK, Items
  <2>2. notified' \in Seq(Items) /\ mutex' \in 0..N
    BY <1>10, <2>1, AppendProperties, BatchAssumption DEF Notify, Unlocked, TypeOK
  <2>3. QED
    BY <1>10, <2>2 DEF Notify, Goto, TypeOK, Stages, request, outside
<1>11. ASSUME NEW r \in Records, NEW v \in Values, ForeignWrite(r, v) PROVE TypeOK'
  BY <1>11, BatchAssumption
     DEF ForeignWrite, PastPreflight, TypeOK, request, reporter, counter, channel
<1>12. CASE Cancel
  BY <1>12 DEF Cancel, TypeOK, request, work, reporter, counter, channel
<1>13. CASE IntervalPasses
  BY <1>13 DEF IntervalPasses, TypeOK, request, outside, work
<1>14. CASE UNCHANGED vars
  BY <1>14 DEF vars, TypeOK, request, outside, work, reporter, counter, channel
<1>15. QED
  BY <1>1, <1>2, <1>3, <1>4, <1>5, <1>6, <1>7, <1>8, <1>9, <1>10, <1>11, <1>12, <1>13, <1>14
     DEF Next, Step

-----------------------------------------------------------------------------
\* A conclusion gives the item a result and a number.
LEMMA ConcludingResults ==
  ASSUME TypeOK, ResultsInv, CountInv,
         NEW i \in Items, NEW o \in Outcomes, ~Concluded(i), Conclude(i, o)
  PROVE  ResultsInv'
<1>1. completed \in Nat /\ number' = [number EXCEPT ![i] = completed + 1]
  BY Counting DEF TypeOK
<1>2. outcome' = [outcome EXCEPT ![i] = o] /\ stage' = [stage EXCEPT ![i] = "reporting"]
  BY DEF Conclude, Goto
<1>3. o # "none"
  BY DEF Outcomes
<1>4. QED
  BY <1>1, <1>2, <1>3 DEF TypeOK, ResultsInv, Concluded

\* Results and numbers come with the conclusion and stay.
LEMMA ResultsStep ==
  ASSUME TypeOK, ResultsInv, CountInv, [Next]_vars
  PROVE  ResultsInv'
<1>1. ASSUME NEW i \in Items, Dispatch(i) PROVE ResultsInv'
  BY <1>1 DEF Dispatch, Goto, TypeOK, ResultsInv, Concluded, reporter, counter
<1>2. ASSUME NEW i \in Items, Preflight(i) PROVE ResultsInv'
  <2>1. UNCHANGED <<channel, patch>> /\ ~Concluded(i)
    BY <1>2 DEF Preflight, Concluded
  <2>2. CASE \E o \in Outcomes : Conclude(i, o)
    BY <2>1, <2>2, ConcludingResults
  <2>3. CASE Continue(i, "preflighted")
    BY <2>1, <2>3 DEF Continue, Goto, TypeOK, ResultsInv, Concluded
  <2>4. QED
    BY <1>2, <2>2, <2>3 DEF Preflight, Outcomes
<1>3. ASSUME NEW i \in Items, PatchAnswered(i) PROVE ResultsInv'
  BY <1>3 DEF PatchAnswered, Goto, TypeOK, ResultsInv, Concluded, reporter, counter
<1>4. ASSUME NEW i \in Items, PatchRejected(i) PROVE ResultsInv'
  BY <1>4, ConcludingResults DEF PatchRejected, Concluded, MutateErrorOutcome, Outcomes
<1>5. ASSUME NEW i \in Items, PatchUnanswered(i) PROVE ResultsInv'
  BY <1>5 DEF PatchUnanswered, Goto, TypeOK, ResultsInv, Concluded, reporter, counter
<1>6. ASSUME NEW i \in Items, PatchLands(i) PROVE ResultsInv'
  BY <1>6 DEF PatchLands, Goto, TypeOK, ResultsInv, Concluded, reporter, counter
<1>7. ASSUME NEW i \in Items, Recover(i) PROVE ResultsInv'
  <2>1. ~Concluded(i)
    BY <1>7 DEF Recover, Concluded
  <2>2. CASE \E o \in Outcomes : Conclude(i, o)
    BY <2>1, <2>2, ConcludingResults
  <2>3. CASE Continue(i, "mutated")
    BY <2>1, <2>3 DEF Continue, Goto, TypeOK, ResultsInv, Concluded
  <2>4. QED
    BY <1>7, <2>2, <2>3 DEF Recover, Outcomes, MutateErrorOutcome
<1>8. ASSUME NEW i \in Items, Verify(i) PROVE ResultsInv'
  BY <1>8, ConcludingResults DEF Verify, Concluded, Outcomes
<1>9. ASSUME NEW i \in Items, Report(i) PROVE ResultsInv'
  BY <1>9 DEF Report, Goto, TypeOK, ResultsInv, Concluded, reporter, counter
<1>10. ASSUME NEW i \in Items, Notify(i) PROVE ResultsInv'
  BY <1>10 DEF Notify, Goto, TypeOK, ResultsInv, Concluded, reporter, counter
<1>11. ASSUME NEW r \in Records, NEW v \in Values, ForeignWrite(r, v) PROVE ResultsInv'
  BY <1>11 DEF ForeignWrite, ResultsInv, Concluded, reporter, counter
<1>12. CASE Cancel
  BY <1>12 DEF Cancel, ResultsInv, Concluded, work, reporter, counter
<1>13. CASE IntervalPasses
  BY <1>13 DEF IntervalPasses, ResultsInv, Concluded, work
<1>14. CASE UNCHANGED vars
  BY <1>14 DEF vars, ResultsInv, Concluded, work, reporter, counter
<1>15. QED
  BY <1>1, <1>2, <1>3, <1>4, <1>5, <1>6, <1>7, <1>8, <1>9, <1>10, <1>11, <1>12, <1>13, <1>14 DEF Next, Step

\* The counter and the numbers drawn from it go together.
LEMMA CountStep ==
  ASSUME TypeOK, ResultsInv, CountInv, [Next]_vars
  PROVE  CountInv'
<1>1. ASSUME NEW i \in Items, Dispatch(i) PROVE CountInv'
  BY <1>1 DEF Dispatch, CountInv, Numbered, reporter, counter
<1>2. ASSUME NEW i \in Items, Preflight(i) PROVE CountInv'
  <2>1. CASE \E o \in Outcomes : Conclude(i, o)
    BY <1>2, <2>1, Counting DEF Preflight, Concluded
  <2>2. CASE UNCHANGED <<completed, number>>
    BY <2>2 DEF CountInv, Numbered
  <2>3. QED
    BY <1>2, <2>1, <2>2 DEF Preflight, Continue, Outcomes
<1>3. ASSUME NEW i \in Items, PatchAnswered(i) PROVE CountInv'
  BY <1>3 DEF PatchAnswered, CountInv, Numbered, reporter, counter
<1>4. ASSUME NEW i \in Items, PatchRejected(i) PROVE CountInv'
  BY <1>4, Counting DEF PatchRejected, Concluded
<1>5. ASSUME NEW i \in Items, PatchUnanswered(i) PROVE CountInv'
  BY <1>5 DEF PatchUnanswered, CountInv, Numbered, reporter, counter
<1>6. ASSUME NEW i \in Items, PatchLands(i) PROVE CountInv'
  BY <1>6 DEF PatchLands, CountInv, Numbered, reporter, counter
<1>7. ASSUME NEW i \in Items, Recover(i) PROVE CountInv'
  <2>1. CASE \E o \in Outcomes : Conclude(i, o)
    BY <1>7, <2>1, Counting DEF Recover, Concluded
  <2>2. CASE UNCHANGED <<completed, number>>
    BY <2>2 DEF CountInv, Numbered
  <2>3. QED
    BY <1>7, <2>1, <2>2 DEF Recover, Continue, Outcomes, MutateErrorOutcome
<1>8. ASSUME NEW i \in Items, Verify(i) PROVE CountInv'
  BY <1>8, Counting DEF Verify, Concluded
<1>9. ASSUME NEW i \in Items, Report(i) PROVE CountInv'
  BY <1>9 DEF Report, CountInv, Numbered, reporter, counter
<1>10. ASSUME NEW i \in Items, Notify(i) PROVE CountInv'
  BY <1>10 DEF Notify, CountInv, Numbered, reporter, counter
<1>11. ASSUME NEW r \in Records, NEW v \in Values, ForeignWrite(r, v) PROVE CountInv'
  BY <1>11 DEF ForeignWrite, CountInv, Numbered, reporter, counter
<1>12. CASE Cancel
  BY <1>12 DEF Cancel, CountInv, Numbered, reporter, counter
<1>13. CASE IntervalPasses
  BY <1>13 DEF IntervalPasses, CountInv, Numbered, reporter, counter
<1>14. CASE UNCHANGED vars
  BY <1>14 DEF vars, CountInv, Numbered, reporter, counter
<1>15. QED
  BY <1>1, <1>2, <1>3, <1>4, <1>5, <1>6, <1>7, <1>8, <1>9, <1>10, <1>11, <1>12, <1>13, <1>14 DEF Next, Step

\* Only a preflight that passed lets a PATCH go.
LEMMA SendingStep ==
  ASSUME TypeOK, SendingInv, [Next]_vars
  PROVE  SendingInv'
<1>1. ASSUME NEW i \in Items, Dispatch(i) PROVE SendingInv'
  BY <1>1 DEF Dispatch, Goto, TypeOK, SendingInv, Duplicates, request
<1>2. ASSUME NEW i \in Items, Preflight(i) PROVE SendingInv'
  <2>1. UNCHANGED <<named, patch>>
    BY <1>2 DEF Preflight, request
  <2>2. CASE stage' = [stage EXCEPT ![i] = "reporting"]
    BY <2>1, <2>2 DEF TypeOK, SendingInv, Duplicates
  <2>3. CASE stage' = [stage EXCEPT ![i] = "preflighted"] /\ i \notin Duplicates
    BY <1>2, <2>1, <2>3 DEF Preflight, TypeOK, SendingInv, Duplicates
  <2>4. QED
    BY <1>2, <2>2, <2>3 DEF Preflight, Conclude, Continue, Goto
<1>3. ASSUME NEW i \in Items, PatchAnswered(i) PROVE SendingInv'
  BY <1>3 DEF PatchAnswered, Goto, TypeOK, SendingInv, Duplicates, request
<1>4. ASSUME NEW i \in Items, PatchRejected(i) PROVE SendingInv'
  BY <1>4 DEF PatchRejected, Conclude, Goto, TypeOK, SendingInv, Duplicates, request
<1>5. ASSUME NEW i \in Items, PatchUnanswered(i) PROVE SendingInv'
  BY <1>5 DEF PatchUnanswered, Goto, TypeOK, SendingInv, Duplicates, request
<1>6. ASSUME NEW i \in Items, PatchLands(i) PROVE SendingInv'
  BY <1>6 DEF PatchLands, Goto, TypeOK, SendingInv, Duplicates, request
<1>7. ASSUME NEW i \in Items, Recover(i) PROVE SendingInv'
  <2>1. UNCHANGED <<named, patch>>
    BY <1>7 DEF Recover, request
  <2>2. CASE stage' = [stage EXCEPT ![i] = "reporting"] \/ stage' = [stage EXCEPT ![i] = "mutated"]
    BY <1>7, <2>1, <2>2 DEF Recover, TypeOK, SendingInv, Duplicates
  <2>3. QED
    BY <1>7, <2>2 DEF Recover, Conclude, Continue, Goto
<1>8. ASSUME NEW i \in Items, Verify(i) PROVE SendingInv'
  BY <1>8 DEF Verify, Conclude, Goto, TypeOK, SendingInv, Duplicates, request
<1>9. ASSUME NEW i \in Items, Report(i) PROVE SendingInv'
  BY <1>9 DEF Report, Goto, TypeOK, SendingInv, Duplicates, request
<1>10. ASSUME NEW i \in Items, Notify(i) PROVE SendingInv'
  BY <1>10 DEF Notify, Goto, TypeOK, SendingInv, Duplicates, request
<1>11. ASSUME NEW r \in Records, NEW v \in Values, ForeignWrite(r, v) PROVE SendingInv'
  BY <1>11 DEF ForeignWrite, Goto, TypeOK, SendingInv, Duplicates, request
<1>12. CASE Cancel
  BY <1>12 DEF Cancel, SendingInv, Duplicates, request, work
<1>13. CASE IntervalPasses
  BY <1>13 DEF IntervalPasses, SendingInv, Duplicates, request, work
<1>14. CASE UNCHANGED vars
  BY <1>14 DEF vars, SendingInv, Duplicates, request, work
<1>15. QED
  BY <1>1, <1>2, <1>3, <1>4, <1>5, <1>6, <1>7, <1>8, <1>9, <1>10, <1>11, <1>12, <1>13, <1>14 DEF Next, Step

\* Whoever writes the target, the record has held it from then on.
LEMMA AchievedStep ==
  ASSUME TypeOK, AchievedInv, [Next]_vars
  PROVE  AchievedInv' /\ achieved \subseteq achieved'
<1>1. ASSUME NEW i \in Items, Dispatch(i) PROVE AchievedInv' /\ achieved \subseteq achieved'
  BY <1>1 DEF Dispatch, AchievedInv, outside
<1>2. ASSUME NEW i \in Items, Preflight(i) PROVE AchievedInv' /\ achieved \subseteq achieved'
  BY <1>2 DEF Preflight, AchievedInv, outside
<1>3. ASSUME NEW i \in Items, PatchAnswered(i) PROVE AchievedInv' /\ achieved \subseteq achieved'
  BY <1>3 DEF PatchAnswered, AchievedInv, TypeOK
<1>4. ASSUME NEW i \in Items, PatchRejected(i) PROVE AchievedInv' /\ achieved \subseteq achieved'
  BY <1>4 DEF PatchRejected, AchievedInv, outside
<1>5. ASSUME NEW i \in Items, PatchUnanswered(i) PROVE AchievedInv' /\ achieved \subseteq achieved'
  BY <1>5 DEF PatchUnanswered, AchievedInv, outside
<1>6. ASSUME NEW i \in Items, PatchLands(i) PROVE AchievedInv' /\ achieved \subseteq achieved'
  BY <1>6 DEF PatchLands, AchievedInv, TypeOK, request
<1>7. ASSUME NEW i \in Items, Recover(i) PROVE AchievedInv' /\ achieved \subseteq achieved'
  BY <1>7 DEF Recover, AchievedInv, outside
<1>8. ASSUME NEW i \in Items, Verify(i) PROVE AchievedInv' /\ achieved \subseteq achieved'
  BY <1>8 DEF Verify, AchievedInv, outside
<1>9. ASSUME NEW i \in Items, Report(i) PROVE AchievedInv' /\ achieved \subseteq achieved'
  BY <1>9 DEF Report, AchievedInv, outside
<1>10. ASSUME NEW i \in Items, Notify(i) PROVE AchievedInv' /\ achieved \subseteq achieved'
  BY <1>10 DEF Notify, AchievedInv, outside
<1>11. ASSUME NEW r \in Records, NEW v \in Values, ForeignWrite(r, v) PROVE AchievedInv' /\ achieved \subseteq achieved'
  BY <1>11 DEF ForeignWrite, AchievedInv, TypeOK
<1>12. CASE Cancel
  BY <1>12 DEF Cancel, AchievedInv, outside
<1>13. CASE IntervalPasses
  BY <1>13 DEF IntervalPasses, AchievedInv, outside
<1>14. CASE UNCHANGED vars
  BY <1>14 DEF vars, AchievedInv, outside
<1>15. QED
  BY <1>1, <1>2, <1>3, <1>4, <1>5, <1>6, <1>7, <1>8, <1>9, <1>10, <1>11, <1>12, <1>13, <1>14 DEF Next, Step

\* Whatever puts another value there than the item was accepted with is a foreign write,
\* which marks the item.
LEMMA PreflightStep ==
  ASSUME TypeOK, PreflightInv, [Next]_vars
  PROVE  PreflightInv'
<1>1. ASSUME NEW i \in Items, Dispatch(i) PROVE PreflightInv'
  BY <1>1 DEF Dispatch, Goto, TypeOK, PreflightInv, Held, request, outside
<1>2. ASSUME NEW i \in Items, Preflight(i) PROVE PreflightInv'
  <2>1. UNCHANGED <<named, world, raced>>
    BY <1>2 DEF Preflight, request, outside
  <2>2. CASE stage' = [stage EXCEPT ![i] = "reporting"]
    BY <2>1, <2>2 DEF TypeOK, PreflightInv, Held
  <2>3. CASE stage' = [stage EXCEPT ![i] = "preflighted"] /\ Held(i) # "other"
    BY <2>1, <2>3 DEF TypeOK, PreflightInv, Held
  <2>4. QED
    BY <1>2, <2>2, <2>3 DEF Preflight, Drifted, Conclude, Continue, Goto
<1>3. ASSUME NEW i \in Items, PatchAnswered(i) PROVE PreflightInv'
  BY <1>3 DEF PatchAnswered, Goto, TypeOK, PreflightInv, Held, request, outside
<1>4. ASSUME NEW i \in Items, PatchRejected(i) PROVE PreflightInv'
  BY <1>4 DEF PatchRejected, Conclude, Goto, TypeOK, PreflightInv, Held, request, outside
<1>5. ASSUME NEW i \in Items, PatchUnanswered(i) PROVE PreflightInv'
  BY <1>5 DEF PatchUnanswered, Goto, TypeOK, PreflightInv, Held, request, outside
<1>6. ASSUME NEW i \in Items, PatchLands(i) PROVE PreflightInv'
  BY <1>6 DEF PatchLands, TypeOK, PreflightInv, Held, request
<1>7. ASSUME NEW i \in Items, Recover(i) PROVE PreflightInv'
  BY <1>7 DEF Recover, Conclude, Continue, Goto, TypeOK, PreflightInv, Held, request, outside
<1>8. ASSUME NEW i \in Items, Verify(i) PROVE PreflightInv'
  BY <1>8 DEF Verify, Conclude, Goto, TypeOK, PreflightInv, Held, request, outside
<1>9. ASSUME NEW i \in Items, Report(i) PROVE PreflightInv'
  BY <1>9 DEF Report, Goto, TypeOK, PreflightInv, Held, request, outside
<1>10. ASSUME NEW i \in Items, Notify(i) PROVE PreflightInv'
  BY <1>10 DEF Notify, Goto, TypeOK, PreflightInv, Held, request, outside
<1>11. ASSUME NEW r \in Records, NEW v \in Values, ForeignWrite(r, v) PROVE PreflightInv'
  BY <1>11 DEF ForeignWrite, PastPreflight, TypeOK, PreflightInv, Held, request
<1>12. CASE Cancel
  BY <1>12 DEF Cancel, PreflightInv, Held, request, work
<1>13. CASE IntervalPasses
  BY <1>13 DEF IntervalPasses, PreflightInv, Held, request, outside, work
<1>14. CASE UNCHANGED vars
  BY <1>14 DEF vars, PreflightInv, Held, request, outside, work
<1>15. QED
  BY <1>1, <1>2, <1>3, <1>4, <1>5, <1>6, <1>7, <1>8, <1>9, <1>10, <1>11, <1>12, <1>13, <1>14 DEF Next, Step

\* An outcome is true when it is recorded, and stays so: a PATCH that was never sent does
\* not land, and what a record has held it has held.
LEMMA OutcomesStep ==
  ASSUME TypeOK, ResultsInv, SendingInv, AchievedInv, OutcomesAreTrue, [Next]_vars
  PROVE  OutcomesAreTrue'
<1>0. achieved \subseteq achieved'
  BY AchievedStep
<1>1. ASSUME NEW i \in Items, Dispatch(i) PROVE OutcomesAreTrue'
  BY <1>0, <1>1 DEF Dispatch, TypeOK, OutcomesAreTrue, NothingWrittenMeansNothingSent, SuccessWasReal, request, work
<1>2. ASSUME NEW i \in Items, Preflight(i) PROVE OutcomesAreTrue'
  <2>1. UNCHANGED <<named, patch>> /\ patch[i] = "unsent" /\ named[i] \in Records
    BY <1>2 DEF Preflight, SendingInv, TypeOK, request
  <2>2. CASE outcome' = outcome
    BY <1>0, <2>1, <2>2 DEF TypeOK, OutcomesAreTrue, NothingWrittenMeansNothingSent, SuccessWasReal
  <2>3. ASSUME NEW o \in {"failed", "unattempted"}, outcome' = [outcome EXCEPT ![i] = o]
        PROVE  OutcomesAreTrue'
    BY <1>0, <2>1, <2>3 DEF TypeOK, OutcomesAreTrue, NothingWrittenMeansNothingSent, SuccessWasReal
  <2>4. CASE outcome' = [outcome EXCEPT ![i] = "skipped"] /\ AtTarget(i)
    BY <1>0, <2>1, <2>4 DEF TypeOK, OutcomesAreTrue, NothingWrittenMeansNothingSent, SuccessWasReal, AtTarget, Held, AchievedInv
  <2>5. QED
    BY <1>2, <2>2, <2>3, <2>4 DEF Preflight, Conclude, Continue
<1>3. ASSUME NEW i \in Items, PatchAnswered(i) PROVE OutcomesAreTrue'
  BY <1>0, <1>3 DEF PatchAnswered, ResultsInv, Concluded, TypeOK, OutcomesAreTrue, NothingWrittenMeansNothingSent, SuccessWasReal, request
<1>4. ASSUME NEW i \in Items, PatchRejected(i) PROVE OutcomesAreTrue'
  BY <1>0, <1>4 DEF PatchRejected, Conclude, MutateErrorOutcome, TypeOK, OutcomesAreTrue, NothingWrittenMeansNothingSent, SuccessWasReal, request
<1>5. ASSUME NEW i \in Items, PatchUnanswered(i) PROVE OutcomesAreTrue'
  BY <1>0, <1>5 DEF PatchUnanswered, ResultsInv, Concluded, TypeOK, OutcomesAreTrue, NothingWrittenMeansNothingSent, SuccessWasReal, request
<1>6. ASSUME NEW i \in Items, PatchLands(i) PROVE OutcomesAreTrue'
  BY <1>0, <1>6 DEF PatchLands, TypeOK, OutcomesAreTrue, NothingWrittenMeansNothingSent, SuccessWasReal, request, work
<1>7. ASSUME NEW i \in Items, Recover(i) PROVE OutcomesAreTrue'
  BY <1>0, <1>7 DEF Recover, Conclude, Continue, MutateErrorOutcome, TypeOK, OutcomesAreTrue, NothingWrittenMeansNothingSent, SuccessWasReal, request
<1>8. ASSUME NEW i \in Items, Verify(i) PROVE OutcomesAreTrue'
  <2>1. UNCHANGED <<named, patch>> /\ named[i] \in Records
    BY <1>8 DEF Verify, TypeOK, request
  <2>2. CASE outcome' = [outcome EXCEPT ![i] = "unverified"]
    BY <1>0, <2>1, <2>2 DEF TypeOK, OutcomesAreTrue, NothingWrittenMeansNothingSent, SuccessWasReal
  <2>3. CASE outcome' = [outcome EXCEPT ![i] = "applied"] /\ AtTarget(i)
    BY <1>0, <2>1, <2>3 DEF TypeOK, OutcomesAreTrue, NothingWrittenMeansNothingSent, SuccessWasReal, AtTarget, Held, AchievedInv
  <2>4. QED
    BY <1>8, <2>2, <2>3 DEF Verify, Verifies, Conclude
<1>9. ASSUME NEW i \in Items, Report(i) PROVE OutcomesAreTrue'
  BY <1>0, <1>9 DEF Report, TypeOK, OutcomesAreTrue, NothingWrittenMeansNothingSent, SuccessWasReal, request, work
<1>10. ASSUME NEW i \in Items, Notify(i) PROVE OutcomesAreTrue'
  BY <1>0, <1>10 DEF Notify, TypeOK, OutcomesAreTrue, NothingWrittenMeansNothingSent, SuccessWasReal, request, work
<1>11. ASSUME NEW r \in Records, NEW v \in Values, ForeignWrite(r, v) PROVE OutcomesAreTrue'
  BY <1>0, <1>11 DEF ForeignWrite, TypeOK, OutcomesAreTrue, NothingWrittenMeansNothingSent, SuccessWasReal, request, work
<1>12. CASE Cancel
  BY <1>0, <1>12 DEF Cancel, TypeOK, OutcomesAreTrue, NothingWrittenMeansNothingSent, SuccessWasReal, request, work
<1>13. CASE IntervalPasses
  BY <1>0, <1>13 DEF IntervalPasses, TypeOK, OutcomesAreTrue, NothingWrittenMeansNothingSent, SuccessWasReal, request, work
<1>14. CASE UNCHANGED vars
  BY <1>0, <1>14 DEF vars, TypeOK, OutcomesAreTrue, NothingWrittenMeansNothingSent, SuccessWasReal, request, work
<1>15. QED
  BY <1>1, <1>2, <1>3, <1>4, <1>5, <1>6, <1>7, <1>8, <1>9, <1>10, <1>11, <1>12, <1>13, <1>14 DEF Next, Step

\* What was told stays told while a closure moves between steps that end nothing.
LEMMA StillDone ==
  ASSUME TypeOK, NotifiedInv, NEW i \in Items, NEW s \in Stages \ {"done"},
         stage[i] # "done", stage' = [stage EXCEPT ![i] = s], UNCHANGED <<number, notified>>
  PROVE  NotifiedInv'
BY DEF TypeOK, NotifiedInv

\* A conclusion tells the client nothing yet.
LEMMA ConcludingNotifies ==
  ASSUME TypeOK, ResultsInv, CountInv, NotifiedInv, NEW i \in Items, NEW o \in Outcomes,
         ~Concluded(i), Conclude(i, o), notified' = notified
  PROVE  NotifiedInv'
<1>1. completed \in Nat /\ number' = [number EXCEPT ![i] = completed + 1]
  BY Counting DEF TypeOK
<1>2. stage[i] # "done" /\ stage' = [stage EXCEPT ![i] = "reporting"]
  BY DEF Conclude, Goto, Concluded
<1>3. QED
  BY <1>1, <1>2 DEF TypeOK, NotifiedInv

\* Every number is told at most once, and the last one before its closure ends: the throttle
\* lets it pass.
LEMMA NotifiedStep ==
  ASSUME TypeOK, ResultsInv, CountInv, NotifiedInv, [Next]_vars
  PROVE  NotifiedInv'
<1>1. ASSUME NEW i \in Items, Dispatch(i) PROVE NotifiedInv'
  BY <1>1, StillDone DEF Stages, Dispatch, Goto, reporter, counter, channel
<1>2. ASSUME NEW i \in Items, Preflight(i) PROVE NotifiedInv'
  <2>1. stage[i] = "begun" /\ notified' = notified
    BY <1>2 DEF Preflight, channel
  <2>2. CASE UNCHANGED number /\ stage' = [stage EXCEPT ![i] = "preflighted"]
    BY <2>1, <2>2, StillDone DEF Stages
  <2>3. CASE \E o \in Outcomes : Conclude(i, o)
    BY <2>1, <2>3, ConcludingNotifies DEF Concluded
  <2>4. QED
    BY <1>2, <2>2, <2>3 DEF Preflight, Continue, Goto, Outcomes
<1>3. ASSUME NEW i \in Items, PatchAnswered(i) PROVE NotifiedInv'
  BY <1>3, StillDone DEF Stages, PatchAnswered, Goto, reporter, counter, channel
<1>4. ASSUME NEW i \in Items, PatchRejected(i) PROVE NotifiedInv'
  BY <1>4, ConcludingNotifies DEF PatchRejected, Concluded, MutateErrorOutcome, Outcomes, channel
<1>5. ASSUME NEW i \in Items, PatchUnanswered(i) PROVE NotifiedInv'
  BY <1>5, StillDone DEF Stages, PatchUnanswered, Goto, reporter, counter, channel
<1>6. ASSUME NEW i \in Items, PatchLands(i) PROVE NotifiedInv'
  BY <1>6 DEF PatchLands, NotifiedInv, reporter, counter, channel
<1>7. ASSUME NEW i \in Items, Recover(i) PROVE NotifiedInv'
  <2>1. stage[i] = "recovering" /\ notified' = notified
    BY <1>7 DEF Recover, channel
  <2>2. CASE UNCHANGED number /\ stage' = [stage EXCEPT ![i] = "mutated"]
    BY <2>1, <2>2, StillDone DEF Stages
  <2>3. CASE \E o \in Outcomes : Conclude(i, o)
    BY <2>1, <2>3, ConcludingNotifies DEF Concluded
  <2>4. QED
    BY <1>7, <2>2, <2>3 DEF Recover, Continue, Goto, Outcomes, MutateErrorOutcome
<1>8. ASSUME NEW i \in Items, Verify(i) PROVE NotifiedInv'
  BY <1>8, ConcludingNotifies DEF Verify, Concluded, Outcomes, channel
<1>9. ASSUME NEW i \in Items, Report(i) PROVE NotifiedInv'
  <2>1. UNCHANGED <<number, notified>> /\ stage[i] = "reporting"
    BY <1>9 DEF Report
  <2>2. CASE stage' = [stage EXCEPT ![i] = "sending"]
    BY <2>1, <2>2, StillDone DEF Stages
  <2>3. CASE stage' = [stage EXCEPT ![i] = "done"] /\ ~Passes(i)
    <3>1. number[i] # N
      BY <2>3, BatchAssumption DEF Passes, TypeOK
    <3>2. QED
      BY <2>1, <2>3, <3>1 DEF TypeOK, NotifiedInv
  <2>4. QED
    BY <1>9, <2>2, <2>3 DEF Report, Goto
<1>10. ASSUME NEW i \in Items, Notify(i) PROVE NotifiedInv'
  <2>1. /\ stage[i] = "sending" /\ stage' = [stage EXCEPT ![i] = "done"]
        /\ number' = number
    BY <1>10 DEF Notify, Goto
  <2>2. number[i] # 0 /\ number[i] \in Items
    BY <2>1 DEF ResultsInv, Concluded, TypeOK, Items
  <2>3. /\ Len(notified') = Len(notified) + 1
        /\ \A k \in 1..Len(notified) : notified'[k] = notified[k]
        /\ notified'[Len(notified) + 1] = number[i]
        /\ Len(notified) \in Nat
    BY <1>10, <2>2, AppendProperties DEF Notify, TypeOK
  <2>4. \A k \in 1..Len(notified) : notified[k] # number[i]
    <3> SUFFICES ASSUME NEW k \in 1..Len(notified), notified[k] = number[i] PROVE FALSE
      OBVIOUS
    <3>1. PICK j \in Items : stage[j] = "done" /\ number[j] = notified[k]
      BY DEF NotifiedInv
    <3>2. i \in Numbered /\ j \in Numbered
      BY <2>2, <3>1 DEF Numbered
    <3>3. QED
      BY <2>1, <3>1, <3>2 DEF CountInv
  <2>5. \A k \in 1..Len(notified') : \E j \in Items : stage'[j] = "done" /\ number'[j] = notified'[k]
    <3> SUFFICES ASSUME NEW k \in 1..Len(notified')
                 PROVE  \E j \in Items : stage'[j] = "done" /\ number'[j] = notified'[k]
      OBVIOUS
    <3>1. CASE k = Len(notified) + 1
      BY <2>1, <2>3, <3>1 DEF TypeOK
    <3>2. CASE k \in 1..Len(notified)
      <4>1. PICK j \in Items : stage[j] = "done" /\ number[j] = notified[k]
        BY <3>2 DEF NotifiedInv
      <4>2. QED
        BY <2>1, <2>3, <3>2, <4>1 DEF TypeOK
    <3>3. QED
      BY <2>3, <3>1, <3>2
  <2>6. \A j, k \in 1..Len(notified') : notified'[j] = notified'[k] => j = k
    BY <2>3, <2>4 DEF NotifiedInv
  <2>7. \A j \in Items : stage'[j] = "done" /\ number'[j] = N => \E k \in 1..Len(notified') : notified'[k] = N
    <3> SUFFICES ASSUME NEW j \in Items, stage'[j] = "done", number[j] = N
                 PROVE  \E k \in 1..Len(notified') : notified'[k] = N
      BY <2>1
    <3>1. CASE j = i
      BY <2>3, <3>1
    <3>2. CASE j # i
      <4>1. PICK k \in 1..Len(notified) : notified[k] = N
        BY <2>1, <3>2 DEF NotifiedInv, TypeOK
      <4>2. k \in 1..Len(notified') /\ notified'[k] = N
        BY <2>3, <4>1
      <4>3. QED
        BY <4>2
    <3>3. QED
      BY <3>1, <3>2
  <2>8. QED
    BY <2>5, <2>6, <2>7 DEF NotifiedInv
<1>11. ASSUME NEW r \in Records, NEW v \in Values, ForeignWrite(r, v) PROVE NotifiedInv'
  BY <1>11 DEF ForeignWrite, NotifiedInv, reporter, counter, channel
<1>12. CASE Cancel
  BY <1>12 DEF Cancel, NotifiedInv, work, reporter, counter, channel
<1>13. CASE IntervalPasses
  BY <1>13 DEF IntervalPasses, NotifiedInv, work
<1>14. CASE UNCHANGED vars
  BY <1>14 DEF vars, NotifiedInv, work, reporter, counter, channel
<1>15. QED
  BY <1>1, <1>2, <1>3, <1>4, <1>5, <1>6, <1>7, <1>8, <1>9, <1>10, <1>11, <1>12, <1>13, <1>14 DEF Next, Step

-----------------------------------------------------------------------------
\* The initial states satisfy the inductive invariant.
LEMMA Start == Init => IInv
<1> SUFFICES ASSUME Init PROVE IInv
  OBVIOUS
<1>1. TypeOK
  <2>1. 0 \in 0..N /\ 0 \in 0..MaxForeignWrites /\ notified \in Seq(Items)
    BY BatchAssumption DEF Init
  <2>2. QED
    BY <2>1 DEF Init, TypeOK, Stages, Outcomes
<1>2. ResultsInv /\ SendingInv /\ PreflightInv /\ AchievedInv /\ OutcomesAreTrue
  BY DEF Init, ResultsInv, Concluded, SendingInv, PreflightInv, AchievedInv, OutcomesAreTrue,
         NothingWrittenMeansNothingSent, SuccessWasReal
<1>3. CountInv
  <2>1. Numbered = {}
    BY DEF Init, Numbered
  <2>2. QED
    BY <2>1, FS_EmptySet DEF Init, CountInv
<1>4. NotifiedInv
  <2>1. Len(notified) = 0 /\ \A i \in Items : stage[i] # "done"
    BY DEF Init
  <2>2. QED
    BY <2>1 DEF NotifiedInv
<1>5. QED
  BY <1>1, <1>2, <1>3, <1>4 DEF IInv

\* Every step keeps it.
LEMMA Keeps == IInv /\ [Next]_vars => IInv'
BY TypeStep, ResultsStep, SendingStep, PreflightStep, AchievedStep, OutcomesStep, CountStep,
   NotifiedStep
   DEF IInv

\* The inductive invariant holds throughout a call.
THEOREM Inductive == Spec => []IInv
BY Start, Keeps, PTL DEF Spec

\* A bulk call's report is right about every item, whatever is rejected, lost, late,
\* cancelled or written by others: "failed", "skipped" and "unattempted" mean that no PATCH
\* of the item left the server, "applied" and "skipped" that the record held the target.
THEOREM ReportIsTrue == Spec => []OutcomesAreTrue
BY Inductive, PTL DEF IInv

\* No record is PATCHed by two items, however often a request names it.
THEOREM NoTwoWriters == Spec => []OneWriterPerRecord
<1>1. IInv => OneWriterPerRecord
  BY DEF IInv, SendingInv, Duplicates, OneWriterPerRecord
<1>2. QED
  BY <1>1, Inductive, PTL

\* When the call returns the client has been told of its completion once, and no count was
\* announced twice, whatever the throttle held back.
THEOREM CompletionIsAnnounced == Spec => []CompletionAnnounced
<1>1. ASSUME IInv, Returned PROVE \E k \in 1..Len(notified) : notified[k] = N
  <2>1. Numbered = Items
    BY <1>1 DEF IInv, ResultsInv, Concluded, Returned, Numbered
  <2>2. completed = N
    BY <1>1, <2>1, FS_Interval, BatchAssumption DEF IInv, CountInv, Items
  <2>3. N \in 1..completed
    BY <2>2, BatchAssumption
  <2>4. PICK i \in Items : number[i] = N
    BY <1>1, <2>1, <2>3 DEF IInv, CountInv
  <2>5. QED
    BY <1>1, <2>4 DEF IInv, NotifiedInv, Returned
<1>2. IInv => CompletionAnnounced
  BY <1>1 DEF CompletionAnnounced, IInv, NotifiedInv
<1>3. QED
  BY <1>2, Inductive, PTL

\* A PATCH goes out over a value nobody reviewed only when another actor wrote the record
\* between this item's preflight and its PATCH.
THEOREM StaleWritesAreRaces == Spec => StaleWriteOnlyInWindow
<1>1. ASSUME IInv, [Next]_vars, NEW i \in Items, patch[i] = "unsent", patch'[i] # "unsent"
      PROVE  stage[i] = "preflighted"
  <2>1. patch # patch'
    BY <1>1
  <2>2. patch \in [Items -> {"unsent", "inflight", "landed", "rejected"}]
    BY <1>1 DEF IInv, TypeOK
  <2>3. ASSUME NEW j \in Items, Step(j) \/ PatchLands(j) PROVE stage[i] = "preflighted"
    <3>1. CASE PatchAnswered(j) \/ PatchRejected(j) \/ PatchUnanswered(j)
      BY <1>1, <2>2, <3>1 DEF PatchAnswered, PatchRejected, PatchUnanswered
    <3>2. CASE PatchLands(j)
      BY <1>1, <2>2, <3>2 DEF PatchLands
    <3>3. QED
      BY <2>1, <2>3, <3>1, <3>2
         DEF Step, Dispatch, Preflight, Recover, Verify, Report, Notify
  <2>4. QED
    BY <1>1, <2>1, <2>3
       DEF Next, ForeignWrite, Cancel, IntervalPasses, work, vars
<1>2. ASSUME IInv, [Next]_vars
      PROVE  \A i \in Items : patch[i] = "unsent" /\ patch'[i] # "unsent" /\ Held(i) = "other"
                               => i \in raced
  BY <1>1, <1>2 DEF IInv, PreflightInv
<1>3. IInv /\ [Next]_vars =>
        [\A i \in Items : patch[i] = "unsent" /\ patch'[i] # "unsent" /\ Held(i) = "other"
                           => i \in raced]_vars
  BY <1>2
<1>4. QED
  BY <1>3, Inductive, PTL DEF Spec, StaleWriteOnlyInWindow

-----------------------------------------------------------------------------
(* Places in a finite set of numbers.                                         *)

\* How many elements of a set stand before a number.
Place(S, r) == Cardinality({s \in S : s < r})

\* The first k of a set, in its order.
First(S, k) == {s \in S : Place(S, s) < k}

\* A finite set of numbers.
Numbers(S) == S \subseteq Nat /\ IsFiniteSet(S)

\* A nonempty set of numbers has a least element.
LEMMA HasLeast ==
  ASSUME NEW S \in SUBSET Nat, S # {}
  PROVE  \E x \in S : \A y \in S : x <= y
<1>1. PICK x \in S : \A y \in S : ~ (<<y, x>> \in OpToRel(<, Nat))
  BY WFMin, NatLessThanWellFounded
<1>2. \A y \in S : x <= y
  <2>1. SUFFICES ASSUME NEW y \in S, y < x PROVE FALSE
    OBVIOUS
  <2>2. <<y, x>> \in OpToRel(<, Nat)
    BY <2>1 DEF OpToRel
  <2> QED
    BY <1>1, <2>2
<1> QED
  BY <1>2

\* A part of a finite set is finite, and no larger.
LEMMA Parts ==
  ASSUME NEW S, IsFiniteSet(S), NEW T \in SUBSET S
  PROVE  /\ IsFiniteSet(T) /\ Cardinality(T) \in Nat /\ Cardinality(S) \in Nat
         /\ Cardinality(T) <= Cardinality(S)
         /\ Cardinality(T) = Cardinality(S) => T = S
BY FS_Subset, FS_CardinalityType

\* Two parts without a common element are counted apart.
LEMMA Apart ==
  ASSUME NEW S, IsFiniteSet(S), NEW A \in SUBSET S, NEW B \in SUBSET S, A \cap B = {}
  PROVE  /\ Cardinality(A \cup B) = Cardinality(A) + Cardinality(B)
         /\ Cardinality(A) \in Nat /\ Cardinality(B) \in Nat
<1>1. IsFiniteSet(A) /\ IsFiniteSet(B) /\ Cardinality(A) \in Nat /\ Cardinality(B) \in Nat
  BY Parts
<1>2. Cardinality(A \cap B) = 0
  BY FS_EmptySet
<1>3. Cardinality(A \cup B) = Cardinality(A) + Cardinality(B) - Cardinality(A \cap B)
  BY <1>1, FS_Union
<1> QED
  BY <1>1, <1>2, <1>3

\* Places are numbers, grow with the elements, and are below the size of the set.
LEMMA Places ==
  ASSUME NEW S, Numbers(S), NEW r
  PROVE  /\ Place(S, r) \in Nat /\ Place(S, r) <= Cardinality(S) /\ Cardinality(S) \in Nat
         /\ r \in S => Place(S, r) < Cardinality(S)
<1>1. {s \in S : s < r} \in SUBSET S
  OBVIOUS
<1>2. Place(S, r) \in Nat /\ Place(S, r) <= Cardinality(S) /\ Cardinality(S) \in Nat
  BY <1>1, Parts DEF Place, Numbers
<1>3. r \in S => Place(S, r) # Cardinality(S)
  BY <1>1, Parts DEF Place, Numbers
<1> QED
  BY <1>2, <1>3

\* A larger number stands at a later place.
LEMMA PlacesGrow ==
  ASSUME NEW S, Numbers(S), NEW r \in Nat, NEW s \in S, s < r
  PROVE  Place(S, s) < Place(S, r)
<1> DEFINE A == {x \in S : x < s}
           B == {x \in S : x < r}
<1>1. A \in SUBSET B /\ B \in SUBSET S /\ s \in B /\ s \notin A
  <2>1. \A x \in S : x \in Nat
    BY DEF Numbers
  <2>2. \A x \in S : x < s => x < r
    BY <2>1
  <2> QED
    BY <2>1, <2>2
<1>2. IsFiniteSet(B) /\ Cardinality(B) \in Nat
  BY <1>1, Parts DEF Numbers
<1>3. Cardinality(A) \in Nat /\ Cardinality(A) <= Cardinality(B) /\ Cardinality(A) # Cardinality(B)
  BY <1>1, <1>2, Parts
<1> QED
  BY <1>2, <1>3 DEF Place

\* Places keep the order, and are different for different elements.
LEMMA PlacesOrder ==
  ASSUME NEW S, Numbers(S), NEW r \in S, NEW s \in S
  PROVE  /\ Place(S, s) < Place(S, r) <=> s < r
         /\ Place(S, s) = Place(S, r) => s = r
<1>1. r \in Nat /\ s \in Nat
  BY DEF Numbers
<1>2. s < r => Place(S, s) < Place(S, r)
  BY <1>1, PlacesGrow
<1>3. r < s => Place(S, r) < Place(S, s)
  BY <1>1, PlacesGrow
<1>4. Place(S, r) \in Nat /\ Place(S, s) \in Nat
  BY Places
<1> QED
  BY <1>1, <1>2, <1>3, <1>4

\* The first k are at most k.
LEMMA FirstAtMost ==
  ASSUME NEW S, Numbers(S), NEW k \in Nat
  PROVE  /\ Cardinality(First(S, k)) <= k /\ Cardinality(First(S, k)) \in Nat
         /\ First(S, k) \in SUBSET S /\ IsFiniteSet(First(S, k))
<1> DEFINE f == [s \in First(S, k) |-> Place(S, s)]
<1>1. First(S, k) \in SUBSET S
  BY DEF First
<1>2. f \in [First(S, k) -> 0..(k - 1)]
  <2>1. \A s \in First(S, k) : Place(S, s) \in Nat /\ Place(S, s) < k
    BY Places DEF First
  <2> QED
    BY <2>1
<1>3. f \in Injection(First(S, k), 0..(k - 1))
  <2>1. \A a, b \in First(S, k) : Place(S, a) = Place(S, b) => a = b
    BY <1>1, PlacesOrder
  <2> QED
    BY <1>2, <2>1 DEF Injection, IsInjective
<1>4. IsFiniteSet(0..(k - 1)) /\ Cardinality(0..(k - 1)) = k
  <2>1. 0 \in Int /\ k - 1 \in Int
    OBVIOUS
  <2> QED
    BY <2>1, FS_Interval
<1> HIDE DEF f
<1>5. Cardinality(First(S, k)) <= Cardinality(0..(k - 1))
  BY <1>3, <1>4, FS_Injection
<1>6. IsFiniteSet(First(S, k)) /\ Cardinality(First(S, k)) \in Nat
  BY <1>1, Parts DEF Numbers
<1> QED
  BY <1>1, <1>4, <1>5, <1>6

\* Every place below the size of the set is some element's.
LEMMA EveryPlace ==
  ASSUME NEW S, Numbers(S), NEW k \in Nat, k < Cardinality(S)
  PROVE  \E r \in S : Place(S, r) = k
<1> DEFINE Rest == S \ First(S, k)
<1>1. Rest # {}
  <2>1. SUFFICES ASSUME S = First(S, k) PROVE FALSE
    BY DEF First
  <2> QED
    BY <2>1, FirstAtMost, Places
<1>2. PICK r \in Rest : \A s \in Rest : r <= s
  BY <1>1, HasLeast DEF Numbers
<1>3. {s \in S : s < r} \in SUBSET First(S, k)
  <2>1. \A s \in S : s \in Nat
    BY DEF Numbers
  <2>2. SUFFICES ASSUME NEW s \in S, s < r PROVE s \in First(S, k)
    OBVIOUS
  <2> QED
    BY <1>2, <2>1, <2>2
<1>4. Place(S, r) <= k
  BY <1>3, FirstAtMost, Parts DEF Place
<1>5. Place(S, r) >= k /\ Place(S, r) \in Nat
  BY <1>2, Places DEF First
<1> QED
  BY <1>2, <1>4, <1>5

\* The first k are k, or all there are.
LEMMA FirstCount ==
  ASSUME NEW S, Numbers(S), NEW k \in Nat
  PROVE  /\ Cardinality(First(S, k)) = IF k < Cardinality(S) THEN k ELSE Cardinality(S)
         /\ k >= Cardinality(S) => First(S, k) = S
<1>1. CASE k < Cardinality(S)
  <2>1. PICK r \in S : Place(S, r) = k
    BY <1>1, EveryPlace
  <2>2. First(S, k) = {s \in S : s < r}
    BY <2>1, PlacesOrder DEF First
  <2> QED
    BY <1>1, <2>1, <2>2, Places DEF Place
<1>2. CASE k >= Cardinality(S)
  <2>1. First(S, k) = S
    <3>1. \A s \in S : Place(S, s) < k
      BY <1>2, Places
    <3> QED
      BY <3>1 DEF First
  <2> QED
    BY <1>2, <2>1, Places
<1> QED
  BY <1>1, <1>2, Places



\* What stands from place k on, n of them.
From(S, k, n) == {s \in S : Place(S, s) \in k..(k + n - 1)}

\* They come after the first k, are all up to the place k + n, and fill their places.
LEMMA FromCount ==
  ASSUME NEW S, Numbers(S), NEW k \in Nat, NEW n \in Nat
  PROVE  /\ First(S, k + n) = First(S, k) \cup From(S, k, n)
         /\ First(S, k) \cap From(S, k, n) = {}
         /\ From(S, k, n) \in SUBSET S
         /\ Cardinality(From(S, k, n)) \in Nat /\ Cardinality(From(S, k, n)) <= n
         /\ k + n <= Cardinality(S) => Cardinality(From(S, k, n)) = n
         /\ \A s \in From(S, k, n) : Place(S, s) < k + Cardinality(From(S, k, n))
<1>1. \A s \in S : Place(S, s) \in Nat
  BY Places
<1>2. First(S, k + n) = First(S, k) \cup From(S, k, n)
  BY <1>1 DEF First, From
<1>3. First(S, k) \cap From(S, k, n) = {}
  BY <1>1 DEF First, From
<1>4. From(S, k, n) \in SUBSET S /\ First(S, k) \in SUBSET S
  BY DEF First, From
<1>5. /\ Cardinality(First(S, k + n)) = Cardinality(First(S, k)) + Cardinality(From(S, k, n))
      /\ Cardinality(First(S, k)) \in Nat /\ Cardinality(From(S, k, n)) \in Nat
  BY <1>2, <1>3, <1>4, Apart DEF Numbers
<1>6. Cardinality(First(S, k)) = IF k < Cardinality(S) THEN k ELSE Cardinality(S)
  BY FirstCount
<1>7. Cardinality(First(S, k + n)) = IF k + n < Cardinality(S) THEN k + n ELSE Cardinality(S)
  BY FirstCount
<1>8. Cardinality(S) \in Nat
  BY Places
<1>9. Cardinality(From(S, k, n)) <= n
  BY <1>5, <1>6, <1>7, <1>8
<1>10. k + n <= Cardinality(S) => Cardinality(From(S, k, n)) = n
  BY <1>5, <1>6, <1>7, <1>8
<1>11. ASSUME NEW s \in From(S, k, n)
       PROVE  Place(S, s) < k + Cardinality(From(S, k, n))
  <2>1. Place(S, s) \in Nat /\ k <= Place(S, s) /\ Place(S, s) < k + n /\ Place(S, s) < Cardinality(S)
    BY <1>1, <1>4, Places DEF From
  <2> QED
    BY <1>5, <1>6, <1>7, <1>8, <2>1
<1> QED
  BY <1>2, <1>3, <1>4, <1>5, <1>9, <1>10, <1>11

\* An element that leaves moves what comes after it by one place.
LEMMA PlaceAfterLeaving ==
  ASSUME NEW S, Numbers(S), NEW r \in S, NEW s \in S
  PROVE  /\ Numbers(S \ {r})
         /\ Place(S \ {r}, s) = IF r < s THEN Place(S, s) - 1 ELSE Place(S, s)
<1> DEFINE B == {x \in S : x < s}
<1>1. Numbers(S \ {r})
  BY FS_RemoveElement DEF Numbers
<1>2. IsFiniteSet(B)
  BY Parts DEF Numbers
<1>3. {x \in S \ {r} : x < s} = B \ {r}
  OBVIOUS
<1>4. r \in B <=> r < s
  OBVIOUS
<1>5. Cardinality(B \ {r}) = IF r \in B THEN Cardinality(B) - 1 ELSE Cardinality(B)
  BY <1>2, FS_RemoveElement
<1> QED
  BY <1>1, <1>3, <1>4, <1>5 DEF Place

\* What comes into a set moves what stands behind it by one place, and takes a place
\* itself.
LEMMA PlaceAfterComing ==
  ASSUME NEW S, Numbers(S), NEW r \in Nat \ S, NEW s
  PROVE  /\ Numbers(S \cup {r})
         /\ Place(S \cup {r}, s) = IF r < s THEN Place(S, s) + 1 ELSE Place(S, s)
<1> DEFINE B == {x \in S : x < s}
<1>1. Numbers(S \cup {r})
  BY FS_AddElement DEF Numbers
<1>2. IsFiniteSet(B) /\ r \notin B
  BY Parts DEF Numbers
<1>3. CASE r < s
  <2>1. {x \in S \cup {r} : x < s} = B \cup {r}
    BY <1>3
  <2> QED
    BY <1>1, <1>2, <1>3, <2>1, FS_AddElement DEF Place
<1>4. CASE ~(r < s)
  <2>1. {x \in S \cup {r} : x < s} = B
    BY <1>4
  <2> QED
    BY <1>1, <1>4, <2>1 DEF Place
<1> QED
  BY <1>3, <1>4

-----------------------------------------------------------------------------
(* Rows, one for each time a record was read.                                 *)

\* There are finitely many rows read of finitely many records.
LEMMA RowsFinite ==
  ASSUME NEW S, IsFiniteSet(S), NEW read, \A r \in S : read[r] \in Nat
  PROVE  IsFiniteSet(RowsOf(read, S)) /\ Cardinality(RowsOf(read, S)) \in Nat
<1> DEFINE f == [r \in S |-> {r} \X (1..read[r])]
           T == {{r} \X (1..read[r]) : r \in S}
<1>1. f \in Surjection(S, T)
  BY DEF Surjection
<1>2. \A t \in T : IsFiniteSet(t)
  <2>1. SUFFICES ASSUME NEW r \in S PROVE IsFiniteSet({r} \X (1..read[r]))
    OBVIOUS
  <2>2. 1 \in Int /\ read[r] \in Int
    OBVIOUS
  <2>3. IsFiniteSet({r}) /\ IsFiniteSet(1..read[r])
    BY <2>2, FS_Singleton, FS_Interval
  <2> QED
    BY <2>3, FS_Product
<1> HIDE DEF f
<1>3. IsFiniteSet(T)
  BY <1>1, FS_Surjection
<1>4. IsFiniteSet(UNION T)
  BY <1>2, <1>3, FS_UNION
<1> QED
  BY <1>4, FS_CardinalityType DEF RowsOf

\* Two functions that agree on the records have the same rows of them.
LEMMA RowsSame ==
  ASSUME NEW S, NEW read, NEW other, \A r \in S : read[r] = other[r]
  PROVE  RowsOf(read, S) = RowsOf(other, S)
BY DEF RowsOf

\* A page adds a row for each record on it.
LEMMA RowsAfterPage ==
  ASSUME NEW S, IsFiniteSet(S), NEW P, NEW read, NEW next, \A r \in S : read[r] \in Nat,
         \A r \in S : next[r] = read[r] + IF r \in P THEN 1 ELSE 0
  PROVE  Cardinality(RowsOf(next, S)) = Cardinality(RowsOf(read, S)) + Cardinality(P \cap S)
<1> DEFINE new == {<<r, read[r] + 1>> : r \in P \cap S}
           f == [r \in P \cap S |-> <<r, read[r] + 1>>]
<1>1. \A r \in S : next[r] \in Nat
  OBVIOUS
<1>2. IsFiniteSet(RowsOf(next, S)) /\ IsFiniteSet(P \cap S)
  BY <1>1, RowsFinite, Parts
<1>3. \A x, n : <<x, n>> \in RowsOf(read, S) <=> x \in S /\ n \in 1..read[x]
  BY DEF RowsOf
<1>4. RowsOf(next, S) = RowsOf(read, S) \cup new
  <2>1. ASSUME NEW t \in RowsOf(next, S) PROVE t \in RowsOf(read, S) \cup new
    <3>1. PICK r \in S : \E n \in 1..next[r] : t = <<r, n>>
      BY DEF RowsOf
    <3>2. PICK n \in 1..next[r] : t = <<r, n>>
      BY <3>1
    <3>3. CASE n \in 1..read[r]
      BY <1>3, <3>2, <3>3
    <3>4. CASE n \notin 1..read[r]
      <4>1. r \in P /\ n = read[r] + 1
        BY <3>2, <3>4
      <4> QED
        BY <3>2, <4>1
    <3> QED
      BY <3>3, <3>4
  <2>2. ASSUME NEW t \in RowsOf(read, S) PROVE t \in RowsOf(next, S)
    <3>1. PICK r \in S : \E n \in 1..read[r] : t = <<r, n>>
      BY DEF RowsOf
    <3>2. PICK n \in 1..read[r] : t = <<r, n>>
      BY <3>1
    <3>3. n \in 1..next[r]
      BY <3>2
    <3> QED
      BY <3>2, <3>3 DEF RowsOf
  <2>3. ASSUME NEW t \in new PROVE t \in RowsOf(next, S)
    <3>1. PICK r \in P \cap S : t = <<r, read[r] + 1>>
      OBVIOUS
    <3>2. read[r] + 1 \in 1..next[r]
      BY <3>1
    <3> QED
      BY <3>1, <3>2 DEF RowsOf
  <2> QED
    BY <2>1, <2>2, <2>3
<1>5. RowsOf(read, S) \cap new = {}
  BY <1>3
<1>6. Cardinality(RowsOf(next, S)) = Cardinality(RowsOf(read, S)) + Cardinality(new)
  BY <1>2, <1>4, <1>5, Apart
<1>7. f \in Bijection(P \cap S, new)
  BY DEF Bijection, Injection, IsInjective, Surjection
<1> HIDE DEF f
<1>8. Cardinality(new) = Cardinality(P \cap S)
  BY <1>2, <1>7, FS_Bijection DEF ExistsBijection
<1> QED
  BY <1>6, <1>8

\* Nothing read, no rows; and records read once make one row each.
LEMMA RowsOnce ==
  ASSUME NEW S, IsFiniteSet(S), NEW P, NEW read,
         \A r \in S : read[r] = IF r \in P THEN 1 ELSE 0
  PROVE  Cardinality(RowsOf(read, S)) = Cardinality(P \cap S)
<1> DEFINE none == [r \in S |-> 0]
<1>1. RowsOf(none, S) = {}
  BY DEF RowsOf
<1>2. Cardinality(RowsOf(none, S)) = 0
  BY <1>1, FS_EmptySet
<1>3. /\ \A r \in S : none[r] \in Nat
      /\ \A r \in S : read[r] = none[r] + IF r \in P THEN 1 ELSE 0
  OBVIOUS
<1> HIDE DEF none
<1>4. Cardinality(RowsOf(read, S)) = Cardinality(RowsOf(none, S)) + Cardinality(P \cap S)
  BY <1>3, RowsAfterPage
<1>5. Cardinality(P \cap S) \in Nat
  BY Parts
<1> QED
  BY <1>2, <1>4, <1>5

-----------------------------------------------------------------------------
(* The loops.                                                                 *)

\* What the loops have in common that move on, or ask, in the same way.
WellFormed(s) ==
  /\ s \in Loop
  /\ s.advance = "page" => s.size \in {"page", "whole"}
  /\ s.size = "whole" => s.advance = "page" /\ s.after = {"more"} /\ s.before = {}
                          /\ s.hollow = "ignored" /\ s.tool = "scan"
  /\ s.size = "rest" => "offset" \in s.before
  /\ s.size = "budget" => "budget" \in s.before
  /\ s.tool = "walk" => s.size = "page" /\ s.advance = "page" /\ s.hollow = "ignored"
  /\ "requests" \in s.before \/ "rows" \in s.before => s.advance = "page" /\ s.size = "page"
  /\ "budget" \in s.before \/ "budget" \in s.after => s.size = "budget"
  /\ "more" \in s.after => s.size = "whole"

\* Every loop of the tools is well formed.
LEMMA LoopFacts == \A s \in Loops : WellFormed(s)
<1>1. WellFormed(ListAll)
  BY DEF WellFormed, Loop, ListAll, Pages
<1>2. WellFormed(categoryDuplicates)
  BY DEF WellFormed, Loop, categoryDuplicates, Pages
<1>3. WellFormed(stockLocationDuplicates)
  BY DEF WellFormed, Loop, stockLocationDuplicates, Pages
<1>4. WellFormed(noteSiblings)
  BY DEF WellFormed, Loop, noteSiblings, Pages
<1>5. WellFormed(scanStockLocationDeletePages)
  BY DEF WellFormed, Loop, scanStockLocationDeletePages, Pages, validateCategoryDeletePage
<1>6. WellFormed(scanCategoryDefaults)
  BY DEF WellFormed, Loop, scanCategoryDefaults, Pages
<1>7. WellFormed(categoryDefaultPage)
  BY DEF WellFormed, Loop, categoryDefaultPage, scanCategoryDefaults, Pages
<1>8. WellFormed(supplierDuplicates)
  BY DEF WellFormed, Loop, supplierDuplicates, Pages
<1>9. WellFormed(loadPartRelationsForPart)
  BY DEF WellFormed, Loop, loadPartRelationsForPart, Pages
<1>10. WellFormed(findPartRelationPair)
  BY DEF WellFormed, Loop, findPartRelationPair, loadPartRelationsForPart, Pages
<1>11. WellFormed(loadInternalPriceBreaks)
  BY DEF WellFormed, Loop, loadInternalPriceBreaks, Pages
<1>12. WellFormed(scanTemplateParameters)
  BY DEF WellFormed, Loop, scanTemplateParameters, Rows, Pages
<1>13. WellFormed(objectParameterUniquenessConflict)
  BY DEF WellFormed, Loop, objectParameterUniquenessConflict, scanTemplateParameters, Rows, Pages
<1>14. WellFormed(searchObjectParameterValues)
  BY DEF WellFormed, Loop, searchObjectParameterValues, scanTemplateParameters, Rows, Pages
<1>15. WellFormed(scanPurchaseOrderExtraLines)
  BY DEF WellFormed, Loop, scanPurchaseOrderExtraLines, Rows, Pages
<1>16. WellFormed(auditTemplates)
  BY DEF WellFormed, Loop, auditTemplates, Rows, Pages
<1>17. WellFormed(walkBarcodeScanHistory)
  BY DEF WellFormed, Loop, walkBarcodeScanHistory, Pages
<1> QED
  BY <1>1, <1>2, <1>3, <1>4, <1>5, <1>6, <1>7, <1>8, <1>9, <1>10, <1>11, <1>12, <1>13, <1>14, <1>15, <1>16, <1>17 DEF Loops

\* While a loop goes on, what was in the list throughout and was not read is still to
\* come, save what slid or was kept back, and what was read stands before the offset, save
\* what was pushed.  A loop that refuses pages without rows has accepted none.
PlacesInv ==
  answer = "none" =>
    /\ scan.size = "whole" => requests = 0
    /\ scan.hollow = "refused" => withheld = {}
    /\ \A r \in steady : got[r] = 0 => r \in slid \cup withheld \/ Rank(r) >= Offset
    /\ \A r \in steady : got[r] >= 1 => r \in pushed \/ Rank(r) < Offset
    /\ \A r \in steady : got[r] > 1 => r \in pushed

\* What ReadsWhatStayed rests on.
PagesInv == LoopTypes /\ PlacesInv /\ ReadsWhatStayed

\* The list is a finite set of numbers, and the numbers of a loop are numbers.
LEMMA ListFacts ==
  ASSUME LoopTypes
  PROVE  /\ Numbers(listed) /\ Numbers(Listable)
         /\ Cardinality(listed) \in Nat /\ Cardinality(Listable) \in Nat
         /\ Cardinality(listed) <= Cardinality(Listable)
         /\ \A r : Rank(r) = Place(listed, r) /\ Rank(r) \in Nat
         /\ \A r \in listed : Rank(r) < Cardinality(listed)
         /\ Read \in Nat /\ requests * PageSize \in Nat /\ Offset \in Nat
<1>1. Numbers(Listable)
  BY PagingAssumption DEF Numbers
<1>2. Numbers(listed) /\ listed \in SUBSET Listable
  BY <1>1, Parts DEF Numbers, LoopTypes
<1>3. Cardinality(listed) \in Nat /\ Cardinality(Listable) \in Nat
      /\ Cardinality(listed) <= Cardinality(Listable)
  BY <1>1, <1>2, Parts DEF Numbers
<1>4. \A r : Rank(r) = Place(listed, r)
  BY DEF Rank, Place
<1>5. (\A r : Rank(r) \in Nat) /\ \A r \in listed : Rank(r) < Cardinality(listed)
  BY <1>2, <1>4, Places
<1>6. Read \in Nat
  BY <1>1, RowsFinite DEF Read, LoopTypes, Numbers
<1>7. requests * PageSize \in Nat
  BY PagingAssumption DEF LoopTypes
<1> QED
  BY <1>1, <1>2, <1>3, <1>4, <1>5, <1>6, <1>7 DEF Offset, PageOffset

\* The lesser of two numbers.
LEMMA Lesser ==
  ASSUME NEW a \in Int, NEW b \in Int
  PROVE  Min({a, b}) = IF a <= b THEN a ELSE b
<1> DEFINE m == IF a <= b THEN a ELSE b
<1>1. m \in {a, b} /\ \A y \in {a, b} : m <= y
  OBVIOUS
<1>2. \A x \in {a, b} : (\A y \in {a, b} : x <= y) => x = m
  OBVIOUS
<1> QED
  BY <1>1, <1>2 DEF Min

\* The rest of a budget, and the size of a page.
LEMMA SizeFacts ==
  ASSUME LoopTypes, ~Stops
  PROVE  /\ Size \in Nat \ {0} /\ Size <= ScanLimit + PageSize
         /\ scan.size = "page" => Size = PageSize
         /\ scan.size = "whole" => Size = ScanLimit
<1> USE PagingAssumption
<1>1. WellFormed(scan)
  BY LoopFacts DEF LoopTypes
<1>2. Offset \in Nat /\ Read \in Nat
  BY ListFacts
<1>3. CASE scan.size = "page"
  BY <1>3 DEF Size
<1>4. CASE scan.size = "whole"
  BY <1>4 DEF Size
<1>5. CASE scan.size = "rest"
  <2>1. Offset < ScanLimit
    BY <1>1, <1>2, <1>5 DEF Stops, WellFormed
  <2>2. ScanLimit - Offset \in Nat \ {0} /\ ScanLimit - Offset \in Int /\ PageSize \in Int
    BY <1>2, <2>1
  <2>3. Min({PageSize, ScanLimit - Offset}) \in {PageSize, ScanLimit - Offset}
    BY <2>2, Lesser
  <2> QED
    BY <1>2, <1>5, <2>2, <2>3 DEF Size
<1>6. CASE scan.size = "budget"
  <2>1. Left \in Nat /\ Left <= ScanLimit
    BY <1>2 DEF Left, LoopTypes, Budget
  <2>2. Size = BudgetPageSize
    BY <1>6 DEF Size
  <2>3. PageSize \in Int /\ Left - 1 \in Int
    BY <2>1
  <2>4. Min({PageSize, Left - 1}) \in {PageSize, Left - 1}
    BY <2>3, Lesser
  <2>5. Size # 0
    BY <1>1, <1>6 DEF Stops, WellFormed
  <2> QED
    BY <1>6, <2>1, <2>2, <2>4, <2>5 DEF BudgetPageSize
<1> QED
  BY <1>1, <1>3, <1>4, <1>5, <1>6 DEF WellFormed, Loop

\* The page asked for, as a part of the list.
LEMMA PageFacts ==
  ASSUME LoopTypes, ~Stops
  PROVE  /\ Page = From(listed, Offset, Size) /\ Page \in SUBSET listed /\ IsFiniteSet(Page)
         /\ Cardinality(Page) \in Nat /\ Cardinality(Page) <= Size
         /\ \A r \in Page : Rank(r) >= Offset /\ Rank(r) < Offset + Cardinality(Page)
         /\ \A r \in listed \ Page : Rank(r) < Offset \/ Rank(r) >= Offset + Size
         /\ More => Page # {} /\ Cardinality(Page) = Size
<1>1. /\ Numbers(listed) /\ Offset \in Nat /\ Size \in Nat \ {0}
      /\ \A r : Rank(r) = Place(listed, r) /\ Rank(r) \in Nat
      /\ Cardinality(listed) \in Nat
  BY ListFacts, SizeFacts
<1>2. Page = From(listed, Offset, Size)
  BY <1>1 DEF Page, From
<1>3. /\ Page \in SUBSET listed /\ Cardinality(Page) \in Nat /\ Cardinality(Page) <= Size
      /\ \A r \in Page : Rank(r) < Offset + Cardinality(Page)
      /\ Offset + Size <= Cardinality(listed) => Cardinality(Page) = Size
  BY <1>1, <1>2, FromCount
<1>4. IsFiniteSet(Page)
  BY <1>1, <1>3, Parts DEF Numbers
<1>5. \A r \in Page : Rank(r) >= Offset
  BY <1>1 DEF Page
<1>6. \A r \in listed \ Page : Rank(r) < Offset \/ Rank(r) >= Offset + Size
  BY <1>1 DEF Page
<1>7. More => Page # {} /\ Cardinality(Page) = Size
  BY <1>1, <1>3, FS_EmptySet DEF More
<1> QED
  BY <1>2, <1>3, <1>4, <1>5, <1>6, <1>7

\* A number of pages is at least as many rows.
LEMMA RowsOfPages ==
  ASSUME NEW a \in Nat, NEW p \in Nat \ {0}
  PROVE  a * p \in Nat /\ a * p >= a /\ (a + 1) * p = a * p + p
<1>1. PICK q \in Nat : p = q + 1
  <2>1. p - 1 \in Nat /\ p = (p - 1) + 1
    OBVIOUS
  <2> QED
    BY <2>1
<1>2. a * p = a * q + a /\ a * q \in Nat
  BY <1>1
<1> QED
  BY <1>2

\* Where the next page starts.  A loop that is at its last number of pages is past the
\* end of the list already.
LEMMA OffsetAfter ==
  ASSUME LoopTypes, NEW P \in SUBSET Listable, scan' = scan, got' = With(P),
         requests' = OneMore(requests)
  PROVE  /\ Cardinality(P) \in Nat /\ Read' = Read + Cardinality(P)
         /\ scan.advance = "rows" => Offset = Read /\ Offset' = Read + Cardinality(P)
         /\ scan.advance = "page" =>
              /\ Offset = requests * PageSize
              /\ \/ requests' = requests + 1 /\ Offset' = Offset + PageSize
                 \/ /\ requests = MostRequests /\ requests' = requests - 1
                    /\ Offset' <= Offset /\ Offset' >= Cardinality(Listable)
         /\ Offset' \in Nat /\ requests' \in Nat
<1> USE PagingAssumption
<1>1. /\ Cardinality(Listable) \in Nat /\ Read \in Nat /\ IsFiniteSet(Listable) /\ requests \in Nat
      /\ Offset \in Nat
  BY ListFacts DEF LoopTypes
<1>2. Cardinality(P) \in Nat /\ P \cap Listable = P
  BY Parts
<1>3. Read' = Read + Cardinality(P)
  <2>1. \A r \in Listable : got[r] \in Nat
    BY DEF LoopTypes
  <2>2. \A r \in Listable : got'[r] = got[r] + IF r \in P THEN 1 ELSE 0
    BY DEF With
  <2>3. Cardinality(RowsOf(got', Listable)) = Cardinality(RowsOf(got, Listable)) + Cardinality(P \cap Listable)
    BY <1>1, <2>1, <2>2, RowsAfterPage
  <2> QED
    BY <1>2, <2>3 DEF Read
<1>4. scan.advance \in {"page", "rows"}
  BY LoopFacts DEF LoopTypes, WellFormed, Loop
<1>5. ASSUME scan.advance = "page"
      PROVE  /\ Offset = requests * PageSize
             /\ \/ requests' = requests + 1 /\ Offset' = Offset + PageSize
                \/ /\ requests = MostRequests /\ requests' = requests - 1
                   /\ Offset' <= Offset /\ Offset' >= Cardinality(Listable)
             /\ Offset' \in Nat /\ requests' \in Nat
  <2>1. Offset = requests * PageSize /\ Offset' = requests' * PageSize
    BY <1>5 DEF Offset, PageOffset
  <2>2. CASE requests = MostRequests
    <3>1. requests' = requests - 1 /\ requests' \in Nat /\ requests' >= Cardinality(Listable)
      BY <1>1, <2>2 DEF OneMore, MostRequests
    <3>2. requests' * PageSize >= requests' /\ requests' * PageSize \in Nat
          /\ (requests' + 1) * PageSize = requests' * PageSize + PageSize
      BY <3>1, RowsOfPages
    <3>3. requests' + 1 = requests
      BY <1>1, <3>1
    <3>4. Offset = Offset' + PageSize
      BY <2>1, <3>2, <3>3
    <3> QED
      BY <1>1, <2>1, <2>2, <3>1, <3>2, <3>4
  <2>3. CASE requests # MostRequests
    <3>1. requests' = requests + 1
      BY <2>3 DEF OneMore
    <3>2. (requests + 1) * PageSize = requests * PageSize + PageSize
      BY <1>1, RowsOfPages
    <3> QED
      BY <1>1, <2>1, <3>1, <3>2
  <2> QED
    BY <2>2, <2>3
<1>6. ASSUME scan.advance = "rows"
      PROVE  Offset = Read /\ Offset' = Read + Cardinality(P)
  BY <1>3, <1>6 DEF Offset
<1>7. requests' \in Nat
  BY <1>1 DEF OneMore, MostRequests
<1> QED
  BY <1>1, <1>2, <1>3, <1>4, <1>5, <1>6, <1>7

\* What a page does to the places.
LEMMA PlacesAfterPage ==
  ASSUME LoopTypes, PlacesInv, answer = "none", ~Stops,
         NEW lost \in BOOLEAN, NEW P, P = IF lost THEN {} ELSE Page,
         scan' = scan, listed' = listed, got' = With(P), requests' = OneMore(requests),
         withheld' = withheld \cup Missing(lost)
  PROVE  /\ \A r \in steady : got'[r] = 0 => r \in slid \cup withheld' \/ Rank(r) >= Offset + Size
         /\ lost /\ scan.hollow = "end" => \A r \in steady : got'[r] = 0 => r \in slid \cup withheld'
         /\ scan.size # "whole" =>
              \A r \in steady : got'[r] = 0 => r \in slid \cup withheld' \/ Rank(r) >= Offset'
         /\ scan.size # "whole" =>
              \A r \in steady : got'[r] >= 1 => r \in pushed \/ Rank(r) < Offset'
         /\ \A r \in steady : got'[r] > 1 => r \in pushed
<1>1. /\ Offset \in Nat /\ \A r : Rank(r) \in Nat
      /\ \A r \in listed : Rank(r) < Cardinality(Listable)
      /\ Cardinality(Listable) \in Nat
  <2>1. \A r \in listed : Rank(r) < Cardinality(listed) /\ Rank(r) \in Nat
    BY ListFacts
  <2> QED
    BY <2>1, ListFacts
<1>2. Size \in Nat \ {0} /\ (scan.size = "page" => Size = PageSize) /\ PageSize \in Nat
  BY SizeFacts, PagingAssumption
<1>3. /\ Page \in SUBSET listed /\ Cardinality(Page) \in Nat /\ Cardinality(Page) <= Size
      /\ \A r \in Page : Rank(r) >= Offset /\ Rank(r) < Offset + Cardinality(Page)
      /\ \A r \in listed \ Page : Rank(r) < Offset \/ Rank(r) >= Offset + Size
  BY PageFacts
<1>4. steady \subseteq listed /\ listed \subseteq Listable /\ \A r \in Listable : got[r] \in Nat
  BY DEF LoopTypes
<1>5. \A r \in steady : got'[r] = got[r] + IF r \in P THEN 1 ELSE 0
  BY <1>4 DEF With
<1>6. P \in SUBSET Listable /\ Cardinality({}) = 0
  BY <1>3, <1>4, FS_EmptySet
<1>7. /\ scan.advance = "rows" => Offset' = Offset + Cardinality(P)
      /\ scan.advance = "page" =>
              \/ Offset' = Offset + PageSize
              \/ Offset' <= Offset /\ Offset' >= Cardinality(Listable)
      /\ Offset' \in Nat
  BY <1>6, OffsetAfter
<1>8. scan.advance \in {"page", "rows"} /\ (scan.advance = "page" => scan.size \in {"page", "whole"})
  BY LoopFacts DEF LoopTypes, WellFormed, Loop
<1>9. P = Page \/ P = {}
  OBVIOUS
<1>10. ASSUME NEW r \in steady, got'[r] = 0
       PROVE  /\ r \in slid \cup withheld' \/ Rank(r) >= Offset + Size
              /\ lost /\ scan.hollow = "end" => r \in slid \cup withheld'
  <2>1. got[r] = 0 /\ r \in listed /\ (lost \/ r \notin Page)
    BY <1>4, <1>5, <1>10
  <2>2. r \in slid \cup withheld \/ Rank(r) >= Offset
    BY <1>10, <2>1 DEF PlacesInv
  <2>3. CASE lost /\ Rank(r) >= Offset
    <3>1. r \in Missing(lost) \/ (scan.hollow # "end" /\ ~(Rank(r) < Offset + Size))
      BY <2>1, <2>3 DEF Missing
    <3>2. Rank(r) \in Nat /\ Offset \in Nat /\ Size \in Nat
      BY <1>1, <1>2
    <3> QED
      BY <3>1, <3>2
  <2>4. CASE ~lost /\ Rank(r) >= Offset
    BY <1>1, <1>3, <2>1, <2>4
  <2> QED
    BY <2>2, <2>3, <2>4
<1>11. ASSUME scan.size # "whole"
       PROVE  Offset' <= Offset + Size
  BY <1>1, <1>2, <1>3, <1>6, <1>7, <1>8, <1>9, <1>11
<1>12. ASSUME NEW r \in steady, got'[r] >= 1, scan.size # "whole"
       PROVE  r \in pushed \/ Rank(r) < Offset'
  <2>1. CASE r \in P
    <3>1. P = Page /\ Rank(r) < Offset + Cardinality(Page) /\ Rank(r) < Cardinality(Listable)
      BY <1>1, <1>3, <1>4, <1>9, <2>1
    <3> QED
      BY <1>1, <1>2, <1>3, <1>7, <1>8, <1>12, <3>1
  <2>2. CASE r \notin P
    <3>1. r \in pushed \/ Rank(r) < Offset
      BY <1>4, <1>5, <1>12, <2>2 DEF PlacesInv
    <3>2. Rank(r) < Cardinality(Listable) /\ Rank(r) \in Nat
      BY <1>1, <1>4
    <3>3. CASE scan.advance = "rows"
      <4>1. Cardinality(P) \in Nat
        BY <1>3, <1>6, <1>9
      <4> QED
        BY <1>1, <1>7, <3>1, <3>2, <3>3, <4>1
    <3>4. CASE scan.advance = "page"
      BY <1>1, <1>2, <1>7, <3>1, <3>2, <3>4
    <3> QED
      BY <1>8, <3>3, <3>4
  <2> QED
    BY <2>1, <2>2
<1>13. ASSUME NEW r \in steady, got'[r] > 1
       PROVE  r \in pushed
  <2>1. got[r] \in Nat /\ (got[r] > 1 \/ (got[r] >= 1 /\ r \in Page))
    BY <1>4, <1>5, <1>9, <1>13
  <2>2. CASE got[r] > 1
    BY <2>2 DEF PlacesInv
  <2>3. CASE got[r] >= 1 /\ r \in Page
    BY <1>1, <1>3, <2>3 DEF PlacesInv
  <2> QED
    BY <2>1, <2>2, <2>3
<1>14. ASSUME scan.size # "whole", NEW r \in steady, got'[r] = 0
       PROVE  r \in slid \cup withheld' \/ Rank(r) >= Offset'
  <2>1. /\ r \in slid \cup withheld' \/ Rank(r) >= Offset + Size
        /\ Offset' <= Offset + Size /\ Rank(r) \in Nat
    BY <1>1, <1>10, <1>11, <1>14
  <2> QED
    BY <1>1, <1>2, <1>7, <2>1
<1> QED
  BY <1>10, <1>12, <1>13, <1>14

\* A page keeps what is read a number of times.
LEMMA ReadTypes ==
  ASSUME LoopTypes, NEW P, got' = With(P), requests' = OneMore(requests)
  PROVE  /\ requests' \in Nat /\ DOMAIN got' = Listable /\ \A r \in Listable : got'[r] \in Nat
<1>1. Cardinality(Listable) \in Nat /\ MaxRequests \in Nat \ {0} /\ requests \in Nat
  BY ListFacts, PagingAssumption DEF LoopTypes
<1>2. requests' \in Nat
  BY <1>1 DEF OneMore, MostRequests
<1>3. \A r \in Listable : got[r] \in Nat
  BY DEF LoopTypes
<1> QED
  BY <1>2, <1>3 DEF With

\* What a tool returns are records.
LEMMA ReturnedRecords == \A read : ToolReturns(read) \subseteq Listable
<1>1. Wanted \subseteq Listable
  BY PagingAssumption
<1> QED
  BY <1>1 DEF ToolReturns, Window

\* The variables have their types at the start, and keep them.
LEMMA TypesInit == LoopInit => LoopTypes
<1> SUFFICES ASSUME LoopInit PROVE LoopTypes
  OBVIOUS
<1> USE PagingAssumption
<1>1. PageSize - 1 <= ScanLimit
  <2>1. ScanLimit % PageSize = 0 /\ ScanLimit \in Nat \ {0} /\ PageSize \in Nat \ {0, 1}
    OBVIOUS
  <2>2. ScanLimit < PageSize => ScanLimit % PageSize = ScanLimit
    BY <2>1
  <2> QED
    BY <2>1, <2>2
<1>2. spent \in Budget
  <2>1. 0 \in 0..ScanLimit /\ PageSize - 1 \in 0..ScanLimit /\ 0 \in 0..MaxRequests /\ 1 \in 0..MaxRequests
    BY <1>1
  <2>2. spent = Unspent \/ spent = [rows |-> PageSize - 1, requests |-> 1]
    BY DEF LoopInit
  <2> QED
    BY <2>1, <2>2 DEF Budget, Unspent
<1>3. skip \in Nat
  BY DEF LoopInit
<1>4. Loops \subseteq Loop
  BY LoopFacts DEF WellFormed
<1>5. scan \in Loops /\ listed \subseteq Listable /\ steady = listed /\ requests = 0
      /\ got = [r \in Listable |-> 0] /\ found = {} /\ answer = "none" /\ changes = 0
      /\ hollow = FALSE /\ withheld = {} /\ cut = FALSE /\ slid = {} /\ pushed = {}
  BY DEF LoopInit
<1>6. {hollow, cut} \subseteq BOOLEAN /\ changes \in 0..MaxChanges
  <2>1. MaxChanges \in Nat
    OBVIOUS
  <2>2. hollow \in BOOLEAN /\ cut \in BOOLEAN
    BY <1>5
  <2>3. changes \in 0..MaxChanges
    BY <1>5, <2>1
  <2> QED
    BY <2>2, <2>3
<1>7. requests \in Nat /\ DOMAIN got = Listable /\ \A r \in Listable : got[r] \in Nat
  BY <1>5
<1> QED
  BY <1>2, <1>3, <1>4, <1>5, <1>6, <1>7 DEF LoopTypes

\* One step for each action.
LEMMA TypesNext == LoopTypes /\ [LoopNext]_loopVars => LoopTypes'
<1> SUFFICES ASSUME LoopTypes, [LoopNext]_loopVars PROVE LoopTypes'
  OBVIOUS
<1>1. ASSUME GiveUp PROVE LoopTypes'
  BY <1>1 DEF GiveUp, Ends, unchangedList, LoopTypes
<1>2. ASSUME NEW lost \in BOOLEAN, ReadPage(lost) PROVE LoopTypes'
  <2>1. PICK P : got' = With(P) /\ requests' = OneMore(requests)
    BY <1>2 DEF ReadPage
  <2>2. requests' \in Nat /\ DOMAIN got' = Listable /\ \A r \in Listable : got'[r] \in Nat
    BY <2>1, ReadTypes
  <2>3. /\ answer' \in {"refused", "complete", answer}
        /\ found' \in {{}, ToolReturns(got'), found}
        /\ hollow' = (hollow \/ lost) /\ withheld' = withheld \cup Missing(lost)
    BY <1>2 DEF ReadPage, Ends
  <2>4. unchangedList /\ UNCHANGED cut
    BY <1>2 DEF ReadPage
  <2>5. found' \subseteq Listable
    BY <2>3, ReturnedRecords DEF LoopTypes
  <2>6. withheld' \subseteq Listable
    BY <2>3 DEF Missing, LoopTypes
  <2> QED
    BY <2>2, <2>3, <2>4, <2>5, <2>6 DEF LoopTypes, unchangedList
<1>3. ASSUME ReadFails PROVE LoopTypes'
  BY <1>3 DEF ReadFails, Ends, unchangedList, LoopTypes
<1>4. ASSUME NEW lost \in BOOLEAN, NEW cutoff \in BOOLEAN, WalkPage(lost, cutoff) PROVE LoopTypes'
  <2>1. PICK P : got' = With(Walked(P)) /\ requests' = OneMore(requests) /\ found' = Taken(P)
    BY <1>4 DEF WalkPage
  <2>2. requests' \in Nat /\ DOMAIN got' = Listable /\ \A r \in Listable : got'[r] \in Nat
    BY <2>1, ReadTypes
  <2>3. Wanted \subseteq Listable /\ found \subseteq Listable
    BY PagingAssumption DEF LoopTypes
  <2>4. found' \subseteq Listable
    BY <2>1, <2>3 DEF Taken
  <2>5. /\ answer' \in {"more", "complete", "none"} /\ unchangedList
        /\ hollow' = (hollow \/ lost) /\ cut' = (cut \/ cutoff)
        /\ withheld' = withheld \cup Missing(lost)
    BY <1>4 DEF WalkPage
  <2>6. withheld' \subseteq Listable
    BY <2>5 DEF Missing, LoopTypes
  <2> QED
    BY <2>2, <2>4, <2>5, <2>6 DEF LoopTypes, unchangedList
<1>5. ASSUME WalkStops PROVE LoopTypes'
  BY <1>5 DEF WalkStops, unchangedList, LoopTypes
<1>6. ASSUME NEW r \in Listable, Leaves(r) PROVE LoopTypes'
  <2>1. changes' \in 0..MaxChanges
    BY <1>6, PagingAssumption DEF Leaves, LoopTypes
  <2> QED
    BY <1>6, <2>1 DEF Leaves, LoopTypes
<1>7. ASSUME NEW r \in Listable, Comes(r) PROVE LoopTypes'
  <2>1. changes' \in 0..MaxChanges
    BY <1>7, PagingAssumption DEF Comes, LoopTypes
  <2> QED
    BY <1>7, <2>1 DEF Comes, LoopTypes
<1>8. CASE UNCHANGED loopVars
  BY <1>8 DEF loopVars, LoopTypes
<1> QED
  BY <1>1, <1>2, <1>3, <1>4, <1>5, <1>6, <1>7, <1>8 DEF LoopNext, Turn

-----------------------------------------------------------------------------
(* What is read.                                                              *)

\* Nothing is read, and nothing asked for, at the start.
LEMMA PlacesInit == LoopInit => PlacesInv /\ ReadsWhatStayed
<1> SUFFICES ASSUME LoopInit PROVE PlacesInv /\ ReadsWhatStayed
  OBVIOUS
<1>1. LoopTypes
  BY TypesInit
<1>2. \A r \in steady : got[r] = 0
  BY <1>1 DEF LoopInit, LoopTypes
<1>3. Offset = 0
  <2>1. IsFiniteSet(Listable) /\ Listable \cap {} = {} /\ \A r \in Listable : got[r] = IF r \in {} THEN 1 ELSE 0
    BY PagingAssumption DEF LoopInit
  <2>2. Read = 0
    <3>1. Cardinality(RowsOf(got, Listable)) = Cardinality({} \cap Listable)
      BY <2>1, RowsOnce
    <3>2. {} \cap Listable = {}
      OBVIOUS
    <3> QED
      BY <3>1, <3>2, FS_EmptySet DEF Read
  <2>3. requests * PageSize = 0
    BY PagingAssumption DEF LoopInit
  <2> QED
    BY <2>2, <2>3 DEF Offset, PageOffset
<1>4. \A r : Rank(r) \in Nat
  BY <1>1, ListFacts
<1> QED
  BY <1>2, <1>3, <1>4 DEF LoopInit, PlacesInv, ReadsWhatStayed

\* An answer that is not "complete" says nothing of what was read.
LEMMA Ended ==
  ASSUME answer' \notin {"none", "complete"}
  PROVE  PlacesInv' /\ ReadsWhatStayed'
BY DEF PlacesInv, ReadsWhatStayed

\* A page leaves the records behind the offset to be read and those before it read.
LEMMA PlacesReadPage ==
  ASSUME PagesInv, NEW lost \in BOOLEAN, ReadPage(lost)
  PROVE  PlacesInv' /\ ReadsWhatStayed'
<1> DEFINE P == IF lost THEN {} ELSE Page
<1>1. /\ answer = "none" /\ ~Stops /\ (lost => More) /\ got' = With(P)
      /\ requests' = OneMore(requests) /\ withheld' = withheld \cup Missing(lost)
      /\ unchangedList
  BY DEF ReadPage
<1>2. \/ answer' = "refused" /\ Refuses(P, More)
      \/ answer' = "complete" /\ ~Refuses(P, More) /\ (~More \/ HollowEnd(P, More))
      \/ answer' = "none" /\ ~Refuses(P, More) /\ More
  BY <1>1 DEF ReadPage, Ends
<1>3. LoopTypes /\ PlacesInv /\ P \in {{}, Page} /\ (P = Page \/ lost)
  BY DEF PagesInv
<1>4. scan' = scan /\ listed' = listed /\ steady' = steady /\ slid' = slid /\ pushed' = pushed
  BY <1>1 DEF unchangedList
<1>5. \A r : Rank(r)' = Rank(r)
  BY <1>4 DEF Rank
<1>6. /\ \A r \in steady : got'[r] = 0 => r \in slid \cup withheld' \/ Rank(r) >= Offset + Size
      /\ lost /\ scan.hollow = "end" => \A r \in steady : got'[r] = 0 => r \in slid \cup withheld'
      /\ scan.size # "whole" =>
           \A r \in steady : got'[r] = 0 => r \in slid \cup withheld' \/ Rank(r) >= Offset'
      /\ scan.size # "whole" => \A r \in steady : got'[r] >= 1 => r \in pushed \/ Rank(r) < Offset'
      /\ \A r \in steady : got'[r] > 1 => r \in pushed
  BY <1>1, <1>3, <1>4, PlacesAfterPage
<1>7. WellFormed(scan)
  BY <1>3, LoopFacts DEF LoopTypes
<1>8. ~Refuses(P, More) /\ scan.hollow = "refused" => withheld' = {}
  <2>1. ~Refuses(P, More) /\ scan.hollow = "refused" => ~lost /\ withheld = {}
    BY <1>1, <1>3 DEF Refuses, PlacesInv
  <2>2. ~lost => Missing(lost) = {}
    BY DEF Missing
  <2> QED
    BY <1>1, <2>1, <2>2
<1>9. ~Refuses(P, More) /\ More => scan.size # "whole"
  BY <1>7 DEF Refuses, WellFormed
<1>10. CASE answer' = "none"
  BY <1>1, <1>2, <1>3, <1>4, <1>5, <1>6, <1>8, <1>9, <1>10 DEF PlacesInv, ReadsWhatStayed
<1>11. CASE answer' = "complete"
  <2>1. ~Refuses(P, More) /\ (~More \/ HollowEnd(P, More))
    BY <1>2, <1>11
  <2>2. ASSUME NEW r \in steady', got'[r] = 0
        PROVE  r \in slid' \cup withheld'
    <3>1. ~More \/ (lost /\ scan.hollow = "end")
      BY <1>1, <1>3, <2>1, PageFacts DEF HollowEnd
    <3>2. CASE lost /\ scan.hollow = "end"
      BY <1>4, <1>6, <2>2, <3>2
    <3>3. CASE ~More
      <4>1. r \in slid \cup withheld' \/ Rank(r) >= Offset + Size
        BY <1>4, <1>6, <2>2
      <4>2. Rank(r) < Cardinality(listed) /\ Rank(r) \in Nat /\ Offset \in Nat /\ Cardinality(listed) \in Nat
        BY <1>3, <1>4, ListFacts DEF LoopTypes
      <4>3. Size \in Nat
        BY <1>1, <1>3, SizeFacts
      <4> QED
        BY <1>4, <3>3, <4>1, <4>2, <4>3 DEF More
    <3> QED
      BY <3>1, <3>2, <3>3
  <2> QED
    BY <1>4, <1>6, <1>8, <1>11, <2>1, <2>2 DEF PlacesInv, ReadsWhatStayed
<1> QED
  BY <1>2, <1>10, <1>11, Ended

\* A walk passes over, or takes, every row of a page that has no match too many.
LEMMA WalkedAll ==
  ASSUME LoopTypes, NEW P, IsFiniteSet(P), ~Overfull(P)
  PROVE  Walked(P) = P
<1>1. IsFiniteSet(P \cap Wanted)
  BY Parts
<1>2. Matched \in Nat
  <2>1. Wanted \in SUBSET Listable /\ IsFiniteSet(Listable) /\ \A r \in Wanted : got[r] \in Nat
    BY PagingAssumption DEF LoopTypes
  <2> QED
    BY <2>1, Parts, RowsFinite DEF Matched
<1>3. skip \in Nat /\ ReturnLimit \in Nat
  BY PagingAssumption DEF LoopTypes
<1>4. Matched + Cardinality(P \cap Wanted) <= skip + ReturnLimit
  BY <1>1, <1>2, <1>3, FS_CardinalityType DEF Overfull
<1>5. ASSUME NEW r \in P
      PROVE  Matched + Cardinality({s \in P \cap Wanted : s < r}) <= skip + ReturnLimit
  <2>1. /\ Cardinality({s \in P \cap Wanted : s < r}) <= Cardinality(P \cap Wanted)
        /\ Cardinality({s \in P \cap Wanted : s < r}) \in Nat
        /\ Cardinality(P \cap Wanted) \in Nat
    BY <1>1, Parts
  <2> QED
    BY <1>2, <1>3, <1>4, <2>1
<1> QED
  BY <1>5 DEF Walked

\* The same of a page of the walk, whose rows are read up to the match too many.
LEMMA PlacesWalkPage ==
  ASSUME PagesInv, NEW lost \in BOOLEAN, NEW cutoff \in BOOLEAN, WalkPage(lost, cutoff)
  PROVE  PlacesInv' /\ ReadsWhatStayed'
<1> DEFINE P == IF lost THEN {} ELSE Page
<1>1. /\ answer = "none" /\ scan.tool = "walk" /\ ~Stops /\ (lost => More) /\ got' = With(Walked(P))
      /\ requests' = OneMore(requests) /\ withheld' = withheld \cup Missing(lost)
      /\ unchangedList
  BY DEF WalkPage
<1>2. \/ answer' = "more"
      \/ answer' \in {"complete", "none"} /\ ~Overfull(P) /\ (answer' = "complete" => ~More)
  BY <1>1 DEF WalkPage
<1>3. LoopTypes /\ PlacesInv /\ P \in {{}, Page} /\ (P = Page \/ lost)
  BY DEF PagesInv
<1>4. scan' = scan /\ listed' = listed /\ steady' = steady /\ slid' = slid /\ pushed' = pushed
  BY <1>1 DEF unchangedList
<1>5. \A r : Rank(r)' = Rank(r)
  BY <1>4 DEF Rank
<1>6. WellFormed(scan)
  BY <1>3, LoopFacts DEF LoopTypes
<1>7. ASSUME ~Overfull(P)
      PROVE  got' = With(P)
  <2>1. IsFiniteSet(P)
    BY <1>1, <1>3, PageFacts, FS_EmptySet
  <2> QED
    BY <1>1, <1>3, <1>7, <2>1, WalkedAll
<1>8. ASSUME ~Overfull(P)
      PROVE  /\ \A r \in steady : got'[r] = 0 => r \in slid \cup withheld' \/ Rank(r) >= Offset + Size
             /\ lost /\ scan.hollow = "end" => \A r \in steady : got'[r] = 0 => r \in slid \cup withheld'
             /\ scan.size # "whole" =>
                  \A r \in steady : got'[r] = 0 => r \in slid \cup withheld' \/ Rank(r) >= Offset'
             /\ scan.size # "whole" => \A r \in steady : got'[r] >= 1 => r \in pushed \/ Rank(r) < Offset'
             /\ \A r \in steady : got'[r] > 1 => r \in pushed
  BY <1>1, <1>3, <1>4, <1>7, <1>8, PlacesAfterPage
<1>9. scan.hollow = "ignored" /\ scan.size = "page"
  BY <1>1, <1>6 DEF WellFormed
<1>10. CASE answer' = "none" /\ ~Overfull(P)
  BY <1>1, <1>3, <1>4, <1>5, <1>8, <1>9, <1>10 DEF PlacesInv, ReadsWhatStayed
<1>11. CASE answer' = "complete" /\ ~Overfull(P) /\ ~More
  <2>2. ASSUME NEW r \in steady', got'[r] = 0
        PROVE  r \in slid' \cup withheld'
    <3>3. r \in slid \cup withheld' \/ Rank(r) >= Offset + Size
      BY <1>4, <1>8, <1>11, <2>2
    <3>4. Rank(r) < Cardinality(listed) /\ Rank(r) \in Nat /\ Offset \in Nat /\ Cardinality(listed) \in Nat
      BY <1>3, <1>4, ListFacts DEF LoopTypes
    <3>5. Size \in Nat
      BY <1>1, <1>3, SizeFacts
    <3> QED
      BY <1>4, <1>11, <3>3, <3>4, <3>5 DEF More
  <2> QED
    BY <1>4, <1>8, <1>9, <1>11, <2>2 DEF PlacesInv, ReadsWhatStayed
<1> QED
  BY <1>2, <1>10, <1>11, Ended

\* A removal before the offset moves one record to before it, which is noted in `slid`.
LEMMA PlacesLeaves ==
  ASSUME PagesInv, NEW r \in Listable, Leaves(r)
  PROVE  PlacesInv' /\ ReadsWhatStayed'
<1>1. /\ answer = "none" /\ r \in listed /\ listed' = listed \ {r} /\ steady' = steady \ {r}
      /\ slid' = slid \cup {s \in listed : Rank(r) < Offset /\ Rank(s) = Offset}
      /\ UNCHANGED <<scan, requests, got, answer, withheld, pushed>>
  BY DEF Leaves
<1>2. LoopTypes /\ PlacesInv
  BY DEF PagesInv
<1>3. Offset' = Offset
  BY <1>1 DEF Offset, PageOffset, Read
<1>4. /\ Numbers(listed) /\ Offset \in Nat
      /\ \A s : Rank(s) = Place(listed, s) /\ Rank(s) \in Nat
  BY <1>2, ListFacts
<1>5. steady \subseteq listed
  BY <1>2 DEF LoopTypes
<1>6. \A s \in listed : Rank(s)' = IF r < s THEN Rank(s) - 1 ELSE Rank(s)
  BY <1>1, <1>4, PlaceAfterLeaving DEF Rank, Place
<1>7. \A s \in listed : Rank(r) < Rank(s) <=> r < s
  BY <1>1, <1>4, PlacesOrder
<1>8. ASSUME NEW s \in steady', got'[s] = 0
      PROVE  s \in slid' \cup withheld' \/ Rank(s)' >= Offset'
  <2>1. s \in slid \cup withheld \/ Rank(s) >= Offset
    BY <1>1, <1>2, <1>8 DEF PlacesInv
  <2>2. s \in listed
    BY <1>1, <1>5
  <2>3. CASE r < s /\ Rank(s) = Offset
    BY <1>1, <1>7, <2>2, <2>3
  <2>4. CASE ~(r < s) \/ Rank(s) # Offset
    BY <1>1, <1>3, <1>4, <1>6, <2>1, <2>2, <2>4
  <2> QED
    BY <2>3, <2>4
<1>9. ASSUME NEW s \in steady', got'[s] >= 1
      PROVE  s \in pushed' \/ Rank(s)' < Offset'
  BY <1>1, <1>2, <1>3, <1>4, <1>5, <1>6, <1>9 DEF PlacesInv
<1> QED
  BY <1>1, <1>2, <1>8, <1>9 DEF PlacesInv, ReadsWhatStayed

\* An insertion before the offset moves one record back to it, which is noted in `pushed`.
LEMMA PlacesComes ==
  ASSUME PagesInv, NEW r \in Listable, Comes(r)
  PROVE  PlacesInv' /\ ReadsWhatStayed'
<1>1. /\ answer = "none" /\ r \notin listed /\ listed' = listed \cup {r}
      /\ pushed' = pushed \cup {s \in listed : Rank(r) < Offset /\ Rank(s) = Offset - 1}
      /\ UNCHANGED <<scan, requests, got, answer, withheld, slid, steady>>
  BY DEF Comes
<1>2. LoopTypes /\ PlacesInv /\ r \in Nat
  BY PagingAssumption DEF PagesInv
<1>3. Offset' = Offset
  BY <1>1 DEF Offset, PageOffset, Read
<1>4. /\ Numbers(listed) /\ Offset \in Nat
      /\ \A s : Rank(s) = Place(listed, s) /\ Rank(s) \in Nat
  BY <1>2, ListFacts
<1>5. steady \subseteq listed
  BY <1>2 DEF LoopTypes
<1>6. \A s \in listed : Rank(s)' = IF r < s THEN Rank(s) + 1 ELSE Rank(s)
  BY <1>1, <1>2, <1>4, PlaceAfterComing DEF Rank, Place
<1>7. \A s \in listed : r < s => Rank(r) <= Rank(s)
  <2>1. SUFFICES ASSUME NEW s \in listed, r < s PROVE Rank(r) <= Rank(s)
    OBVIOUS
  <2>2. \A x \in listed : x \in Nat
    BY <1>4 DEF Numbers
  <2>3. \A x \in listed : x < r => x < s
    BY <1>2, <2>1, <2>2
  <2>4. {x \in listed : x < r} \in SUBSET {x \in listed : x < s} /\ {x \in listed : x < s} \in SUBSET listed
    BY <2>3
  <2>5. IsFiniteSet({x \in listed : x < s})
    BY <1>4, <2>4, Parts DEF Numbers
  <2> QED
    BY <2>4, <2>5, Parts DEF Rank
<1>8. ASSUME NEW s \in steady', got'[s] = 0
      PROVE  s \in slid' \cup withheld' \/ Rank(s)' >= Offset'
  BY <1>1, <1>2, <1>3, <1>4, <1>5, <1>6, <1>8 DEF PlacesInv
<1>9. ASSUME NEW s \in steady', got'[s] >= 1
      PROVE  s \in pushed' \/ Rank(s)' < Offset'
  <2>1. s \in pushed \/ Rank(s) < Offset
    BY <1>1, <1>2, <1>9 DEF PlacesInv
  <2>2. s \in listed
    BY <1>1, <1>5
  <2>3. CASE r < s /\ Rank(s) = Offset - 1
    BY <1>1, <1>4, <1>7, <2>2, <2>3
  <2>4. CASE ~(r < s) \/ Rank(s) # Offset - 1
    BY <1>1, <1>3, <1>4, <1>6, <2>1, <2>2, <2>4
  <2> QED
    BY <2>3, <2>4
<1> QED
  BY <1>1, <1>2, <1>8, <1>9 DEF PlacesInv, ReadsWhatStayed

\* Every step keeps the places.
LEMMA PlacesNext == PagesInv /\ [LoopNext]_loopVars => PlacesInv' /\ ReadsWhatStayed'
<1> SUFFICES ASSUME PagesInv, [LoopNext]_loopVars PROVE PlacesInv' /\ ReadsWhatStayed'
  OBVIOUS
<1>1. ASSUME GiveUp \/ ReadFails \/ WalkStops PROVE PlacesInv' /\ ReadsWhatStayed'
  <2>1. answer' \notin {"none", "complete"}
    BY <1>1 DEF GiveUp, ReadFails, WalkStops, Ends
  <2> QED
    BY <2>1, Ended
<1>2. CASE UNCHANGED loopVars
  BY <1>2 DEF loopVars, PagesInv, PlacesInv, ReadsWhatStayed, Rank, Offset, PageOffset, Read
<1> QED
  BY <1>1, <1>2, PlacesReadPage, PlacesWalkPage, PlacesLeaves, PlacesComes DEF LoopNext, Turn

-----------------------------------------------------------------------------
(* A list that nobody touches.                                                *)

\* Nobody has touched the list, and no page came without its rows.
Untouched == changes = 0 /\ ~hollow

\* What a loop started with leaves room in every bound.
SpentInv ==
  /\ spent.rows \in Nat /\ spent.requests \in Nat /\ spent.rows < PageSize
  /\ spent.rows + spent.requests \in {0, PageSize}

\* The loops of a budget have asked for whole pages, save the last of the budget.
BudgetInv ==
  scan.size = "budget" =>
    \/ Read = requests * PageSize
    \/ requests > 0 /\ Left = 0 /\ Read >= (requests - 1) * PageSize

\* What of the first k records matches.
MatchedOf(k) == First(listed, k) \cap Wanted

\* The records of a set that the window of the call asks for.
Asked(S) == {r \in S : Place(listed \cap Wanted, r) \in skip..(skip + ReturnLimit - 1)}

\* The records before the offset were read, once each; there is more after them; and a
\* walk has found what of them the caller asked for.
UntouchedInv ==
  Untouched /\ answer = "none" =>
    /\ \A r \in Listable : got[r] = IF r \in First(listed, Offset) THEN 1 ELSE 0
    /\ requests = 0 => Read = 0
    /\ requests > 0 => Offset < Cardinality(listed)
    /\ BudgetInv
    /\ scan.tool = "walk" =>
         found = Asked(MatchedOf(Offset)) /\ Cardinality(MatchedOf(Offset)) <= skip + ReturnLimit

\* Only a walk ends with more behind it.
CutInv == (cut \/ answer = "more") => scan.tool = "walk"

\* What RefusedForCause and WindowsTile rest on.
ExactInv ==
  /\ LoopTypes /\ SpentInv /\ CutInv /\ UntouchedInv /\ RefusedForCause /\ WindowsTile

\* What was read of an untouched list, in numbers.
LEMMA UntouchedRead ==
  ASSUME LoopTypes, NEW k \in Nat, \A r \in Listable : got[r] = IF r \in First(listed, k) THEN 1 ELSE 0
  PROVE  /\ Read = IF k < Cardinality(listed) THEN k ELSE Cardinality(listed)
         /\ Matched = Cardinality(MatchedOf(k))
<1>1. /\ Numbers(listed) /\ IsFiniteSet(Listable) /\ Wanted \in SUBSET Listable
  BY ListFacts, PagingAssumption
<1>2. First(listed, k) \in SUBSET Listable
  BY DEF First, LoopTypes
<1>3. Read = Cardinality(First(listed, k) \cap Listable)
  BY <1>1, RowsOnce DEF Read
<1>4. First(listed, k) \cap Listable = First(listed, k)
  BY <1>2
<1>5. Read = Cardinality(First(listed, k))
  BY <1>3, <1>4
<1>6. IsFiniteSet(Wanted) /\ \A r \in Wanted : got[r] = IF r \in First(listed, k) THEN 1 ELSE 0
  BY <1>1, Parts
<1>7. Matched = Cardinality(First(listed, k) \cap Wanted)
  BY <1>6, RowsOnce DEF Matched
<1> QED
  BY <1>1, <1>5, <1>7, FirstCount DEF MatchedOf

\* What a page adds, and where a loop that goes on is then.
LEMMA UntouchedPage ==
  ASSUME LoopTypes, UntouchedInv, Untouched, answer = "none", ~Stops, scan' = scan,
         got' = With(Page), requests' = OneMore(requests)
  PROVE  /\ \A r \in Listable : got'[r] = IF r \in First(listed, Offset + Size) THEN 1 ELSE 0
         /\ Read + Cardinality(Page) =
              IF Offset + Size < Cardinality(listed) THEN Offset + Size ELSE Cardinality(listed)
         /\ Read' = Read + Cardinality(Page)
         /\ More /\ scan.size # "whole" => Offset' = Offset + Size
         /\ More /\ scan.size \in {"page", "budget"} /\ (scan.size = "page" => scan.advance = "page")
              => requests' = requests + 1
<1>1. /\ Numbers(listed) /\ Offset \in Nat /\ Size \in Nat \ {0} /\ Page = From(listed, Offset, Size)
      /\ Page \in SUBSET listed /\ Cardinality(listed) \in Nat
  BY ListFacts, SizeFacts, PageFacts
<1>2. /\ First(listed, Offset + Size) = First(listed, Offset) \cup Page
      /\ First(listed, Offset) \cap Page = {}
  BY <1>1, FromCount
<1>3. \A r \in Listable : got[r] = IF r \in First(listed, Offset) THEN 1 ELSE 0
  BY DEF UntouchedInv
<1>4. \A r \in Listable : got'[r] = IF r \in First(listed, Offset + Size) THEN 1 ELSE 0
  BY <1>2, <1>3 DEF With
<1>5. Page \in SUBSET Listable /\ listed \in SUBSET Listable
  BY <1>1 DEF LoopTypes
<1>6. /\ Read' = Read + Cardinality(Page) /\ Cardinality(Page) \in Nat /\ Offset' \in Nat
      /\ scan.advance = "rows" => Offset = Read /\ Offset' = Read + Cardinality(Page)
      /\ scan.advance = "page" =>
              /\ Offset = requests * PageSize
              /\ \/ requests' = requests + 1 /\ Offset' = Offset + PageSize
                 \/ requests = MostRequests /\ Offset' >= Cardinality(Listable) /\ Offset' <= Offset
  BY <1>5, OffsetAfter
<1>7. Read = Cardinality(First(listed, Offset))
  BY <1>1, <1>3, UntouchedRead, FirstCount
<1>8. Cardinality(First(listed, Offset + Size)) = Cardinality(First(listed, Offset)) + Cardinality(Page)
  <2>1. First(listed, Offset) \in SUBSET listed /\ IsFiniteSet(listed)
    BY <1>1 DEF First, Numbers
  <2>2. Cardinality(First(listed, Offset) \cup Page) = Cardinality(First(listed, Offset)) + Cardinality(Page)
    BY <1>1, <1>2, <2>1, Apart
  <2> QED
    BY <1>2, <2>2
<1>9. Read + Cardinality(Page) =
        IF Offset + Size < Cardinality(listed) THEN Offset + Size ELSE Cardinality(listed)
  <2>1. Offset + Size \in Nat
    BY <1>1
  <2> QED
    BY <1>1, <1>7, <1>8, <2>1, FirstCount
<1>10. /\ Cardinality(listed) <= Cardinality(Listable) /\ Cardinality(Listable) \in Nat
       /\ PageSize \in Nat \ {0, 1} /\ MaxRequests \in Nat \ {0} /\ requests \in Nat
  BY ListFacts, PagingAssumption DEF LoopTypes
<1>11. /\ scan.size = "page" => Size = PageSize
       /\ scan.advance \in {"page", "rows"} /\ (scan.advance = "page" => scan.size \in {"page", "whole"})
  BY SizeFacts, LoopFacts DEF LoopTypes, WellFormed, Loop
<1>12. ASSUME More, scan.size # "whole"
       PROVE  Offset' = Offset + Size
  <2>1. Offset + Size < Cardinality(listed)
    BY <1>12 DEF More
  <2>2. CASE scan.advance = "rows"
    BY <1>6, <1>9, <2>1, <2>2
  <2>3. CASE scan.advance = "page"
    <3>1. Size = PageSize
      BY <1>11, <1>12, <2>3
    <3>2. ~(Offset' >= Cardinality(Listable) /\ Offset' <= Offset)
      BY <1>1, <1>6, <1>10, <2>1
    <3> QED
      BY <1>6, <2>3, <3>1, <3>2
  <2> QED
    BY <1>11, <2>2, <2>3
<1>13. ASSUME More, scan.size \in {"page", "budget"}, scan.size = "page" => scan.advance = "page"
       PROVE  requests' = requests + 1
  <2>1. Offset + Size < Cardinality(listed)
    BY <1>13 DEF More
  <2>2. CASE scan.advance = "page"
    BY <1>1, <1>6, <1>10, <2>1, <2>2
  <2>3. CASE scan.advance = "rows"
    <3>1. scan.size = "budget" /\ Offset = Read
      BY <1>6, <1>13, <2>3
    <3>2. BudgetInv
      BY DEF UntouchedInv
    <3>3. requests * PageSize >= requests /\ requests * PageSize \in Nat
      BY <1>10, RowsOfPages
    <3>4. requests > 0 => (requests - 1) * PageSize >= requests - 1 /\ (requests - 1) * PageSize \in Nat
      BY <1>10, RowsOfPages
    <3>5. requests - 1 <= Offset
      BY <1>1, <1>10, <3>1, <3>2, <3>3, <3>4 DEF BudgetInv
    <3>6. requests < MostRequests
      BY <1>1, <1>10, <2>1, <3>5 DEF MostRequests
    <3> QED
      BY <1>10, <3>6 DEF OneMore, MostRequests
  <2> QED
    BY <1>11, <2>2, <2>3
<1> QED
  BY <1>4, <1>6, <1>9, <1>12, <1>13

-----------------------------------------------------------------------------
(* What a list may need of the bounds.                                        *)

\* What holds k times p is k p-ths at least.
LEMMA Quotient ==
  ASSUME NEW a \in Nat, NEW k \in Nat, NEW p \in Nat \ {0}, a >= k * p
  PROVE  a \div p \in Nat /\ a \div p >= k
<1> DEFINE q == a \div p
<1>1. q \in Nat /\ a < (q + 1) * p
  OBVIOUS
<1>2. ASSUME q < k PROVE FALSE
  <2>1. PICK d \in Nat : k = (q + 1) + d
    <3>1. k - (q + 1) \in Nat /\ k = (q + 1) + (k - (q + 1))
      BY <1>1, <1>2
    <3> QED
      BY <3>1
  <2>2. k * p = (q + 1) * p + d * p /\ d * p \in Nat
    BY <1>1, <2>1
  <2> QED
    BY <1>1, <2>2
<1> QED
  BY <1>1, <1>2

\* The pages of a list of n records.
PagesOf(n) == IF n = 0 THEN 1 ELSE (n + PageSize - 1) \div PageSize

\* The pages a list of n records takes.
LEMMA PagesNeeded ==
  ASSUME NEW n \in Nat, NEW q \in Nat, q > 0 => q * PageSize < n
  PROVE  PagesOf(n) \in Nat /\ PagesOf(n) >= q + 1
<1>1. PageSize \in Nat \ {0}
  BY PagingAssumption
<1>2. CASE n = 0
  <2>1. q = 0
    BY <1>1, <1>2, RowsOfPages
  <2> QED
    BY <1>2, <2>1 DEF PagesOf
<1>3. CASE n > 0
  <2>1. n + PageSize - 1 \in Nat /\ q + 1 \in Nat /\ (q + 1) * PageSize = q * PageSize + PageSize
        /\ q * PageSize \in Nat
    BY <1>1, <1>3, RowsOfPages
  <2>2. q * PageSize < n
    BY <1>1, <1>3
  <2>3. n + PageSize - 1 >= (q + 1) * PageSize
    BY <1>1, <2>1, <2>2
  <2> QED
    BY <1>1, <1>3, <2>1, <2>3, Quotient DEF PagesOf
<1> QED
  BY <1>2, <1>3

\* The bounds a list of n records fits into.
LEMMA FitsFacts ==
  ASSUME NEW n \in Nat, Fits(n)
  PROVE  /\ spent.rows + n <= ScanLimit
         /\ "requests" \in scan.before => spent.requests + PagesOf(n) <= MaxRequests
         /\ "budget" \in scan.before => spent.rows + n + (spent.requests + PagesOf(n)) <= ScanLimit
BY DEF Fits, PagesOf

\* A bound of whole pages is never a page and a row.
LEMMA ScanLimitIsPages == ScanLimit >= PageSize /\ ScanLimit # PageSize + 1
<1>1. ScanLimit % PageSize = 0 /\ ScanLimit \in Nat \ {0} /\ PageSize \in Nat \ {0, 1}
  BY PagingAssumption
<1>2. ScanLimit < PageSize => ScanLimit % PageSize = ScanLimit
  BY <1>1
<1>3. ScanLimit = PageSize + 1 => ScanLimit % PageSize = 1
  <2>1. SUFFICES ASSUME ScanLimit = PageSize + 1 PROVE ScanLimit % PageSize = 1
    OBVIOUS
  <2>2. ScanLimit = PageSize * 1 + 1 /\ 1 < PageSize
    BY <1>1, <2>1
  <2> QED
    BY <1>1, <2>2
<1> QED
  BY <1>1, <1>2, <1>3

\* A loop that gives up an untouched list before a request has come to the end of a bound.
LEMMA GivesUpForCause ==
  ASSUME ExactInv, GiveUp, Untouched
  PROVE  ~Fits(Cardinality(listed))
<1> DEFINE n == Cardinality(listed)
<1>1. answer = "none" /\ scan.tool # "walk" /\ Stops
  BY DEF GiveUp
<1>2. LoopTypes /\ SpentInv /\ UntouchedInv
  BY DEF ExactInv
<1>3. /\ n \in Nat /\ Offset \in Nat /\ Read \in Nat /\ requests \in Nat
      /\ PageSize \in Nat \ {0, 1} /\ ScanLimit \in Nat \ {0} /\ MaxRequests \in Nat \ {0}
      /\ spent.rows \in Nat /\ spent.requests \in Nat /\ spent.rows < PageSize
      /\ spent.rows + spent.requests \in {0, PageSize}
      /\ ScanLimit >= PageSize /\ ScanLimit # PageSize + 1
  BY <1>2, ListFacts, PagingAssumption, ScanLimitIsPages DEF LoopTypes, SpentInv
<1>4. Read = IF Offset < n THEN Offset ELSE n
  BY <1>1, <1>2, <1>3, UntouchedRead DEF UntouchedInv
<1>5. /\ requests = 0 => Read = 0
      /\ requests > 0 => Offset < n
      /\ BudgetInv
  BY <1>1, <1>2 DEF UntouchedInv
<1>6. WellFormed(scan)
  BY <1>2, LoopFacts DEF LoopTypes
<1>7. SUFFICES ASSUME Fits(n) PROVE FALSE
  OBVIOUS
<1>8. /\ spent.rows + n <= ScanLimit
      /\ "requests" \in scan.before => spent.requests + PagesOf(n) <= MaxRequests
      /\ "budget" \in scan.before => spent.rows + n + (spent.requests + PagesOf(n)) <= ScanLimit
  BY <1>3, <1>7, FitsFacts
<1>9. requests = 0 => Offset = 0 \/ Offset = Read
  BY <1>3 DEF Offset, PageOffset
<1>10. ASSUME "offset" \in scan.before, Offset >= ScanLimit
       PROVE  FALSE
  BY <1>3, <1>5, <1>8, <1>9, <1>10
<1>11. ASSUME RequestsUsedUp
       PROVE  FALSE
  <2>1. "requests" \in scan.before /\ spent.requests + requests >= MaxRequests
    BY <1>1, <1>11 DEF RequestsUsedUp, Depth
  <2>2. scan.advance = "page"
    BY <1>6, <2>1 DEF WellFormed
  <2>3. requests > 0 => requests * PageSize < n
    BY <1>5, <2>2 DEF Offset, PageOffset
  <2>4. PagesOf(n) \in Nat /\ PagesOf(n) >= requests + 1
    BY <1>3, <2>3, PagesNeeded
  <2> QED
    BY <1>3, <1>8, <2>1, <2>4
<1>12. ASSUME "rows" \in scan.before, spent.rows + Read >= ScanLimit
       PROVE  FALSE
  BY <1>3, <1>4, <1>5, <1>8, <1>12
<1>13. ASSUME "budget" \in scan.before, Size = 0
       PROVE  FALSE
  <2>1. scan.size = "budget" /\ scan.advance = "rows"
    BY <1>6, <1>13 DEF WellFormed, Loop
  <2>2. Offset = Read
    BY <2>1 DEF Offset
  <2> DEFINE used == spent.rows + spent.requests + Read + requests
  <2>3. Left = (IF used < ScanLimit THEN ScanLimit - used ELSE 0) /\ used \in Nat
    BY <1>3 DEF Left
  <2>4. BudgetPageSize = 0
    BY <1>13, <2>1 DEF Size
  <2>5. used >= ScanLimit - 1
    <3>1. CASE Left = 0
      BY <1>3, <2>3, <3>1
    <3>2. CASE Left # 0
      <4>1. PageSize \in Int /\ Left - 1 \in Int
        BY <1>3, <2>3
      <4>2. Min({PageSize, Left - 1}) = 0
        BY <2>4, <3>2 DEF BudgetPageSize
      <4>3. Left - 1 = 0
        BY <1>3, <4>1, <4>2, Lesser
      <4> QED
        BY <1>3, <2>3, <4>3
    <3> QED
      BY <3>1, <3>2
  <2>6. CASE requests = 0
    <3>1. used \in {0, PageSize} /\ used = spent.rows + spent.requests
      BY <1>3, <1>5, <2>6
    <3>2. PagesOf(n) \in Nat /\ PagesOf(n) >= requests + 1
      BY <1>3, <2>6, PagesNeeded
    <3>3. used + 1 <= ScanLimit
      BY <1>3, <1>8, <1>13, <2>6, <3>1, <3>2
    <3> QED
      BY <1>3, <2>5, <3>1, <3>3
  <2>7. CASE requests > 0
    <3>1. Read < n
      BY <1>5, <2>2, <2>7
    <3>2. CASE Read = requests * PageSize
      <4>1. PagesOf(n) \in Nat /\ PagesOf(n) >= requests + 1
        BY <1>3, <3>1, <3>2, PagesNeeded
      <4> QED
        BY <1>3, <1>8, <1>13, <2>5, <3>1, <4>1
    <3>3. CASE Left = 0 /\ Read >= (requests - 1) * PageSize
      <4>1. requests - 1 \in Nat /\ (requests - 1) * PageSize < n
        <5>1. requests - 1 \in Nat
          BY <1>3, <2>7
        <5>2. (requests - 1) * PageSize \in Nat
          BY <1>3, <5>1, RowsOfPages
        <5> QED
          BY <1>3, <3>1, <3>3, <5>1, <5>2
      <4>2. PagesOf(n) \in Nat /\ PagesOf(n) >= (requests - 1) + 1
        BY <1>3, <4>1, PagesNeeded
      <4>3. used >= ScanLimit
        BY <1>3, <2>3, <3>3
      <4> QED
        BY <1>3, <1>8, <1>13, <2>7, <3>1, <4>2, <4>3
    <3> QED
      BY <1>5, <2>1, <3>2, <3>3 DEF BudgetInv
  <2> QED
    BY <1>3, <2>6, <2>7
<1> QED
  BY <1>1, <1>10, <1>11, <1>12, <1>13 DEF Stops, RowsBefore

\* An answer that is refused, of an untouched list, is too much.
LEMMA RefusesForCause ==
  ASSUME ExactInv, Untouched, answer = "none", ~Stops, Refuses(Page, More), scan' = scan,
         got' = With(Page), requests' = OneMore(requests)
  PROVE  ~Fits(Cardinality(listed))
<1> DEFINE n == Cardinality(listed)
           rows == Read + Cardinality(Page)
<1>1. LoopTypes /\ SpentInv /\ UntouchedInv
  BY DEF ExactInv
<1>2. /\ n \in Nat /\ Offset \in Nat /\ Read \in Nat /\ requests \in Nat /\ Size \in Nat \ {0}
      /\ ScanLimit \in Nat \ {0} /\ PageSize \in Nat \ {0, 1}
      /\ spent.rows \in Nat /\ spent.requests \in Nat
      /\ Cardinality(Page) \in Nat /\ Cardinality(Page) <= Size /\ (More => Page # {})
      /\ scan.size = "whole" => Size = ScanLimit
  BY <1>1, ListFacts, SizeFacts, PageFacts, PagingAssumption DEF LoopTypes, SpentInv
<1>3. rows = IF Offset + Size < n THEN Offset + Size ELSE n
  BY <1>1, UntouchedPage
<1>4. WellFormed(scan)
  BY <1>1, LoopFacts DEF LoopTypes
<1>5. SUFFICES ASSUME Fits(n) PROVE FALSE
  OBVIOUS
<1>6. spent.rows + n <= ScanLimit
  BY <1>2, <1>5, FitsFacts
<1>7. n <= ScanLimit /\ spent.rows + rows <= ScanLimit /\ rows <= n /\ (~More => rows = n)
  BY <1>2, <1>3, <1>6 DEF More
<1>8. ASSUME "budget" \in scan.after
      PROVE  Cardinality(Page) + 1 <= Left
  <2>1. scan.size = "budget" /\ Size = BudgetPageSize
    BY <1>4, <1>8 DEF WellFormed, Size
  <2>2. Left \in Nat /\ Left # 0
    BY <1>2, <2>1 DEF Left, BudgetPageSize
  <2>3. PageSize \in Int /\ Left - 1 \in Int
    BY <1>2, <2>2
  <2>4. Size <= Left - 1
    BY <1>2, <2>1, <2>2, <2>3, Lesser DEF BudgetPageSize
  <2> QED
    BY <1>2, <2>2, <2>4
<1>9. "more" \in scan.after => ~More
  BY <1>2, <1>4, <1>7 DEF More, WellFormed
<1>10. ~("rows" \in scan.after /\ spent.rows + rows > ScanLimit)
  BY <1>2, <1>3, <1>7
<1>11. ~("budget" \in scan.after /\ Cardinality(Page) + 1 > Left)
  <2>1. Left \in Nat
    BY <1>2 DEF Left
  <2> QED
    BY <1>2, <1>8, <2>1
<1>12. ~("tally" \in scan.after /\ (rows > n \/ (~More /\ rows # n)))
  BY <1>2, <1>3, <1>7
<1>13. ~(n > ScanLimit)
  BY <1>2, <1>7
<1> QED
  BY <1>2, <1>9, <1>10, <1>11, <1>12, <1>13 DEF Refuses

-----------------------------------------------------------------------------
(* What a walk or a window returns.                                           *)

\* The matches of the list, their places, and those of the first k records.
LEMMA MatchFacts ==
  ASSUME LoopTypes, NEW k \in Nat
  PROVE  /\ Numbers(listed \cap Wanted) /\ MatchedOf(k) \in SUBSET (listed \cap Wanted)
         /\ Cardinality(MatchedOf(k)) \in Nat
         /\ \A r \in MatchedOf(k), s \in listed \cap Wanted : s < r => s \in MatchedOf(k)
         /\ \A r \in (listed \cap Wanted) \ MatchedOf(k) :
              Place(listed \cap Wanted, r) >= Cardinality(MatchedOf(k))
<1>1. Numbers(listed)
  BY ListFacts
<1>2. Numbers(listed \cap Wanted)
  <2>1. listed \cap Wanted \in SUBSET listed
    OBVIOUS
  <2> QED
    BY <1>1, <2>1, Parts DEF Numbers
<1>3. MatchedOf(k) \in SUBSET (listed \cap Wanted)
  BY DEF MatchedOf, First
<1>4. Cardinality(MatchedOf(k)) \in Nat
  BY <1>2, <1>3, Parts DEF Numbers
<1>5. ASSUME NEW r \in MatchedOf(k), NEW s \in listed \cap Wanted, s < r
      PROVE  s \in MatchedOf(k)
  <2>1. Place(listed, s) < Place(listed, r) /\ Place(listed, r) < k
    BY <1>1, <1>5, PlacesOrder DEF MatchedOf, First
  <2>2. Place(listed, s) \in Nat /\ Place(listed, r) \in Nat
    BY <1>1, Places
  <2> QED
    BY <2>1, <2>2 DEF MatchedOf, First
<1>6. ASSUME NEW r \in (listed \cap Wanted) \ MatchedOf(k)
      PROVE  Place(listed \cap Wanted, r) >= Cardinality(MatchedOf(k))
  <2>1. \A s \in listed \cap Wanted : s \in Nat
    BY <1>2 DEF Numbers
  <2>2. \A s \in MatchedOf(k) : s < r
    <3>1. SUFFICES ASSUME NEW s \in MatchedOf(k) PROVE s < r
      OBVIOUS
    <3>2. ~(r < s) /\ s # r
      BY <1>5, <1>6
    <3> QED
      BY <1>3, <2>1, <3>2
  <2>3. MatchedOf(k) \in SUBSET {s \in listed \cap Wanted : s < r}
    BY <1>3, <2>2
  <2>4. IsFiniteSet({s \in listed \cap Wanted : s < r})
    BY <1>2, Parts DEF Numbers
  <2> QED
    BY <2>3, <2>4, Parts DEF Place
<1> QED
  BY <1>2, <1>3, <1>4, <1>5, <1>6

\* What a walk has seen of the matches at a row of a page is the place of the row.
LEMMA SeenIsPlace ==
  ASSUME LoopTypes, ~Stops, \A r \in Listable : got[r] = IF r \in First(listed, Offset) THEN 1 ELSE 0
  PROVE  /\ \A r \in Page :
              Matched + Cardinality({s \in Page \cap Wanted : s < r}) = Place(listed \cap Wanted, r)
         /\ MatchedOf(Offset + Size) = MatchedOf(Offset) \cup (Page \cap Wanted)
         /\ Matched + Cardinality(Page \cap Wanted) = Cardinality(MatchedOf(Offset + Size))
         /\ Offset + Size \in Nat
<1>1. /\ Numbers(listed) /\ Offset \in Nat /\ Size \in Nat \ {0} /\ Page = From(listed, Offset, Size)
      /\ Page \in SUBSET listed /\ \A r \in Page : Rank(r) >= Offset
      /\ \A r : Rank(r) = Place(listed, r) /\ Rank(r) \in Nat
  BY ListFacts, SizeFacts, PageFacts
<1>2. Matched = Cardinality(MatchedOf(Offset))
  BY <1>1, UntouchedRead
<1>3. /\ First(listed, Offset + Size) = First(listed, Offset) \cup Page
      /\ First(listed, Offset) \cap Page = {}
  BY <1>1, FromCount
<1>4. /\ Numbers(listed \cap Wanted) /\ MatchedOf(Offset) \in SUBSET (listed \cap Wanted)
      /\ \A r \in MatchedOf(Offset + Size), s \in listed \cap Wanted : s < r => s \in MatchedOf(Offset + Size)
      /\ Offset + Size \in Nat
  <2>1. Offset + Size \in Nat
    BY <1>1
  <2> QED
    BY <1>1, <2>1, MatchFacts
<1>5. /\ MatchedOf(Offset + Size) = MatchedOf(Offset) \cup (Page \cap Wanted)
      /\ MatchedOf(Offset) \cap (Page \cap Wanted) = {}
  BY <1>3 DEF MatchedOf
<1>6. IsFiniteSet(listed \cap Wanted) /\ Page \cap Wanted \in SUBSET (listed \cap Wanted)
  BY <1>1, <1>4 DEF Numbers
<1>7. Matched + Cardinality(Page \cap Wanted) = Cardinality(MatchedOf(Offset + Size))
  <2> DEFINE A == MatchedOf(Offset)
             B == Page \cap Wanted
             W == listed \cap Wanted
  <2>1. IsFiniteSet(W) /\ A \in SUBSET W /\ B \in SUBSET W /\ A \cap B = {}
    BY <1>4, <1>5, <1>6
  <2>2. MatchedOf(Offset + Size) = A \cup B /\ Matched = Cardinality(A)
    BY <1>2, <1>5
  <2> HIDE DEF A, B, W
  <2>3. Cardinality(A \cup B) = Cardinality(A) + Cardinality(B)
    BY <2>1, Apart
  <2> QED
    BY <2>2, <2>3 DEF B
<1>8. ASSUME NEW r \in Page
      PROVE  Matched + Cardinality({s \in Page \cap Wanted : s < r}) = Place(listed \cap Wanted, r)
  <2> DEFINE B == {s \in Page \cap Wanted : s < r}
  <2>1. \A s \in MatchedOf(Offset) : s < r
    <3>1. SUFFICES ASSUME NEW s \in MatchedOf(Offset) PROVE s < r
      OBVIOUS
    <3>2. s \in listed /\ Place(listed, s) < Offset
      BY DEF MatchedOf, First
    <3>3. Place(listed, s) < Place(listed, r) /\ r \in listed
      BY <1>1, <3>2
    <3> QED
      BY <1>1, <3>2, <3>3, PlacesOrder
  <2>2. \A s \in listed \cap Wanted : s < r => s \in MatchedOf(Offset) \/ s \in Page
    <3>1. SUFFICES ASSUME NEW s \in listed \cap Wanted, s < r PROVE s \in MatchedOf(Offset) \/ s \in Page
      OBVIOUS
    <3>2. r \in First(listed, Offset + Size) /\ r \in listed
      BY <1>1, <1>3
    <3>3. Place(listed, s) < Place(listed, r) /\ Place(listed, r) < Offset + Size
      BY <1>1, <3>1, <3>2, PlacesOrder DEF First
    <3>4. s \in First(listed, Offset + Size)
      BY <1>1, <3>3 DEF First
    <3> QED
      BY <1>3, <3>4 DEF MatchedOf
  <2>3. {s \in listed \cap Wanted : s < r} = MatchedOf(Offset) \cup B
    BY <1>4, <1>6, <2>1, <2>2
  <2>4. MatchedOf(Offset) \cap B = {} /\ B \in SUBSET (listed \cap Wanted)
    BY <1>5, <1>6
  <2>5. Cardinality(MatchedOf(Offset) \cup B) = Cardinality(MatchedOf(Offset)) + Cardinality(B)
    BY <1>4, <1>6, <2>4, Apart
  <2> QED
    BY <1>2, <2>3, <2>5 DEF Place
<1> QED
  BY <1>4, <1>5, <1>7, <1>8

\* A walk has found what the caller asked for of the records it has come by.
LEMMA WalkFinds ==
  ASSUME ExactInv, Untouched, answer = "none", scan.tool = "walk", ~Stops
  PROVE  /\ Taken(Page) = Asked(MatchedOf(Offset + Size))
         /\ Overfull(Page) <=> Cardinality(MatchedOf(Offset + Size)) > skip + ReturnLimit
         /\ Overfull(Page) =>
              /\ Asked(MatchedOf(Offset + Size)) = Asked(listed \cap Wanted)
              /\ Cardinality(listed \cap Wanted) > skip + ReturnLimit
<1>1. LoopTypes /\ UntouchedInv /\ skip \in Nat /\ ReturnLimit \in Nat
  BY PagingAssumption DEF ExactInv, LoopTypes
<1>2. /\ \A r \in Listable : got[r] = IF r \in First(listed, Offset) THEN 1 ELSE 0
      /\ found = Asked(MatchedOf(Offset))
  BY <1>1 DEF UntouchedInv
<1>3. /\ \A r \in Page :
           Matched + Cardinality({s \in Page \cap Wanted : s < r}) = Place(listed \cap Wanted, r)
      /\ MatchedOf(Offset + Size) = MatchedOf(Offset) \cup (Page \cap Wanted)
      /\ Matched + Cardinality(Page \cap Wanted) = Cardinality(MatchedOf(Offset + Size))
      /\ Offset + Size \in Nat
  BY <1>1, <1>2, SeenIsPlace
<1>4. Taken(Page) = Asked(MatchedOf(Offset + Size))
  <2>1. {r \in Page \cap Wanted :
           Matched + Cardinality({s \in Page \cap Wanted : s < r}) \in skip..(skip + ReturnLimit - 1)}
          = Asked(Page \cap Wanted)
    BY <1>3 DEF Asked
  <2>2. Taken(Page) = Asked(MatchedOf(Offset)) \cup Asked(Page \cap Wanted)
    BY <1>2, <2>1 DEF Taken
  <2> QED
    BY <1>3, <2>2 DEF Asked
<1>5. Overfull(Page) <=> Cardinality(MatchedOf(Offset + Size)) > skip + ReturnLimit
  BY <1>3 DEF Overfull
<1>6. ASSUME Overfull(Page)
      PROVE  /\ Asked(MatchedOf(Offset + Size)) = Asked(listed \cap Wanted)
             /\ Cardinality(listed \cap Wanted) > skip + ReturnLimit
  <2> DEFINE M == MatchedOf(Offset + Size)
             W == listed \cap Wanted
  <2>1. /\ Numbers(W) /\ M \in SUBSET W /\ Cardinality(M) \in Nat
        /\ \A r \in W \ M : Place(W, r) >= Cardinality(M)
    BY <1>1, <1>3, MatchFacts
  <2>2. Cardinality(M) > skip + ReturnLimit
    BY <1>5, <1>6
  <2>3. Cardinality(M) <= Cardinality(W) /\ Cardinality(W) \in Nat
    BY <2>1, Parts DEF Numbers
  <2>4. \A r \in W \ M : Place(W, r) \notin skip..(skip + ReturnLimit - 1)
    <3>1. SUFFICES ASSUME NEW r \in W \ M PROVE Place(W, r) \notin skip..(skip + ReturnLimit - 1)
      OBVIOUS
    <3>2. Place(W, r) \in Nat /\ Place(W, r) >= Cardinality(M)
      BY <2>1, Places
    <3> QED
      BY <1>1, <2>1, <2>2, <3>2
  <2> QED
    BY <1>1, <2>1, <2>2, <2>3, <2>4 DEF Asked
<1> QED
  BY <1>4, <1>5, <1>6

\* A tool that has read the whole of an untouched list returns what the caller asked for.
LEMMA WindowIs ==
  ASSUME LoopTypes, NEW read, \A r \in Listable : read[r] = IF r \in listed THEN 1 ELSE 0
  PROVE  Window(read) = Asked(listed \cap Wanted)
<1>1. IsFiniteSet(Wanted) /\ Wanted \in SUBSET Listable /\ listed \subseteq Listable
  BY Parts, PagingAssumption DEF LoopTypes
<1>2. skip \in Nat /\ ReturnLimit \in Nat
  BY PagingAssumption DEF LoopTypes
<1>3. ASSUME NEW r \in Wanted
      PROVE  /\ Cardinality(RowsOf(read, {s \in Wanted : s < r})) = Place(listed \cap Wanted, r)
             /\ Place(listed \cap Wanted, r) \in Nat
  <2> DEFINE B == {s \in Wanted : s < r}
  <2>1. IsFiniteSet(B) /\ \A s \in B : read[s] = IF s \in listed THEN 1 ELSE 0
    BY <1>1, Parts
  <2>2. listed \cap B = {s \in listed \cap Wanted : s < r}
    OBVIOUS
  <2> HIDE DEF B
  <2>3. Cardinality(RowsOf(read, B)) = Cardinality(listed \cap B)
    BY <2>1, RowsOnce
  <2>4. Cardinality(listed \cap B) \in Nat
    BY <2>1, Parts
  <2> QED
    BY <2>2, <2>3, <2>4 DEF Place, B
<1>4. ASSUME NEW r
      PROVE  r \in Window(read) <=> r \in Asked(listed \cap Wanted)
  <2>1. CASE r \in Wanted /\ r \in listed
    <3>1. read[r] = 1
      BY <1>1, <2>1
    <3>2. r \in Window(read) <=>
            /\ Cardinality(RowsOf(read, {s \in Wanted : s < r})) < skip + ReturnLimit
            /\ Cardinality(RowsOf(read, {s \in Wanted : s < r})) + 1 > skip
      BY <2>1, <3>1 DEF Window
    <3>3. r \in Asked(listed \cap Wanted) <=> Place(listed \cap Wanted, r) \in skip..(skip + ReturnLimit - 1)
      BY <2>1 DEF Asked
    <3>4. /\ Cardinality(RowsOf(read, {s \in Wanted : s < r})) = Place(listed \cap Wanted, r)
          /\ Place(listed \cap Wanted, r) \in Nat
      BY <1>3, <2>1
    <3> QED
      BY <1>2, <3>2, <3>3, <3>4
  <2>2. CASE r \notin Wanted
    BY <2>2 DEF Window, Asked
  <2>3. CASE r \in Wanted /\ r \notin listed
    <3>1. read[r] = 0
      BY <1>1, <2>3
    <3> QED
      BY <2>3, <3>1 DEF Window, Asked
  <2> QED
    BY <2>1, <2>2, <2>3
<1> QED
  BY <1>4

\* What was found is the window, or of a walk cut short the beginning of it.
Tiled(returned, short) ==
  LET window == Asked(listed \cap Wanted)
  IN  IF short THEN \A r \in returned : r \in window /\ \A s \in window : s < r => s \in returned
      ELSE returned = window

\* A window that meets its neighbours is what WindowsTile asks for.
LEMMA Tiles ==
  ASSUME scan' = scan, listed' = listed, skip' = skip,
         scan.tool # "scan" /\ Untouched' /\ answer' \in {"complete", "more"} => Tiled(found', cut')
  PROVE  WindowsTile'
<1>1. SUFFICES ASSUME scan.tool # "scan", Untouched', answer' \in {"complete", "more"}
               PROVE  WindowsTile'
  BY DEF WindowsTile, Untouched
<1>2. Tiled(found', cut')
  BY <1>1
<1> QED
  BY <1>2 DEF WindowsTile, Tiled, Asked, Place

\* What a window takes of the first matches comes before the rest it takes.
LEMMA AskedBeginning ==
  ASSUME LoopTypes, NEW k \in Nat, NEW short
  PROVE  /\ Tiled(Asked(MatchedOf(k)), TRUE)
         /\ First(listed, k) = listed => Asked(MatchedOf(k)) = Asked(listed \cap Wanted)
         /\ Asked(MatchedOf(k)) = Asked(listed \cap Wanted) => Tiled(Asked(MatchedOf(k)), short)
<1>1. /\ MatchedOf(k) \in SUBSET (listed \cap Wanted)
      /\ \A r \in MatchedOf(k), s \in listed \cap Wanted : s < r => s \in MatchedOf(k)
  BY MatchFacts
<1>2. Tiled(Asked(MatchedOf(k)), TRUE)
  BY <1>1 DEF Tiled, Asked
<1>3. First(listed, k) = listed => Asked(MatchedOf(k)) = Asked(listed \cap Wanted)
  BY DEF MatchedOf
<1>4. ASSUME Asked(MatchedOf(k)) = Asked(listed \cap Wanted)
      PROVE  Tiled(Asked(MatchedOf(k)), short)
  BY <1>2, <1>4 DEF Tiled
<1> QED
  BY <1>2, <1>3, <1>4

-----------------------------------------------------------------------------
(* The invariant of an untouched list.                                        *)

\* A loop that has read nothing has read the first 0 records.
LEMMA ExactInit == LoopInit => ExactInv
<1> SUFFICES ASSUME LoopInit PROVE ExactInv
  OBVIOUS
<1>1. LoopTypes
  BY TypesInit
<1>2. PageSize \in Nat \ {0, 1} /\ ReturnLimit \in Nat /\ skip \in Nat
  BY <1>1, PagingAssumption DEF LoopTypes
<1>3. SpentInv
  <2>1. spent = [rows |-> 0, requests |-> 0] \/ spent = [rows |-> PageSize - 1, requests |-> 1]
    BY DEF LoopInit, Unspent
  <2> QED
    BY <1>2, <2>1 DEF SpentInv
<1>4. CutInv
  BY DEF LoopInit, CutInv
<1>5. Numbers(listed) /\ Numbers(Listable)
  BY <1>1, ListFacts
<1>6. First(listed, 0) = {}
  <2>1. \A r \in listed : Place(listed, r) \in Nat
    BY <1>5, Places
  <2> QED
    BY <2>1 DEF First
<1>7. \A r \in Listable : got[r] = IF r \in First(listed, 0) THEN 1 ELSE 0
  BY <1>6 DEF LoopInit
<1>8. Read = 0
  BY <1>1, <1>7, UntouchedRead, Places, <1>5
<1>9. Offset = 0 /\ requests = 0 /\ requests * PageSize = 0
  BY <1>2, <1>8 DEF LoopInit, Offset, PageOffset
<1>10. MatchedOf(0) = {} /\ Asked({}) = {} /\ Cardinality(MatchedOf(0)) = 0
  BY <1>6, FS_EmptySet DEF MatchedOf, Asked
<1>11. UntouchedInv
  <2>1. found = {} /\ BudgetInv
    BY <1>8, <1>9 DEF LoopInit, BudgetInv
  <2>2. Cardinality(MatchedOf(Offset)) <= skip + ReturnLimit
    BY <1>2, <1>9, <1>10
  <2> QED
    BY <1>7, <1>8, <1>9, <1>10, <2>1, <2>2 DEF UntouchedInv
<1>12. RefusedForCause /\ WindowsTile
  BY DEF LoopInit, RefusedForCause, WindowsTile
<1> QED
  BY <1>1, <1>3, <1>4, <1>11, <1>12 DEF ExactInv

\* A loop that ends says how, and of an untouched list only with cause.
LEMMA Ending ==
  ASSUME ExactInv, UNCHANGED <<scan, spent, skip, listed>>, answer' # "none",
         cut' \/ answer' = "more" => scan.tool = "walk",
         Untouched' /\ answer' = "refused" => ~Fits(Cardinality(listed)),
         Untouched' /\ answer' = "more" => cut' \/ Cardinality(listed \cap Wanted) > skip + ReturnLimit,
         scan.tool # "scan" /\ Untouched' /\ answer' \in {"complete", "more"} => Tiled(found', cut')
  PROVE  SpentInv' /\ CutInv' /\ UntouchedInv' /\ RefusedForCause' /\ WindowsTile'
<1>1. SpentInv' /\ CutInv' /\ UntouchedInv'
  BY DEF ExactInv, SpentInv, CutInv, UntouchedInv
<1>2. RefusedForCause'
  BY DEF RefusedForCause, Untouched, Fits
<1> QED
  BY <1>1, <1>2, Tiles

\* A loop that goes on after a page.
LEMMA GoingOn ==
  ASSUME ExactInv, UNCHANGED <<scan, spent, skip, listed, cut>>, answer = "none", answer' = "none",
         ~Stops,
         Untouched' => /\ Untouched /\ More /\ scan.size # "whole"
                       /\ got' = With(Page) /\ requests' = OneMore(requests)
                       /\ scan.tool = "walk" =>
                            /\ found' = Asked(MatchedOf(Offset + Size))
                            /\ Cardinality(MatchedOf(Offset + Size)) <= skip + ReturnLimit
  PROVE  SpentInv' /\ CutInv' /\ UntouchedInv' /\ RefusedForCause' /\ WindowsTile'
<1>1. SpentInv' /\ CutInv' /\ RefusedForCause' /\ WindowsTile'
  BY DEF ExactInv, SpentInv, CutInv, RefusedForCause, WindowsTile
<1>2. SUFFICES ASSUME Untouched' PROVE UntouchedInv'
  BY <1>1 DEF UntouchedInv
<1>3. LoopTypes /\ UntouchedInv /\ WellFormed(scan)
  BY LoopFacts DEF ExactInv, LoopTypes
<1>4. /\ \A r \in Listable : got'[r] = IF r \in First(listed, Offset + Size) THEN 1 ELSE 0
      /\ Read + Cardinality(Page) =
           IF Offset + Size < Cardinality(listed) THEN Offset + Size ELSE Cardinality(listed)
      /\ Read' = Read + Cardinality(Page)
      /\ Offset' = Offset + Size
      /\ scan.size \in {"page", "budget"} /\ (scan.size = "page" => scan.advance = "page")
              => requests' = requests + 1
  BY <1>2, <1>3, UntouchedPage
<1>5. /\ Offset \in Nat /\ Size \in Nat \ {0} /\ Cardinality(listed) \in Nat /\ Read \in Nat
      /\ requests \in Nat /\ PageSize \in Nat \ {0, 1} /\ ScanLimit \in Nat
      /\ Cardinality(Page) = Size
      /\ Offset + Size < Cardinality(listed)
  BY <1>2, <1>3, ListFacts, SizeFacts, PageFacts, PagingAssumption DEF LoopTypes, More
<1>6. requests' > 0
  <2>1. MostRequests \in Nat /\ (MostRequests > 1 \/ Cardinality(Listable) = 0)
    BY <1>3, ListFacts, PagingAssumption DEF MostRequests
  <2>2. Cardinality(Listable) > 0
    BY <1>3, <1>5, ListFacts
  <2> QED
    BY <1>2, <1>5, <2>1, <2>2 DEF OneMore
<1>7. Offset' < Cardinality(listed')
  BY <1>4, <1>5
<1>8. BudgetInv'
  <2>1. SUFFICES ASSUME scan.size = "budget"
                 PROVE  \/ Read' = requests' * PageSize
                        \/ requests' > 0 /\ Left' = 0 /\ Read' >= (requests' - 1) * PageSize
    BY DEF BudgetInv
  <2>2. requests' = requests + 1 /\ Read' = Read + Size
    BY <1>4, <1>5, <2>1
  <2>3. Left # 0 /\ Left \in Nat /\ Size = Min({PageSize, Left - 1})
    <3>1. Size = BudgetPageSize
      BY <2>1 DEF Size
    <3> QED
      BY <1>3, <1>5, <3>1 DEF BudgetPageSize, Left, LoopTypes, Budget
  <2>4. Read = requests * PageSize
    BY <1>3, <2>1, <2>3, <1>2 DEF UntouchedInv, BudgetInv
  <2>5. (requests + 1) * PageSize = requests * PageSize + PageSize /\ requests * PageSize \in Nat
    BY <1>5, RowsOfPages
  <2>6. Size = IF PageSize <= Left - 1 THEN PageSize ELSE Left - 1
    <3>1. PageSize \in Int /\ Left - 1 \in Int
      BY <1>5, <2>3
    <3> QED
      BY <2>3, <3>1, Lesser
  <2>7. CASE PageSize <= Left - 1
    BY <1>5, <2>2, <2>4, <2>5, <2>6, <2>7
  <2>8. CASE ~(PageSize <= Left - 1)
    <3>1. Size = Left - 1
      BY <2>6, <2>8
    <3>2. spent.rows \in Nat /\ spent.requests \in Nat
      BY DEF ExactInv, SpentInv
    <3>3. Left = ScanLimit - (spent.rows + spent.requests + Read + requests)
      BY <1>5, <2>3, <3>2 DEF Left
    <3>4. spent.rows + spent.requests + Read' + requests' = ScanLimit
      BY <1>5, <2>2, <2>3, <3>1, <3>2, <3>3
    <3>5. Left' = 0
      BY <1>5, <3>4 DEF Left
    <3>6. Read' >= (requests' - 1) * PageSize
      <4>1. requests' - 1 = requests
        BY <1>5, <2>2
      <4> QED
        BY <1>5, <2>2, <2>4, <4>1
    <3> QED
      BY <1>6, <3>5, <3>6
  <2> QED
    BY <2>7, <2>8
<1>9. First(listed, Offset)' = First(listed, Offset + Size)
  BY <1>4 DEF First, Place
<1>10. MatchedOf(Offset)' = MatchedOf(Offset + Size)
  BY <1>9 DEF MatchedOf
<1>11. Asked(MatchedOf(Offset))' = Asked(MatchedOf(Offset + Size))
  BY <1>10 DEF Asked, Place
<1>12. \A r \in Listable : got'[r] = IF r \in First(listed, Offset)' THEN 1 ELSE 0
  BY <1>4, <1>9
<1>13. scan'.tool = "walk" =>
         /\ found' = Asked(MatchedOf(Offset))'
         /\ Cardinality(MatchedOf(Offset)') <= skip' + ReturnLimit
  BY <1>2, <1>10, <1>11
<1>14. requests' # 0
  BY <1>6
<1> QED
  BY <1>7, <1>8, <1>12, <1>13, <1>14 DEF UntouchedInv

\* A bound is reached for a cause.
LEMMA ExactGiveUp ==
  ASSUME ExactInv, GiveUp
  PROVE  SpentInv' /\ CutInv' /\ UntouchedInv' /\ RefusedForCause' /\ WindowsTile'
<1>1. /\ answer' = "refused" /\ unchangedList /\ UNCHANGED <<hollow, cut>>
  BY DEF GiveUp, Ends
<1>2. UNCHANGED <<scan, spent, skip, listed, changes>>
  BY <1>1 DEF unchangedList
<1>3. Untouched' => ~Fits(Cardinality(listed))
  BY <1>1, <1>2, GivesUpForCause DEF Untouched
<1>4. cut' => scan.tool = "walk"
  BY <1>1 DEF ExactInv, CutInv
<1> QED
  BY <1>1, <1>2, <1>3, <1>4, Ending

\* A failed request neither refuses nor returns anything.
LEMMA ExactReadFails ==
  ASSUME ExactInv, ReadFails
  PROVE  SpentInv' /\ CutInv' /\ UntouchedInv' /\ RefusedForCause' /\ WindowsTile'
<1>1. /\ answer' = "failed" /\ unchangedList /\ UNCHANGED <<hollow, cut>>
  BY DEF ReadFails, Ends
<1>2. UNCHANGED <<scan, spent, skip, listed>>
  BY <1>1 DEF unchangedList
<1>3. cut' => scan.tool = "walk"
  BY <1>1 DEF ExactInv, CutInv
<1> QED
  BY <1>1, <1>2, <1>3, Ending

\* A page of an untouched list reads the next records of it, once each.
LEMMA ExactReadPage ==
  ASSUME ExactInv, NEW lost \in BOOLEAN, ReadPage(lost)
  PROVE  SpentInv' /\ CutInv' /\ UntouchedInv' /\ RefusedForCause' /\ WindowsTile'
<1> DEFINE P == IF lost THEN {} ELSE Page
<1>1. /\ answer = "none" /\ scan.tool # "walk" /\ ~Stops /\ got' = With(P)
      /\ requests' = OneMore(requests) /\ hollow' = (hollow \/ lost)
      /\ unchangedList /\ UNCHANGED cut
  BY DEF ReadPage
<1>2. \/ answer' = "refused" /\ Refuses(P, More)
      \/ answer' = "complete" /\ found' = ToolReturns(got') /\ ~Refuses(P, More)
         /\ (~More \/ HollowEnd(P, More))
      \/ answer' = "none" /\ ~Refuses(P, More) /\ More
  BY <1>1 DEF ReadPage, Ends
<1>3. LoopTypes /\ UntouchedInv /\ WellFormed(scan)
  BY LoopFacts DEF ExactInv, LoopTypes
<1>4. UNCHANGED <<scan, spent, skip, listed, changes>>
  BY <1>1 DEF unchangedList
<1>5. Untouched' => Untouched /\ ~lost /\ P = Page
  BY <1>1, <1>4 DEF Untouched
<1>6. cut' => scan.tool = "walk"
  BY <1>1 DEF ExactInv, CutInv
<1>7. CASE answer' = "refused"
  <2>1. Untouched' => ~Fits(Cardinality(listed))
    BY <1>1, <1>2, <1>4, <1>5, <1>7, RefusesForCause
  <2> QED
    BY <1>4, <1>6, <1>7, <2>1, Ending
<1>8. CASE answer' = "complete"
  <2>1. ASSUME scan.tool # "scan", Untouched'
        PROVE  Tiled(found', cut')
    <3>1. P = Page /\ Untouched /\ (More => Page # {})
      BY <1>1, <1>3, <1>5, <2>1, PageFacts
    <3>2. ~More
      BY <1>2, <1>8, <3>1 DEF HollowEnd
    <3>3. /\ Offset + Size \in Nat /\ Offset + Size >= Cardinality(listed)
          /\ Numbers(listed)
      BY <1>1, <1>3, <3>2, ListFacts, SizeFacts DEF More
    <3>4. First(listed, Offset + Size) = listed
      BY <3>3, FirstCount
    <3>5. \A r \in Listable : got'[r] = IF r \in listed THEN 1 ELSE 0
      <4>1. \A r \in Listable : got'[r] = IF r \in First(listed, Offset + Size) THEN 1 ELSE 0
        BY <1>1, <1>3, <1>4, <3>1, UntouchedPage
      <4> QED
        BY <3>4, <4>1
    <3>6. found' = Asked(listed \cap Wanted)
      <4>1. found' = Window(got')
        BY <1>2, <1>8, <2>1 DEF ToolReturns
      <4> QED
        BY <1>3, <3>5, <4>1, WindowIs
    <3>7. cut' = FALSE
      BY <1>1, <1>3, <1>6 DEF LoopTypes
    <3> QED
      BY <3>6, <3>7 DEF Tiled
  <2> QED
    BY <1>4, <1>6, <1>8, <2>1, Ending
<1>9. CASE answer' = "none"
  <2>1. Untouched' => /\ Untouched /\ More /\ scan.size # "whole" /\ scan.tool # "walk"
                      /\ got' = With(Page) /\ requests' = OneMore(requests)
    BY <1>1, <1>2, <1>3, <1>5, <1>9 DEF Refuses, WellFormed
  <2> QED
    BY <1>1, <1>4, <1>9, <2>1, GoingOn
<1> QED
  BY <1>2, <1>7, <1>8, <1>9

\* The same of a page of the walk.
LEMMA ExactWalkPage ==
  ASSUME ExactInv, NEW lost \in BOOLEAN, NEW cutoff \in BOOLEAN, WalkPage(lost, cutoff)
  PROVE  SpentInv' /\ CutInv' /\ UntouchedInv' /\ RefusedForCause' /\ WindowsTile'
<1> DEFINE P == IF lost THEN {} ELSE Page
           k == Offset + Size
<1>1. /\ answer = "none" /\ scan.tool = "walk" /\ ~Stops /\ got' = With(Walked(P)) /\ found' = Taken(P)
      /\ requests' = OneMore(requests) /\ hollow' = (hollow \/ lost) /\ cut' = (cut \/ cutoff)
      /\ answer' = IF Overfull(P) THEN "more"
                   ELSE IF ~More THEN "complete"
                   ELSE IF cutoff THEN "more" ELSE "none"
      /\ unchangedList
  BY DEF WalkPage
<1>2. LoopTypes /\ UntouchedInv /\ WellFormed(scan) /\ scan.size = "page"
  BY <1>1, LoopFacts DEF ExactInv, LoopTypes, WellFormed
<1>3. UNCHANGED <<scan, spent, skip, listed, changes>>
  BY <1>1 DEF unchangedList
<1>4. Untouched' => Untouched /\ ~lost /\ P = Page
  BY <1>1, <1>3 DEF Untouched
<1>5. k \in Nat /\ Numbers(listed)
  BY <1>1, <1>2, ListFacts, SizeFacts
<1>6. Untouched' =>
        /\ found' = Asked(MatchedOf(k))
        /\ Overfull(P) <=> Cardinality(MatchedOf(k)) > skip + ReturnLimit
        /\ Overfull(P) => /\ Asked(MatchedOf(k)) = Asked(listed \cap Wanted)
                          /\ Cardinality(listed \cap Wanted) > skip + ReturnLimit
  BY <1>1, <1>4, WalkFinds
<1>7. CASE answer' # "none"
  <2>1. Untouched' /\ answer' = "more" => cut' \/ Cardinality(listed \cap Wanted) > skip + ReturnLimit
    BY <1>1, <1>6
  <2>2. answer' # "refused"
    BY <1>1
  <2>3. ASSUME Untouched'
        PROVE  Tiled(found', cut')
    <3>1. CASE Overfull(P)
      BY <1>2, <1>5, <1>6, <2>3, <3>1, AskedBeginning
    <3>2. CASE ~Overfull(P) /\ ~More
      <4>1. k >= Cardinality(listed)
        BY <1>2, <1>5, <3>2, ListFacts DEF More
      <4>2. First(listed, k) = listed
        BY <1>5, <4>1, FirstCount
      <4>3. Asked(MatchedOf(k)) = Asked(listed \cap Wanted)
        BY <1>2, <1>5, <4>2, AskedBeginning
      <4> QED
        BY <1>2, <1>5, <1>6, <2>3, <4>3, AskedBeginning
    <3>3. CASE ~Overfull(P) /\ More
      <4>1. cut' = TRUE
        BY <1>1, <1>7, <3>3
      <4> QED
        BY <1>2, <1>5, <1>6, <2>3, <4>1, AskedBeginning
    <3> QED
      BY <3>1, <3>2, <3>3
  <2> QED
    BY <1>1, <1>3, <1>7, <2>1, <2>2, <2>3, Ending
<1>8. CASE answer' = "none"
  <2>1. ~Overfull(P) /\ More /\ ~cutoff
    BY <1>1, <1>8
  <2>2. cut' = cut
    BY <1>1, <1>2, <2>1 DEF LoopTypes
  <2>3. ASSUME Untouched'
        PROVE  /\ Untouched /\ More /\ scan.size # "whole"
               /\ got' = With(Page) /\ requests' = OneMore(requests)
               /\ found' = Asked(MatchedOf(k)) /\ Cardinality(MatchedOf(k)) <= skip + ReturnLimit
    <3>1. P = Page /\ Untouched
      BY <1>4, <2>3
    <3>2. IsFiniteSet(Page)
      BY <1>1, <1>2, PageFacts
    <3>3. Walked(Page) = Page
      BY <1>2, <2>1, <3>1, <3>2, WalkedAll
    <3>4. Cardinality(MatchedOf(k)) \in Nat /\ skip \in Nat /\ ReturnLimit \in Nat
      BY <1>2, <1>5, MatchFacts, PagingAssumption DEF LoopTypes
    <3> QED
      BY <1>1, <1>2, <1>6, <2>1, <2>3, <3>1, <3>3, <3>4
  <2> QED
    BY <1>1, <1>3, <1>8, <2>2, <2>3, GoingOn
<1> QED
  BY <1>7, <1>8

\* A walk that stops short has returned a beginning of its window.
LEMMA ExactWalkStops ==
  ASSUME ExactInv, WalkStops
  PROVE  SpentInv' /\ CutInv' /\ UntouchedInv' /\ RefusedForCause' /\ WindowsTile'
<1>1. /\ answer = "none" /\ scan.tool = "walk" /\ answer' = "more" /\ cut' = TRUE /\ unchangedList
      /\ UNCHANGED <<found, hollow>>
  BY DEF WalkStops
<1>2. LoopTypes /\ UntouchedInv /\ Offset \in Nat
  BY ListFacts DEF ExactInv
<1>3. UNCHANGED <<scan, spent, skip, listed, changes>>
  BY <1>1 DEF unchangedList
<1>4. Untouched' => found' = Asked(MatchedOf(Offset))
  BY <1>1, <1>2, <1>3 DEF UntouchedInv, Untouched
<1>5. Untouched' => Tiled(found', cut')
  BY <1>1, <1>2, <1>4, AskedBeginning
<1> QED
  BY <1>1, <1>3, <1>5, Ending

\* Of a list that was touched nothing is claimed.
LEMMA ExactTouched ==
  ASSUME ExactInv, NEW r \in Listable, Leaves(r) \/ Comes(r)
  PROVE  SpentInv' /\ CutInv' /\ UntouchedInv' /\ RefusedForCause' /\ WindowsTile'
<1>1. changes' = changes + 1 /\ UNCHANGED <<scan, spent, answer, cut>>
  BY DEF Leaves, Comes
<1>2. changes' # 0
  BY <1>1, PagingAssumption DEF ExactInv, LoopTypes
<1> QED
  BY <1>1, <1>2 DEF ExactInv, SpentInv, CutInv, UntouchedInv, Untouched, RefusedForCause, WindowsTile

\* Every step keeps what is known of an untouched list.
LEMMA ExactNext == ExactInv /\ [LoopNext]_loopVars => ExactInv'
<1> SUFFICES ASSUME ExactInv, [LoopNext]_loopVars PROVE ExactInv'
  OBVIOUS
<1>1. LoopTypes'
  BY TypesNext DEF ExactInv
<1>2. ASSUME UNCHANGED loopVars
      PROVE  SpentInv' /\ CutInv' /\ UntouchedInv' /\ RefusedForCause' /\ WindowsTile'
  <2>1. SpentInv' /\ CutInv' /\ RefusedForCause' /\ WindowsTile'
    BY <1>2 DEF loopVars, ExactInv, SpentInv, CutInv, RefusedForCause, Fits, WindowsTile
  <2>2. UntouchedInv'
    BY <1>2 DEF loopVars, ExactInv, UntouchedInv, Untouched, BudgetInv, MatchedOf, Asked, First, Place,
                Offset, PageOffset, Read, Left
  <2> QED
    BY <2>1, <2>2
<1>3. SpentInv' /\ CutInv' /\ UntouchedInv' /\ RefusedForCause' /\ WindowsTile'
  BY <1>2, ExactGiveUp, ExactReadFails, ExactReadPage, ExactWalkPage, ExactWalkStops, ExactTouched
     DEF LoopNext, Turn
<1> QED
  BY <1>1, <1>3 DEF ExactInv

-----------------------------------------------------------------------------
(* The theorems.                                                              *)

\* Whatever comes and goes, a loop that calls its reading complete has read what stayed,
\* save what slid past the offset and what a page without rows kept back that claimed more;
\* the loops that refuse such a page have none of the latter.  Nothing of it was read
\* twice, save what was pushed back over the offset.
THEOREM NothingSkipped == LoopSpec => []ReadsWhatStayed
<1>1. LoopInit => PagesInv
  BY TypesInit, PlacesInit DEF PagesInv
<1>2. PagesInv /\ [LoopNext]_loopVars => PagesInv'
  BY TypesNext, PlacesNext DEF PagesInv
<1>3. PagesInv => ReadsWhatStayed
  BY DEF PagesInv
<1> QED
  BY <1>1, <1>2, <1>3, PTL DEF LoopSpec

\* An untouched list within the bounds is not refused.
THEOREM NoNeedlessRefusal == LoopSpec => []RefusedForCause
<1>1. ExactInv => RefusedForCause
  BY DEF ExactInv
<1> QED
  BY <1>1, ExactInit, ExactNext, PTL DEF LoopSpec

\* The windows of an untouched list tile it.
THEOREM WindowsAreExact == LoopSpec => []WindowsTile
<1>1. ExactInv => WindowsTile
  BY DEF ExactInv
<1> QED
  BY <1>1, ExactInit, ExactNext, PTL DEF LoopSpec

=============================================================================
