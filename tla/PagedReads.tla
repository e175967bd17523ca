------------------------------- MODULE PagedReads -------------------------------
(***************************************************************************)
(* The loops of internal/tools that read a list of InvenTree page by page     *)
(* (ListAll of internal/inventree/pagination.go, the duplicate and reference   *)
(* scans before a write, the bounded lists of the lookup tools, and the walk   *)
(* through the barcode history), while records come into the list and leave.   *)
(*                                                                          *)
(* A page is asked for by offset and limit, and the list has no version: what  *)
(* stands before the offset is what the loop takes itself to have read.  The    *)
(* loops differ in how they move on, what they check before a request and after *)
(* an answer, and what they make of a page without rows that claims more.       *)
(*                                                                          *)
(* LoopsProofs extends this module and BatchExecute, so no definition here has a *)
(* name of that module.                                                         *)
(***************************************************************************)
EXTENDS Naturals, FiniteSets, FiniteSetsExt

CONSTANTS
  Listable,     \* what may be in the list, as numbers in its order
  Wanted,       \* the records a filter of the tool lets through
  PageSize,     \* rows asked for with a request: 100
  ScanLimit,    \* rows a bounded loop reads: 1000
  MaxRequests,  \* requests a loop that counts them makes: 11 or 20
  WalkDepth,    \* pages the walk through the history reads: 50, or as configured
  ReturnLimit,  \* records a tool returns of what its loop read
  MaxChanges    \* bound of the model: records that come and go

\* The bound of a loop is a number of whole pages, and a page is more than a row.
ASSUME PagingAssumption ==
  /\ Listable \subseteq Nat /\ IsFiniteSet(Listable) /\ Wanted \subseteq Listable
  /\ {ScanLimit, MaxRequests, WalkDepth} \subseteq Nat \ {0} /\ PageSize \in Nat \ {0, 1}
  /\ {ReturnLimit, MaxChanges} \subseteq Nat
  /\ ScanLimit % PageSize = 0

VARIABLES
  scan,      \* the loop
  spent,     \* rows and requests an earlier loop took out of the same budget
  skip,      \* the offset the caller of the tool asked for
  listed,    \* the records in InvenTree's list
  requests,  \* pages read
  got,       \* how often each record was read
  found,     \* what the tool returns
  answer,
  changes,   \* history: records that came or went
  hollow,    \* history: a page without rows claimed more
  withheld,  \* history: records such pages kept back
  cut,       \* history: a walk ended on its depth, its bytes or its time
  slid,      \* history: records that moved from the offset to before it
  pushed,    \* history: records that moved from before the offset to it
  steady     \* history: the records in the list from the start to now

loopVars == <<scan, spent, skip, listed, requests, got, found, answer, changes, hollow, withheld,
              cut, slid, pushed, steady>>

-----------------------------------------------------------------------------
(* The loops.  `before`: what is checked before a request is sent; `after`:    *)
(* what of an answer makes the loop give up.                                   *)

Loop == [advance : {"page", "rows"}, size : {"page", "whole", "rest", "budget"},
         before : SUBSET {"offset", "requests", "rows", "budget"},
         after : SUBSET {"count", "first count", "rows", "budget", "more", "tally"},
         hollow : {"ignored", "end", "refused"}, tool : {"scan", "window", "walk"}]

\* By pages of a fixed size, and by the rows that came.
Pages == [advance |-> "page", size |-> "page", before |-> {}, after |-> {},
          hollow |-> "ignored", tool |-> "scan"]
Rows == [Pages EXCEPT !.advance = "rows"]

\* The Next link is followed to the end; the limit of the query sizes the pages only.
ListAll == Pages

categoryDuplicates == [Pages EXCEPT !.before = {"offset"}, !.after = {"count"}]
stockLocationTypeReferences == categoryDuplicates
stockLocationTypeDuplicates == categoryDuplicates
stockLocationDuplicates == [Pages EXCEPT !.before = {"offset"}]
noteSiblings == [Pages EXCEPT !.before = {"offset"}, !.hollow = "refused"]

\* What a deletion takes along must add up to the count InvenTree gives.
validateCategoryDeletePage == {"count", "tally"}
scanStockLocationDeletePages ==
  [Pages EXCEPT !.before = {"offset"}, !.after = validateCategoryDeletePage, !.hollow = "refused"]
categoryDeleteDirectPartIDs == scanStockLocationDeletePages
categoryDeleteChildCategoryIDs == scanStockLocationDeletePages
categoryDeleteParameterTemplateLinkIDs == scanStockLocationDeletePages
categoryDeleteParameterValueIDs == scanStockLocationDeletePages

scanCategoryDefaults ==
  [Pages EXCEPT !.before = {"requests"}, !.after = {"rows"}, !.hollow = "refused"]
categoryDefaultPage == [scanCategoryDefaults EXCEPT !.tool = "window"]

\* One page of a thousand, which must be all.
supplierDuplicates == [Pages EXCEPT !.size = "whole", !.after = {"more"}]
hasManufacturerLinks == supplierDuplicates

loadPartRelationsForPart ==
  [Pages EXCEPT !.before = {"requests", "rows"}, !.after = {"rows"}, !.tool = "window"]
loadStockTrackingEntries == loadPartRelationsForPart
loadPartStocktakes == loadPartRelationsForPart
findPartRelationPair == [loadPartRelationsForPart EXCEPT !.tool = "scan"]
loadInternalPriceBreaks == [Pages EXCEPT !.before = {"requests", "rows"}, !.tool = "window"]
loadSalePriceBreaks == loadInternalPriceBreaks
loadSupplierPriceBreaks == loadInternalPriceBreaks

scanTemplateParameters == [Rows EXCEPT !.before = {"offset"}, !.hollow = "end"]
sourceCategoryLinks == scanTemplateParameters
objectParameterUniquenessConflict == [scanTemplateParameters EXCEPT !.after = {"count"}]
searchObjectParameterValues == [scanTemplateParameters EXCEPT !.size = "rest", !.tool = "window"]
searchPartParameterValues == searchObjectParameterValues

scanPurchaseOrderExtraLines ==
  [Rows EXCEPT !.before = {"offset"}, !.after = {"first count"}, !.hollow = "refused"]
findExtraLinesByReference == scanPurchaseOrderExtraLines

\* The loops of an audit share a budget of rows and requests.
auditTemplates ==
  [Rows EXCEPT !.size = "budget", !.before = {"budget"}, !.after = {"budget"}, !.hollow = "refused"]
scanAuditCategoryParts == auditTemplates
scanPartParameterRows == auditTemplates
scanTemplateParameterRows == auditTemplates
scanCategoryParameterLinks == auditTemplates

walkBarcodeScanHistory == [Pages EXCEPT !.before = {"requests"}, !.tool = "walk"]

Loops ==
  {ListAll, categoryDuplicates, stockLocationDuplicates, noteSiblings,
   scanStockLocationDeletePages, scanCategoryDefaults, categoryDefaultPage, supplierDuplicates,
   loadPartRelationsForPart, findPartRelationPair, loadInternalPriceBreaks,
   scanTemplateParameters, objectParameterUniquenessConflict, searchObjectParameterValues,
   scanPurchaseOrderExtraLines, auditTemplates, walkBarcodeScanHistory}

\* Loops that go on with what another loop left of a budget.
Sharing == {findPartRelationPair, auditTemplates}
Budget == [rows : 0..ScanLimit, requests : 0..MaxRequests]
Unspent == [rows |-> 0, requests |-> 0]

LoopTypes ==
  /\ scan \in Loops /\ Loops \subseteq Loop /\ spent \in Budget /\ skip \in Nat
  /\ listed \subseteq Listable
  /\ requests \in Nat /\ DOMAIN got = Listable /\ \A r \in Listable : got[r] \in Nat
  /\ found \subseteq Listable
  /\ answer \in {"none", "complete", "more", "refused", "failed"}
  /\ changes \in 0..MaxChanges /\ {hollow, cut} \subseteq BOOLEAN
  /\ withheld \subseteq Listable
  /\ slid \subseteq Listable /\ pushed \subseteq Listable /\ steady \subseteq listed

-----------------------------------------------------------------------------
(* The list, and where a loop is in it.                                       *)

Rank(r) == Cardinality({s \in listed : s < r})

\* The rows read of some records, one for each time a record was read.
RowsOf(read, S) == UNION {{r} \X (1..read[r]) : r \in S}
Read == Cardinality(RowsOf(got, Listable))

\* Where the next page starts, by pages.
SkipsOne(pages) == pages * PageSize + 1
PageOffset(pages) == pages * PageSize
Offset == IF scan.advance = "page" THEN PageOffset(requests) ELSE Read

\* What is left of a budget of rows and requests (parameterScanBudget).
Left ==
  LET used == spent.rows + spent.requests + Read + requests
  IN  IF used < ScanLimit THEN ScanLimit - used ELSE 0

\* The rows a request may return, itself being one unit.
BudgetPageSize == IF Left = 0 THEN 0 ELSE Min({PageSize, Left - 1})
Size ==
  CASE scan.size = "page" -> PageSize
    [] scan.size = "whole" -> ScanLimit
    [] scan.size = "rest" -> Min({PageSize, ScanLimit - Offset})
    [] scan.size = "budget" -> BudgetPageSize

\* A page of the list, and whether InvenTree links to another one.
Page == {r \in listed : Rank(r) \in Offset..(Offset + Size - 1)}
More == Offset + Size < Cardinality(listed)

-----------------------------------------------------------------------------
(* A turn of a loop.  A faulty variant stands before the operator it varies.   *)

RowsBefore == spent.rows + Read
Depth == IF scan.tool = "walk" THEN WalkDepth ELSE MaxRequests
RequestsUsedUp == "requests" \in scan.before /\ spent.requests + requests >= Depth

\* The loop has come to a bound before its next request.
StopsOneEarly ==
  \/ "offset" \in scan.before /\ Offset + PageSize >= ScanLimit
  \/ RequestsUsedUp
  \/ "rows" \in scan.before /\ RowsBefore >= ScanLimit
  \/ "budget" \in scan.before /\ Size = 0
Stops ==
  \/ "offset" \in scan.before /\ Offset >= ScanLimit
  \/ RequestsUsedUp
  \/ "rows" \in scan.before /\ RowsBefore >= ScanLimit
  \/ "budget" \in scan.before /\ Size = 0

\* A page without rows that claims more is the end, or no proof of one.
TakesHollowForRows(page, more) == FALSE
HollowEnd(page, more) == page = {} /\ scan.hollow = "end"

\* What a page keeps back that comes without its rows: these, and everything behind
\* them from a loop that ends with it.
Missing(lost) ==
  {r \in listed : lost /\ Rank(r) >= Offset /\ (scan.hollow = "end" \/ Rank(r) < Offset + Size)}

\* The answer is refused: too much, not what was counted, or no progress.
Refuses(page, more) ==
  LET count == Cardinality(listed)
      rows == Read + Cardinality(page)
  IN  \/ "count" \in scan.after /\ count > ScanLimit
      \/ "first count" \in scan.after /\ requests = 0 /\ count > ScanLimit
      \/ "rows" \in scan.after /\ spent.rows + rows > ScanLimit
      \/ "budget" \in scan.after /\ Cardinality(page) + 1 > Left
      \/ "more" \in scan.after /\ more
      \/ "tally" \in scan.after /\ (rows > count \/ (~more /\ rows # count))
      \/ scan.hollow = "refused" /\ page = {} /\ more

\* What the tool returns of what was read in order: the records from `skip` on, at
\* most ReturnLimit of them; a scan returns all.
OffByOne(read) ==
  LET before(r) == Cardinality(RowsOf(read, {s \in Wanted : s < r}))
  IN  {r \in Wanted : read[r] > 0 /\ before(r) <= skip + ReturnLimit /\ before(r) + read[r] > skip}
Window(read) ==
  LET before(r) == Cardinality(RowsOf(read, {s \in Wanted : s < r}))
  IN  {r \in Wanted : read[r] > 0 /\ before(r) < skip + ReturnLimit /\ before(r) + read[r] > skip}
ToolReturns(read) ==
  IF scan.tool = "scan" THEN {r \in Listable : read[r] > 0} ELSE Window(read)

\* Counted as far as a list of the model can go; a loop that asks for ever stays
\* between the last two numbers.
MostRequests == MaxRequests + Cardinality(Listable)
OneMore(n) == IF n = MostRequests THEN n - 1 ELSE n + 1
With(page) == [r \in Listable |-> got[r] + IF r \in page THEN 1 ELSE 0]
Ends(a, read) ==
  /\ answer' = a
  /\ found' = IF a = "complete" THEN ToolReturns(read) ELSE {}

LoopInit ==
  /\ scan \in Loops
  /\ spent \in IF scan \in Sharing THEN {Unspent, [rows |-> PageSize - 1, requests |-> 1]} ELSE {Unspent}
  /\ skip \in IF scan.tool = "scan" THEN {0} ELSE 0..2
  /\ listed \in SUBSET Listable /\ steady = listed
  /\ requests = 0 /\ got = [r \in Listable |-> 0]
  /\ found = {} /\ answer = "none"
  /\ changes = 0 /\ hollow = FALSE /\ withheld = {} /\ cut = FALSE /\ slid = {} /\ pushed = {}

unchangedList == UNCHANGED <<scan, spent, skip, listed, changes, slid, pushed, steady>>

\* A bound is reached: the scan is refused.
GiveUp ==
  /\ answer = "none" /\ scan.tool # "walk" /\ Stops
  /\ Ends("refused", got)
  /\ unchangedList /\ UNCHANGED <<requests, got, hollow, withheld, cut>>

\* A page is read; `lost` when the page comes without the rows it should have.
ReadPage(lost) ==
  LET page == IF lost THEN {} ELSE Page
  IN  /\ answer = "none" /\ scan.tool # "walk" /\ ~Stops
      /\ lost => More
      /\ got' = With(page)
      /\ requests' = OneMore(requests)
      /\ hollow' = (hollow \/ lost) /\ withheld' = withheld \cup Missing(lost)
      /\ IF Refuses(page, More) THEN Ends("refused", got')
         ELSE IF ~More \/ HollowEnd(page, More) THEN Ends("complete", got')
         ELSE UNCHANGED <<answer, found>>
      /\ unchangedList /\ UNCHANGED cut

\* The request, or the decoding of its answer, fails.
ReadFails ==
  /\ answer = "none"
  /\ Ends("failed", got)
  /\ unchangedList /\ UNCHANGED <<requests, got, hollow, withheld, cut>>

-----------------------------------------------------------------------------
(* The walk through the barcode history: rows are filtered here, the first      *)
(* `skip` that match are passed over, and the walk ends with the row that would *)
(* be one too many.                                                            *)

Matched == Cardinality(RowsOf(got, Wanted))

\* The rows of a page up to the match there is no room for.
Walked(page) ==
  LET seen(r) == Matched + Cardinality({s \in page \cap Wanted : s < r})
  IN  {r \in page : seen(r) <= skip + ReturnLimit}

Taken(page) ==
  LET seen(r) == Matched + Cardinality({s \in page \cap Wanted : s < r})
  IN  found \cup {r \in page \cap Wanted : seen(r) \in skip..(skip + ReturnLimit - 1)}

\* One match more than the tool returns.
Overfull(page) ==
  Matched + Cardinality(page \cap Wanted) > skip + ReturnLimit

\* A page; `cutoff` when its bytes are over the budget.
WalkPage(lost, cutoff) ==
  LET page == IF lost THEN {} ELSE Page
  IN  /\ answer = "none" /\ scan.tool = "walk" /\ ~Stops
      /\ lost => More
      /\ got' = With(Walked(page))
      /\ found' = Taken(page)
      /\ requests' = OneMore(requests)
      /\ hollow' = (hollow \/ lost) /\ withheld' = withheld \cup Missing(lost)
      /\ cut' = (cut \/ cutoff)
      /\ answer' = IF Overfull(page) THEN "more"
                   ELSE IF ~More THEN "complete"
                   ELSE IF cutoff THEN "more" ELSE "none"
      /\ unchangedList

\* The walk ends at its depth with more behind it, or it is out of time.
WalkStops ==
  /\ answer = "none" /\ scan.tool = "walk"
  /\ answer' = "more"
  /\ cut' = TRUE
  /\ unchangedList /\ UNCHANGED <<requests, got, found, hollow, withheld>>

-----------------------------------------------------------------------------
(* Other users.                                                               *)

Leaves(r) ==
  /\ answer = "none" /\ changes < MaxChanges
  /\ r \in listed
  /\ listed' = listed \ {r}
  /\ steady' = steady \ {r}
  /\ slid' = slid \cup {s \in listed : Rank(r) < Offset /\ Rank(s) = Offset}
  /\ changes' = changes + 1
  /\ UNCHANGED <<scan, spent, skip, requests, got, found, answer, hollow, withheld, cut, pushed>>

Comes(r) ==
  /\ answer = "none" /\ changes < MaxChanges
  /\ r \notin listed
  /\ listed' = listed \cup {r}
  /\ pushed' = pushed \cup {s \in listed : Rank(r) < Offset /\ Rank(s) = Offset - 1}
  /\ changes' = changes + 1
  /\ UNCHANGED <<scan, spent, skip, requests, got, found, answer, hollow, withheld, cut, slid,
                 steady>>

Turn ==
  \/ GiveUp \/ \E lost \in BOOLEAN : ReadPage(lost)
  \/ ReadFails
  \/ \E lost, cutoff \in BOOLEAN : WalkPage(lost, cutoff)
  \/ WalkStops
LoopNext == Turn \/ \E r \in Listable : Leaves(r) \/ Comes(r)

LoopSpec == LoopInit /\ [][LoopNext]_loopVars /\ WF_loopVars(Turn)

-----------------------------------------------------------------------------
(* Properties.                                                                *)

\* What a loop calls complete is all that was in the list throughout, but for two
\* kinds of record: those a removal moved from the offset to before it (offset paging
\* without a version), and those a page without rows kept back that claimed more.  Of
\* the latter there are none for the loops that refuse such a page: noteSiblings, the
\* scans before a category or a stock location is deleted, scanCategoryDefaults and
\* categoryDefaultPage, the extra lines and the audits.  The other loops that read more
\* than one page have them: objectParameterUniquenessConflict, scanTemplateParameters,
\* sourceCategoryLinks and the parameter searches end with it; ListAll, the duplicate
\* scans, stockLocationTypeReferences, findPartRelationPair, the other windows and the
\* walk read on behind it.
\* No record is read twice, save those an insertion moved back (a record that left and
\* came again may be).
ReadsWhatStayed ==
  answer = "complete" =>
    /\ scan.hollow = "refused" => withheld = {}
    /\ \A r \in steady : got[r] = 0 => r \in slid \cup withheld
    /\ \A r \in steady : got[r] > 1 => r \in pushed

\* "Failing closed so an incomplete scan can never silently approve a value"
\* (object_parameter_tools.go:492), "... can never understate the impact of deleting the
\* type" (stock_location_type_admin_tools.go:351): what these two loops call complete
\* is all of a list that nobody touched.
FailsClosed ==
  scan \in {objectParameterUniquenessConflict, stockLocationTypeReferences} =>
    (answer = "complete" /\ changes = 0 => \A r \in listed : got[r] > 0)

\* The rows and requests a loop may use for a list of n records.
Fits(n) ==
  LET pages == IF n = 0 THEN 1 ELSE (n + PageSize - 1) \div PageSize
      asked == spent.requests + pages
      rows == spent.rows + n
  IN  /\ rows <= ScanLimit
      /\ "requests" \in scan.before => asked <= MaxRequests
      /\ "budget" \in scan.before => rows + asked <= ScanLimit

\* A list within the bound that nobody touches is not refused, and a walk that says
\* there is more stopped early or has seen a match it had no room for.
RefusedForCause ==
  changes = 0 /\ ~hollow =>
    /\ answer = "refused" => ~Fits(Cardinality(listed))
    /\ answer = "more" => cut \/ Cardinality(listed \cap Wanted) > skip + ReturnLimit

\* Asked for window after window of a list that nobody touches, a tool returns every
\* record that matches, once: the window of each call is the one the caller counts on
\* (listStockTrackingEntries, searchObjectParameterValues, walkBarcodeScanHistory).
WindowsTile ==
  scan.tool # "scan" /\ changes = 0 /\ ~hollow /\ answer \in {"complete", "more"} =>
    LET place(r) == Cardinality({s \in listed \cap Wanted : s < r})
        window == {r \in listed \cap Wanted : place(r) \in skip..(skip + ReturnLimit - 1)}
    IN  IF cut THEN \A r \in found : r \in window /\ \A s \in window : s < r => s \in found
        ELSE found = window

\* A loop ends, whatever pages it is given.
ScanReturns == <>(answer # "none")
=============================================================================
