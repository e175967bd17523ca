# A TLA+ model of inventree-mcp

`inventree-mcp` is an MCP server in Go that lets an assistant work on an
InvenTree inventory.  It keeps little state of its own and changes a system it
does not control: everything it knows about InvenTree is a read that may be
stale, everything it does is a request whose answer may be lost.  What makes it
correct is therefore protocol: a dry run and a confirmation tied together by a
single-use token, reads before and after a write, honest classification of
errors, and the OAuth, update and service machinery around it.  These modules
model that protocol.

Modules are written from `src/internal` and `src/cmd`; `PROJECT.json` maps each
definition to the lines it stands for.  Definitions keep the source's names
where they can.

## Inventory

| component | state it keeps | operations | hard part |
|---|---|---|---|
| confirmation plan store (`internal/batch/store.go`) | map token → plan (principal, operation, digest, expiry) under a mutex | Issue, Consume | clock read before the lock; single use; superseding; two limits |
| bulk engine (`internal/batch/execute.go`), progress (`tools/bulk_progress.go`), catalog adapters (`tools/catalog_bulk_tools.go`) | results by index, atomic counter, throttle time | Execute, runOne, report; Preflight, Mutate, Verify of an item | bounded concurrency, cancellation, lost answers, the last report |
| stocktake generation (`tools/stocktake_generation_tools.go`) | plan tokens, task handles, reservations | generate, poll; reserve, bind, release | an accepted task cannot be called back |
| stock adjustment (`tools/stock_adjustment_tools.go`) | plan tokens | count, add, remove | relative changes over a stale read; ambiguous errors |
| purchase-order lifecycle (`tools/purchase_order_lifecycle_tools.go`) | plan tokens | hold, resume, cancel | receipts and status changes by other users between read and request |
| purchase-order receipt (`receivePurchaseOrderItems` in `tools/purchasing_tools.go`) | none: the plan hash is a digest | dry run, receive, complete | a plan that can be confirmed again; lines others change |
| write tools (`tools/*_tools.go`: catalog, deletes, purchasing, administration, stock, assignments, pricing, parameters, attachments, notes, bulk) | some keep plan tokens or content hashes | read, plan, confirm, request, read back | find-or-create races, several requests per call, drift |
| workflow tools (`upsertPartWorkflow`, `createPurchaseOrderWithLines`), fixtures (`testenv/shared.go`) | none | look up, create, stop at the first failure | half a workflow done; calling again |
| paged reads (`inventree/pagination.go`, the scans and lookups of `tools`) | what a loop has read so far | page by offset | a list without a version that changes under the loop |
| OAuth authorization endpoint (`oauth/authorization_server.go`, `code_store.go`, `inventree_credentials.go`) | setup-ID store, code store, sealed pages at the browser | begin, complete, render | resubmitted pages, failing upstream calls, restart |
| OAuth token endpoint (`oauth/service.go`, `types.go`, `private_key_jwt.go`) | code store, assertion replay store, sealed tokens at the client | code exchange, refresh | replay, concurrency, session bound over a chain of refreshes |
| rate limiter (`oauth/authorization_server.go`) | table key → window, count | Allow | fixed windows, a full table |
| bootstrap endpoint, envelopes and key ring (`oauth/bootstrap.go`, `envelope.go`, `keyring_config.go`) | key ring, sealed tokens at the client | make a token, seal, verify, rotate keys over a restart | attempts whose answers are lost or late |
| client metadata, scope guard (`oauth/*`, `tools/auth_guard.go`) | none | | fail closed |
| service (`cmd/inventree-mcp/main.go`, `server/server.go`, `systemdnotify/notify.go`) | listener, goroutines, error channel, contexts | serve over HTTP or stdio, watchdog, shutdown | every way out has to stop and announce |
| self-update (`internal/selfupdate`) | the directory of the executable: record, artifacts, lock | resolve, download, verify, unpack; install, rollback, cleanup, recover | a release replaced between two downloads; kill and power loss between any two steps |
| upload sources (`internal/upload`) | one reading goroutine a call | inline, local file, URL | names and links that change between check and use; readers that never end |
| test environment (`testenv/testenv.go`) | network, containers, log goroutines | Start, Close | failure halfway, callbacks into a finished test |
| InvenTree client (`internal/inventree`), web links, rendering, configuration, telemetry, schema | none that outlives a call | | |

How they interact.  A tool handler runs in a goroutine of the MCP server; it
asks the OAuth layer (or the configuration) for a credential, reads InvenTree
through the client, and shares with other handlers only the in-memory stores
of its tool family.  Bulk handlers call the plan store, then the engine, which
calls the adapter once per item and the progress reporter after each.  The
authorization endpoint puts codes where the token endpoint takes them.  The
service's main goroutine owns the HTTP server, the watchdog and their contexts.
The updater is another process that meets the service only in the file system.

What each must guarantee is stated below with its module; the hazards the
statements answer, each with the line where it bites, are `hazards` in
`PROJECT.json`.

## The modules

### The plan store: `PlanStore`, `ConfirmationTokens`, `PlanStoreProofs`

`entries` is `Store.entries`; `calls` holds the calls between the reading of
the clock (before the mutex in `Issue` and `Consume`) and their critical
section, with what they read; `clock` is `Options.Clock`; `minted` is what the
ID generator has returned.  `StartIssue`/`FinishIssue` and
`StartConsume`/`FinishConsume` are the two halves of the two methods, `Tick`
is time.  `latest` and `accepted` are history.  `ConfirmationTokens` is the abstract
promise: a token is unused, then outstanding for exactly one principal,
operation and digest, and then accepted once or void for ever.
`tokenState` maps the store to it.

Properties checked: `OnlyLatestOutstanding` (a new dry run supersedes the older
plan), `WithinCapacity`, `NoPlanLost` (a plan leaves by expiry, acceptance or
replacement only), the type invariant `TypeOK` and `ImplementsTokens`, which carries `SingleUse` and
`AcceptedAsReviewed`; those two are also stated on the store and proved there.

Run `plan_store`: two callers, two principals, two operations, two digests,
three tokens, a clock of three instants and plans that live one, both limits
two.  A third plan of one principal meets the principal's limit, and a third of
two principals the store's.  Two callers suffice for every race the mutex
leaves, because a critical section involves one call and the state left by the
others.

### The bulk engine: `BatchExecute`, `LoopsProofs`

One `Execute` with the adapter of `bulk_update_parts`: `stage[i]` is where item
i's closure is, `outcome[i]` its result, `patch[i]` what became of its request,
`world` the records.  A request is answered, rejected, or loses its answer and
lands at any later time or never; other actors write; the caller cancels.
`completed`, `number`, `mutex`, `quiet`, `notified` are the atomic counter and
the reporter.

Properties: `OutcomesAreTrue` (a result that says nothing was attempted or that the
request was refused is never contradicted later, and a success is one the record bore
out), `OneWriterPerRecord`, `CompletionAnnounced`, `StaleWriteOnlyInWindow`, and the
liveness `CallReturns`.

Run `loops` (with the paged reads below: the two have nothing in common, and a
behaviour of `MCLoops` is of one of them, while the other is over): three items, two
records, two workers: one item waits for a slot, two may name one record.  `MCInit`
narrows the initial states of the instance: item 1 names a fixed record, since the records are
interchangeable, and only item 1 may be unfit, since an unfit item only loses
behaviours.  Safety and liveness are checked together.
Fairness: weak fairness of each item's next step.  The Go scheduler runs every
runnable goroutine, and every blocking call of a closure is an HTTP request of
the InvenTree client, which has a timeout, or the delivery of a notification.
Nothing is assumed of cancellation, of the throttle interval or of other actors.

### Reviewed plans: `StockAdjustment`, `PurchaseOrderLifecycle`, `PurchaseOrderReceipt`, `StocktakeTasks`, `ReviewedTools`, `ReviewedToolsProofs`

Four families of tools carry out a plan that somebody saw in a dry run.  They share
nothing but the server, so a behaviour of `ReviewedTools` is of one of them (`part`), and
the run has each at its own bounds.

`StockAdjustment`: `count`, `add` and `remove` on one item with a quantity, a status and
a delete-on-deplete flag.  Requests are answered, rejected definitely, or ambiguous and
late; another user writes once.  `MutationsAsReviewed`: one mutation per review, none
after the caller was told of a rejection, and no item deleted that the plan kept, unless
somebody wrote in between.  `InterferenceNoticed`: one foreign write cannot make a call
report a success it did not have.

`PurchaseOrderLifecycle`: `hold`, `resume` and `cancel` of one order: read of the order,
of its lines and extra lines, plan and token, transition, refresh.  Other users place,
receive, complete and cancel.  `TransitionsAsReviewed`: one request per review, nothing
that was reported as rejected takes effect, and a resume that places a pending order was
reviewed with that warning.  `OrphansInWindow`: stock received on a cancelled order was
received between the confirming read and the transition.

`PurchaseOrderReceipt`: `receive_purchase_order_items` on an order of two lines.  Its plan
hash is a digest over lines and quantities and no token, so it can be presented again.
`ReceiptsAsReviewed`: still no more receipts land than were reviewed and no line gets more
than was ordered, unless the order changed between the confirmation's read and the
receipt; and what the caller is told of the receipt and of the completion is so.

`StocktakeTasks`: both stores of the stocktake tools read the clock under their mutex, so
each store operation is one step; between them a confirmed call reserves, enqueues and
binds.  InvenTree's answer may be lost, lack the task's key, or name a known task.
`Reservations` (an accepted task finds room for its handle, and no reservation is left
behind), `TasksAccountedFor` (one generation per review, and a handle or a warning for
each task), `HandlesKeepOwner` (an action property: a live handle does not change hands).

Run `reviewed_tools`: two callers, and three for stocktakes so that two reservations and a
poll overlap; two or three reviews, one or two steps of other users, two tasks and a limit
of one handle per principal.  Two callers are enough for a token or a window to be
contested; a third call only repeats what one of two does.

### OAuth: `CodeStore`, `AuthorizationSetup`, `TokenSessions`, `RequestRateLimiter`, `BearerTokens`, `OAuthServer`, `OAuthServerProofs`

`CodeStore` is the store of single-use IDs as operators on a function; both
endpoints use it.  `AuthorizationSetup` keeps every page ever rendered, since a
browser may submit any of them again.  `TokenSessions` is the token endpoint
with its assertion replay store, `RequestRateLimiter` is `Allow` over its bounded
table.  `BearerTokens` is the bootstrap endpoint, which makes an InvenTree token in up to
`MaxTokenAttempts` attempts under a name of its own each (`posts`, `made`, and `landing`
for the tokens InvenTree makes after the caller gave up), the key ring (`config`) and the
verifier of the tokens sealed with it (`envelopes`).  `OAuthServer` puts the four side by
side: they meet only in an authorization code or a token, whose other side each module has
as an action, so a behaviour of `OAuthServer` is of one part (`part`), and the parts share
constants, limits and restarts but no state.

Properties: `MintedOnce` (one code per authorization, however often its pages are
submitted; the supplied credential in it only after InvenTree refused a dedicated one, and
a dedicated one in one code only; one bearer token per bootstrap request, with a token
that is still at InvenTree), `StaysValid` (an action property: pages rendered after
failures keep the first one's deadline, and a rotation that keeps the old keys for reading
withdraws no bearer token), `OneSession` (per code; a chain of refreshes keeps its end and
its client), `UsedOnce` (an assertion), `TwiceTheLimit` (at most, in any interval as long
as a window; and a key is turned away by its own count or a full table only).  Sealing and
signatures are taken as perfect: what a page or a token says is what the server put in it.

Run `oauth_server` (2.2 million states): three authorizations and as many pages, two codes,
three tokens, two clients, their assertions, three keys for a table of two; two bootstrap
requests of two attempts (the code has three: the second is the first that follows a
failure, a third is no different), two sealed tokens and any configuration of two keys
after a restart; clocks long enough to pass every deadline once.

### Lists read page by page: `PagedReads`, `LoopsProofs`

`scan` is one loop with what distinguishes it in the source (how it moves on, what it
checks before a request and after an answer, what it makes of a page without rows that
claims more, whether it is asked again for the next window); `listed` is InvenTree's list,
`Offset` where the loop is in it, `got` and `found` what the loop has.  (The names of
the specification and of some constants differ from those of `BatchExecute`, because
`LoopsProofs` extends both.)  Records come and leave between requests.
`ReadsWhatStayed`: what a loop calls complete is all that was there throughout, with two
exceptions.  A removal moves a record from the offset to before it: offset paging without a
version cannot see that, and `slid` says which record it is.  And a page may come without
rows and still claim more: `withheld` says what such pages kept back.  The loops differ in
what they make of one:

* `noteSiblings`, the scans before a category or a stock location is deleted
  (`categoryDelete...`, `scanStockLocationDeletePages`), `scanCategoryDefaults`,
  `categoryDefaultPage`, the scans of extra lines and those of the audits refuse it: for
  them the property says that `withheld` is empty;
* `objectParameterUniquenessConflict`, `scanTemplateParameters`, `sourceCategoryLinks` and
  the searches for parameter values take it for the end of the list, so everything behind
  it is missing from what they call complete;
* `ListAll`, the duplicate scans, `stockLocationTypeReferences`, `findPartRelationPair`, the
  other windows and the walk through the barcode history read on behind it, so its rows are.

No record is read twice, except one that an insertion moved back (`pushed`).  Of two of the
loops that accept such a page the source says that they fail closed, which they do not:
`FailsClosed`, in the run `paged_reads_fails_closed` (see "What the runs found"); what `slid`
escapes both as well.  `RefusedForCause` (a
list within the bounds that nobody touches is not refused), `WindowsTile` (windows asked for
one after the other meet without gap or overlap): these three are proved.  `ScanReturns`
(liveness).  Run `loops`: five records, two a page, four rows at most, two changes, so that a
list fits exactly, is one record too long, and changes before and behind the offset, by a
removal and an insertion in either order.  (More changes are left to the proofs, which bound
none.)  Fairness: the loop's next request, which the client's timeout ends.

### Several records in a row: `Workflows`, `WorkflowsProofs`

`upsert_part_workflow`, `create_purchase_order_with_lines` and the fixtures of the
integration tests are programs over slots (`records`, `input`, `answer`, `sent`).  Each
looks for a record, reuses or creates it and stops at the first failure; the part workflow
looks all of them up first.  `NothingHidden`: no answer hides a write, not one behind an
error either (proved).  `RetriesConverge`: calling again until it works leaves one record in every
place, unless calls overlap, somebody else writes or a request lands after its caller
called again (proved).  `PartialForCause`: a workflow stops in the middle only for a failed request
or a foreign write (proved).  Run `workflows`: two callers with two calls each, two failing
requests and one foreign write, for nine inputs that between them name every slot, by ID
and by lookup, with and without what creating it would take.

### What begins and ends: `HTTPLifecycle`, `TestEnvironment`, `UploadSources`, `ReleaseDownload`, `Lifecycles`, `LifecyclesProofs`

`HTTPLifecycle` is the main goroutine from `serve` to exit, `Serve`, and the watchdog, or
the one blocking session of the stdio transport.  `TestEnvironment` is `Start` and `Close`
of the integration tests' InvenTree over `docker` and the log goroutines (`producers`,
`inLogf`).  `UploadSources` is one source from its check to the end of its reader, with a
file system and a name service that change in between.  `ReleaseDownload` is self-update
from the metadata to the unpacked executable, with releases replaced between two requests
and any redirect.  A behaviour of `Lifecycles` is of one of them.

`OrderlyEnd`: no goroutine is left, no request is cut short under a clean exit code,
systemd hears of failures, and what an environment leaves is what Docker would not
release.  `WithinPolicy`: no connection to a blocked address, no file outside the allowed
roots unless the path is bent after it was resolved (`moved` is that window: the code
resolves and checks a path before it opens it), nothing installed that was not verified,
the GitHub token seen by the API only.  `ComesToAnEnd` (liveness): told to stop, the
service does; `Start` returns; a reading and its goroutine end; a download does.

Run `lifecycles`: every step may fail; two requests, two heartbeats, two hosts, one of
them on the allowlist, with three redirects as in the code; two releases with two good
builds and a spoiled one, and three hops (the code allows five: the bound is met either
way).  Fairness: a goroutine that can go on
does, deadlines (`context.WithTimeout`, the client's timeout, the polling's deadline) pass,
callbacks return, and `Serve` returns once its server is closed.  Nothing is owed by a
request that never ends, by the writer of a pipe or by a server that sends its body for
ever; the property excepts the call that reads a pipe.

### Self-update: `SelfUpdate`, `AtomicUpdate`, `SelfUpdateProofs`

`dir` is the directory of the executable, `survivable` what a power loss may
leave of it: any directory since the last sync.  A step per rename, sync and
removal; `Fault` counts failing steps, kills and power losses.  `AtomicUpdate`
is the promise that the executable and `.previous` change together or not at
all; `IsAtomic` is the refinement, `Recoverable` says that an open record has
what its rollback needs.  Three faults are needed for the deepest case, a
rollback that fails, is killed and then meets a power loss.  What is installed is one
choice here; where it comes from is `ReleaseDownload`.

### Write tools: `ToolSteps`, `CatalogTools`, `DeletionTools`, `PurchasingTools`, `StockTools`, `RecordTools`, `BulkTools`, `ToolCalls`, `ToolCallsProofs`

Ninety-odd tools that write one record (or two parameters) share the shape of
their handlers: reads, a confirmation, a request, a read-back, each with an early
return.  `ToolSteps` is that vocabulary.  A step names what is read or written
and what the tool answers when it goes wrong (`Plainly`, `OrError`, `AsError`,
`Verifying`, `Confirming` and the variants of them): the error classification of
`validation_errors.go`, which differs from tool to tool and decides what a caller
may believe.  Each handler is one definition, named after its Go function, in the
module of its family; a handler that reads or writes more for some inputs is a
set of step sequences.

`ToolCalls` runs them: concurrent calls of one tool (`calls`), InvenTree's records
of two kinds (`world`; "own" are the ones the tool writes, "related" the ones that
hang on them or stand beside them), the plans dry runs offered (`reviews`), another
user (`Foreign`).  `Start`, `Read`, `Confirm`, `Send` and `Check` are the steps of a
call; `Land` is a request without an answer that arrives after all, while its call
runs or after it.  A request can be acknowledged, refused (400, 422), answered 404,
turned away definitely or for its pacing (408, 425, 429), time out or fail.  A call that
has sent nothing leaves nothing, however it ends, so `Traced` drops from the sequences
what cannot matter before the first request: how a step fails, and looks at what is not
told apart.  An
acknowledged write whose answer cannot be read counts as a failure that landed.
Cancellation by the caller is left out.

What makes such a handler safe is the order of its steps, and `Disciplined` says which
order.  `WritesWhatItRead`: a record that is written over was named by a read, and what
must not stand beside a record was searched for, with nothing of the same kind done in
between.  `WritesWhatWasShown`: where a plan is confirmed, no write comes before the
confirmation, and each follows one over the same record.  `SettlesWhatIsOpen`: an answer
that leaves open what became of a write is not told as a refusal, and where it is to be
verified a read that can decide follows.  `OwnsUp`: after a write nothing is answered as
if it had not been made.  `ToolsAreDisciplined` checks this of every step sequence of
every tool.

Properties: `ToolsAreDisciplined`; `OkWasReal` (what an `ok` says was true at some instant
after the request; `assign_barcode` is exempt: after a request without an answer it reads
`has_barcode`, which the barcode the object had before satisfies, so its `ok` may
stand for an assignment that never happened, where `docs/operator-recipes.md:616`
promises `partial_failure`); `AnswersOwnUp` (a clarification, `not_found` or validation
failure hides no request that has taken effect or may, and an acknowledged write is never
answered with a mere error; of the second half `set_part_parameters` is exempt, whose second
request may fail after the first, a residual risk `docs/TASKS.md:683` records, and
so are `issue_purchase_order` and the tools in `BareReadBacks`, mostly deletions, which
pass on the error of the read that follows the write);
`HarmOnlyInWindow` (no duplicate of, and no deletion under, a record that has been
there since the call began); `WritesWithinReviews` (a confirmed call writes what a
dry run showed over the record it showed, unless that changed during the call, and
a token serves one call).

A transfer that splits an item (`split`) changes it and creates another one; before, it
notes which items like the new one are there (`known`), and afterwards looks for one
that is not among them (`fresh`).  Lists are read in one piece: that a reference or
duplicate lies beyond the page or the scan bound a tool reads (100 attachments, for
one) is abstracted, as are quantities.

`BulkTools` is one item of each bulk tool and of the note tools, from the plan to the
read-back; `BatchExecute` is what the items of a batch do to each other.  An item that
failed counts as "refused", one that was skipped as "unchanged", one that is ambiguous
or unverified as "partial".  Before it writes, an item reads its record again
(`Reread`): `still` goes on when the record is as planned and not yet as asked, `intact`
when it is as planned, `again` is the same for a parameter that is searched for, and
`alone` the read-back of that search.  An update found by such a search is for any
parameter of the object with that value (`upsert`), so that is what `OkWasReal` asks.
`bulkPropagatePartParameters` writes one or two parts in turn and stops at the first
failure.

Run `tool_calls`: two calls, two records of a kind, two dry runs that end in an
offer, one change by another user.  Two calls are what a token, a duplicate or a
late request can be contested by; two records are one that is found and one that is
created or stands beside it.  Deadlock is not checked, since a call that has sent
something is not started again and the run ends once all have.

## What the runs found

* `self_update_downgrade` (`NoDowngrade`).  `selfupdate.go` compares the release
  with the version compiled into the running process and never looks at the
  installed one under the lock.  A process started before another update
  finished installs an older release over the newer one, where
  `docs/self-update.md:28` says downgrades leave the executable unchanged.
* `self_update_rollback_source` (`RollbackSourceRetained`).  When publishing the
  committed record succeeds but its directory sync fails, the run reports
  success; the next invocation sees the committed record and removes the
  rollback source before that record is durably synced, which
  `docs/self-update.md:59` rules out.  A power loss may then bring back an open
  record without its rollback file; `Recoverable` holds as stated only because
  the removals are ordered after the record in the directory's journal.

* `tool_timeouts` (`TimeoutsAreVerified`).  `deletePart` and the other tools with
  the `UnlessLate` policy return `context.DeadlineExceeded` at once when the error of
  a request is one.  They mean the caller's deadline, but the InvenTree client's own
  timeout (`cmd/inventree-mcp/main.go:286`) is such an error too, so a deletion that
  timed out and is still on its way is answered with that bare error and no
  read-back, where the comment at `part_delete_tools.go:150` and
  `docs/tool-reference.md:326` promise the read-back for timeouts.

* `paged_reads_fails_closed` (`FailsClosed`).  `objectParameterUniquenessConflict` looks for
  a row with the value before a value that must be unique is written, "bounded and failing
  closed so an incomplete scan can never silently approve a value that upstream would have
  rejected as a conflict" (`object_parameter_tools.go:490-493`).  Line 522 answers "no
  conflict" on a page without rows even if the page says there is more, so the rows behind it
  are never compared.  In the run the first page of an untouched list comes that way and the
  answer is "complete" with nothing read.  `stockLocationTypeReferences`, "failing closed so
  an incomplete scan can never understate the impact of deleting the type"
  (`stock_location_type_admin_tools.go:350-352`), reads on behind such a page (lines 353-373)
  and returns a list without its records; the same property is violated by it alone, a page
  later.  Neither compares what it read with the count of the page, as the scans before other
  deletions do.  The run has no changes (`MaxChanges = 0`), so that the trace is not the one
  of a removal during the scan, which both comments rule out too and no offset paging detects.

All other properties hold.

## What is proved

`PlanStoreProofs` proves, for any sets of callers, principals, operations,
digests and tokens and for any lifetime and limits (`BoundsAssumption`,
`TokenAssumption`): type correctness, `SingleUse`, `OnlyLatestOutstanding`,
`WithinCapacity`, `NoPlanLost`, `AcceptedAsReviewed`, and that the store
implements `ConfirmationTokens`.

The argument.  The checked invariants are not inductive: a token an `Issue`
call has drawn but not yet stored could, as far as they say, already be in the
store or accepted.  `IInv` adds that a call's clock reading lies in the past
(`ReadingsInPast`), that a drawn token is nobody else's
(`DrawnTokensPrivate`), that outstanding and undrawn tokens are unspent
(`OutstandingUnspent`, `UndrawnUnspent`).  One lemma per action proves that it
preserves `IInv`; capacity is a second induction that needs the finiteness of
`entries` and the arithmetic of cardinalities of the loop's result; the action
properties follow from `IInv` step by step; the refinement shows that each
step is a step of `ConfirmationTokens` or a stutter, case by case.

`OAuthServerProofs` proves `OneSession`, `UsedOnce`, `MintedOnce`, `StaysValid` and `TwiceTheLimit` for any
numbers of requests, clients, assertions, codes, pages, bootstrap requests, attempts and
keys, any lifetimes and any size of the stores (`SetupAssumption`, `ServerAssumption`:
bounds are naturals, lifetimes and limits positive, an assertion names a client and a
time).  Each part has an inductive invariant, joined in `ServerInv`:

* the token endpoint (`TokenInv`): a code that is in the store, or not issued yet, was
  never used up (`UnusedCodes`), so using it up is what starts its only session; every
  request between its check and its answer, and every pair, belongs to the session of its
  code (`Sessions`); an assertion that was accepted is in the replay store or expired
  (`AssertionsRemembered`);
* the authorization endpoint (`SetupInv`): live page, submission under way and code of one
  authorization exclude each other and themselves (`OneChance`); a page's offer of the
  supplied credential, a submission's and a code's credential are backed by what InvenTree
  answered (`PagesOfAuthorizations`, `Submissions`).  The cardinalities of
  `OneCodePerAuthorization` follow at the end, from `OneOrNone`;
* the bootstrap endpoint (`BearerInv`): a token of InvenTree, made or still to be made, has
  the name of its own attempt, which its request did start (`TokensOfAttempts`), so none
  ever replaces another (`TokenReplaced`), and what is sealed is still there
  (`SealedTokens`);
* the rate limiter (`LimiterInv`): what a key was allowed since its window began is what the
  window counted, up to the limit, and of what it was allowed before, no more than the limit
  is less than a window old (`InWindow`); of a key whose window is over or was dropped, no
  more than the limit is less than a window old altogether (`Quiet`).

`LoopsProofs` proves `OutcomesAreTrue`, `OneWriterPerRecord`, `CompletionAnnounced`
and `StaleWriteOnlyInWindow` for any number of items, any records they name, any
concurrency limit and any number of foreign writes (`BatchAssumption`).  The invariants say
what a result means once it is there; `IInv` adds what the closure knows before it has one:
nothing is sent before the preflight is done nor for an item whose record another names
(`SendingInv`), what the preflight accepted is there until somebody else writes
(`PreflightInv`), a record at its target is remembered as such (`AchievedInv`).  Completion
rests on counting: the numbers drawn from the atomic counter are 1 to `completed`, one item
each (`CountInv`, by the cardinality of the numbered items), every announced number is of an
item that is done, and the item with the last number is done only when it was announced
(`NotifiedInv`).

`LoopsProofs` also proves `ReadsWhatStayed`, `RefusedForCause` and `WindowsTile` for any list
and filter, any page size from two on, any bounds of which the rows are whole pages, and any
number of changes (`PagingAssumption`; the code asks for 100 rows of at most 1000.  With
pages of one row a budget would not fit what the others do: a request itself costs one of
its units).  A list is a finite set of numbers; its lemmas say how many elements stand before
a number (`Place`), that the first k of a set are k (`FirstCount`), and by how much a place
moves when an element leaves or comes.  How often records were read is not summed but
counted, as the rows of a set (`RowsOf`), so that cardinalities decide it.

* `ReadsWhatStayed` rests on `PlacesInv`: while a loop goes on, what was listed throughout
  and is not read stands at its offset or behind, unless it slid or was kept back by a page
  without rows; what was read stands before it, unless it was pushed; and a loop that refuses
  such pages has accepted none.  What a page keeps back is what it should have shown, or
  everything from the offset on if the loop ends with it (`Missing`).  A removal or an insertion before the offset moves exactly one
  record over it, the one the history variables note.
* The other two rest on `UntouchedInv`: of a list that nobody touches, exactly the records
  before the offset were read, once each, and a walk has found those of them that match and
  are asked for.  So what a bound is compared with is a number of whole pages; only the last
  page of a budget may be a part of one (`BudgetInv`).

`SelfUpdateProofs` proves type correctness, `Recoverable` and that the updater implements
`AtomicUpdate`, for any versions, starts, failing steps, kills and power losses
(`SelfUpdateAssumption`).  `Recoverable` alone is not inductive, because what a rename may do
depends on which step of which routine it belongs to.  `IInv` adds that the updater at work
is the one that has the lock (`LockInv`), that every directory a power loss may leave has an
executable and the rollback of its record (`RecordsInv`), and, step by step of the
transaction, the recovery and the cleanup, what the working updater has seen to be so in the
directory and in all the survivable ones (`ProgressInv`).  A step of the file system either
keeps the picture the operator has or is the one commit that changes both files of it.

`LifecyclesProofs` proves `OrderlyEnd` and `WithinPolicy` for any numbers of requests,
heartbeats, hosts, redirects, releases and changes (`LifecycleAssumption`,
`LifecyclesAssumption`).  The four parts share no variable, so each has an invariant that a
step of another leaves alone:

* the service (`ServiceInv`): where the other goroutines are and what the main one carries,
  by where the main one is; a result that leads to a clean exit is carried only when no
  request is in progress and none can begin (`ResultInv`);
* the test environment (`EnvironmentInv`): while it starts, what Docker has is what the
  `Environment` keeps track of; while it closes, whatever is left is still on the list of
  releases, was refused or is the container that never started, and the list has the worker
  before the server it depends on (`WorkerFirst`), because it is the reverse of the order
  in which the steps of `Start` were taken (`Steps`, `ReleasesAll`);
* the upload source (`UploadInv`) and the release (`DownloadInv`): what was checked holds
  until it is used, or the window it moved in is on record.

`ReviewedToolsProofs` proves all eight properties of `ReviewedTools` for any callers,
generators, principals, tokens, order lines, inputs and bounds (`ReviewedAssumption`,
`StockAssumption`, and `ReceiptAssumption`: what was ordered of a line is a natural, and an
input receives some of some lines).  Each family has its inductive invariant:

* stock adjustments (`AdjustmentInv`): a ledger, by which mutations logged, mutations under
  way and outstanding plans together are at most the reviews (`AdjustmentLedger`); what a
  plan and the foreign writes since tell of the item (`SnapshotInv`), which makes the
  read-back conclusive (`ReadBackInv`); and what stays so of a request after its call is
  over (`RequestInv`);
* the order life cycle (`LifecycleInv`): the same ledger with at most one request a call, and
  warnings that an outstanding plan, a call and a request share with the review;
* receipts (`ReceiptInv`): receipts with the same hash that did not race are one receipt,
  since the first changed the order that the hash covers, so that what a line received is
  what its one plan said;
* stocktakes (`StocktakeInv`): reservations of a principal are as many as its calls that hold
  one (`ReservationInv`), handles and reservations together fit the limits (`RoomInv`), and a
  token stands for a plan, then for a call, then for a task (`TokenInv`).

`WorkflowsProofs` proves `NothingHidden` for any callers, inputs (`InputAssumption`: a part
workflow is about a part; an order has its supplier given by ID, and is perhaps given so itself, its lines never;
a fixture comes with all that it needs), calls, failures and foreign writes.  The programs are sequences that are known, so the proof works with positions: what
a call has sent is settled, that is listed as done, or is the extra line it is recovering
(`OnCourse`); before the first write nothing was sent, and the steps before it are the only
ones that answer with a bare error; all that a part workflow came past is listed (`Sought`),
which with `remainingPartUpsertActions` accounts for everything it was asked for; and the
question about the SKU cannot come up in the last pass, because the preflight asked it
(`HasSku`).  `Proceeding` shows once, for all steps, that going on to the next due step keeps
this; `StoppedAccounts` that stopping reports it.

It also proves `PartialForCause`, from the same assumption.  What makes it true is that a
part workflow finds in its run what it found in its preflight, though by then it has written
itself, and other calls write too.  The invariant (`Causes`) therefore relates the records,
the requests still under way and each call that nothing came in the way of:

* the records of a slot are numbered without gaps, and what hangs on a record hangs on one
  there is (`RecordsOK`); so do the writes that may land late, and none is of a call under
  way that was not told of a failure (`LateOK`);
* what a call holds is there, or planned before the last pass (`HoldsOK`);
* in the preflight, each slot looked up had one usable record, or none and what creating it
  takes (`Preflighted`);
* in the run, each slot still to be looked up is as the preflight found it (`Follows`): what
  was found is held again, and under a part or company the call created itself there is
  nothing yet (`Newborn`), which is why a lookup there finds no record it cannot use;
* a link that is listed as created is there, and so is an extra line once it is written
  (`Listing`, `LinesWritten`), so that the read-backs find them.

A call that a write of somebody else came in between is excused for good (`Excused`), so
only its own steps need the last three: `LookWell`, `WriteWell` and `VerifyWell`.

And it proves `RetriesConverge`, for the two tools and every fixture.  That ties a call to those
before it, of which nothing is left but the records, so the invariant (`Converging`, as long as
nothing was `disturbed`) says what a call knows of the records, at each step:

* the records hold no doubles, and no record is ever lost or comes to be less than it was
  (`Sound`, `Grows`);
* a slot the call is about to create a record for is free, under the records the call holds
  (`Free`, `Needed`): it looked, found nothing, and nobody else has written since;
* what still waits for its write does so only between its lookup and that write (`Pending`;
  in the order workflow both are several steps apart, and what comes between writes other
  slots), and every other slot come past is seen to (`SeenTo`), so that an answer of success
  finds every slot provided;
* a write behind an error is the hard case.  When the call ends with the error, it may land
  until the caller calls again: still safe then, because only that one is under way
  (`WriteSafe`, `LateSafe`).  When the write was of an extra line the call itself goes on; that
  line is then in no other hands (`Awaited`), and if the call does find it the late write
  cannot be one that creates: the slot would not have been free.

`SafeWrite` shows once that a safe write keeps all of this, `Onwards` that going on does;
every action is then an instance of `Advances`.

`ToolCallsProofs` proves `OkWasReal`, `AnswersOwnUp`, `HarmOnlyInWindow` and
`WritesWithinReviews` for any calls, records, dry runs and changes by others
(`CallsAssumption`) and for any tool whose steps are disciplined.  That premise is about the
sequence of steps alone, which no action changes; it names none of the constants, so TLC's
check of it for every tool of the six families, the invariant `ToolsAreDisciplined` of
`tool_calls`, holds for all instances.  (It is not proved because the sequences are folded
together from the handlers' definitions, and a fold is induction over data.)  `IInv` says
of each call (`CallOK`):

* of its requests: none that may still land stands beside a record that was there when the
  call began and that it must not meet, none is over a record that was there and is not as
  reviewed (`SafeRequests`), and one whose effect is to be seen is marked as having held
  (`AllNoticed`);
* of the step it is at: what the steps before established about the records the call is
  about still holds, unless the record came or changed in the meantime, because since then
  no step of that kind intervened (`Placed`, `Established`, `Kept`); and each request has
  held or waits for a step that will decide (`AllSettled`, `Awaits`);
* of its review and its answer: `ReviewStands`, `OutcomeTrue`.

Every property speaks of a request that may land at any later time; it is `SafeRequests`,
which no later step can take away from a request under way, that carries it there.

Beyond the prover and left to TLC: liveness (`CallReturns`, `ScanReturns`,
`ComesToAnEnd`) and everything about ENABLED; induction over data; and recursive operators, which no module
with a theorem declares or reaches.  Every invariant of a run is proved, but for
`ToolsAreDisciplined`.

## What is not modelled, and why

The list with reasons is `components` in `PROJECT.json`.  In short:

* pure functions and observation: rendering, web links, the choice of file names, checks
  of images, configuration, telemetry, the debug traffic log, schema and manifest;
* cryptography, taken as perfect: sealing, signatures, digests, random tokens;
* the scope guard and the client metadata: checks of one call, without state;
* the ownership checks of the updater's target and the formats of its files;
* which fields a patch or a projection has, quantities in transfers and splits, the depth
  of installation trees: a read that may object stands for them;
* the checks between the items of one batch for equal references or unique values;
* tools that only read, but for their paging.

## Plan

Done, in this order: the plan store with its refinement and proofs, the bulk engine,
self-update, stocktakes, stock adjustment, purchase-order life cycle, OAuth, the service,
the write tools over one record; then workflows and fixtures, receipts, paged reads, the
bootstrap endpoint with its keys, uploads, downloads, the test environment, and the proofs
of the OAuth server.  What would add most, the most important first:

1. Quantities of transfers and splits, and the property that they add up across source and
   destination.
2. `reviews` of `ToolCalls` as instances of `ConfirmationTokens`, so that the composition
   of tools and token stores is by refinement.
3. What ties the items of a batch together besides their records: equal extra-line
   references, parameter values that must be unique, two notes of one object.
4. A run for `assign_barcode` against `OkWasReal` (see above).

Theorem worth proving next: that every tool is disciplined (`ToolsAreDisciplined`), once the
step sequences are written without folds.
