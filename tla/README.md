# A formal model of Tracebud's offline field sync

Tracebud's field app (`apps/offline-product`) records plots, photos, consent
decisions and deliveries on a farmer's phone, mostly offline, and uploads them
to a NestJS backend (`tracebud-backend`). This directory models the part whose
correctness is hardest to test: how a record made on the phone reaches the
server exactly as it was made, across lost answers, kills of the app,
overlapping sync runs and a queue with a cap.

All source paths below are relative to the repository's root; `features/` is
`apps/offline-product/features/`.

## 1. Inventory

| Part | State | Operations | What is hard |
|---|---|---|---|
| Sync lock, `features/sync/syncQueueMutex.ts`, `syncOperationLimits.ts`, `runAutoBackup.ts` | `locked`, `currentHolderId`, `lockStartedAt`, phase, `waitQueue`, `waiterCount`, `waitingSince` | acquire, wait with a timeout or for ever, hand off, release, stale takeover, phase | timers that overtake holders and waiters; work that outlives its call |
| Pending sync queue, `features/state/persistence.native.ts`, `features/sync/pendingSyncDedup.ts` | SQLite table `pending_sync` | enqueue with coalescing and a cap, compact, load, mark, delete | sequences of statements with no transaction and no lock, next to a drain |
| Drain, `features/sync/processPendingSyncQueue.ts`, `drainPendingSyncQueue.ts` | a snapshot of the table | compact, load, post, mark or delete, several passes | the snapshot ages while it is worked through |
| Deliveries on the device, `features/harvest/*.ts` | `local_delivery_receipts` | submit, restore, reconcile, re-queue, update, remove | receipts of one delivery under two ids; read-modify-write; lost answers |
| Sync pipeline, `features/sync/runFieldSyncPipeline.ts` | local variables of a run | restore, reconcile, upload plots, enqueue, consent, drain | order of the steps; one failing step skips others; runs overlap |
| Plot upload and links, `features/sync/plotServerSync.ts`, `features/plots/plotServerLink.ts`, `backendPlotMatch.ts` | links local plot -> server plot, cached server lists | upload, adopt, reconcile, guess a match | partial lists, stale caches, screens beside the pipeline |
| Declarations, preferences and field cloud audits, `features/sync/queueDeclarationAuditSync.ts`, `queueFieldCloudAuditSync.ts` | settings, queue rows, `audit_log` | enqueue the newest, post, replay, mark | newest wins, events with no idempotency key |
| Draft of a walk, `features/mapping/plotMappingDraft.ts`, `useMappingDraftCloudSync.ts` | `plot_mapping_drafts`, the events of `audit_log` | autosave, clear, restore, re-queue | a timer, a restore and a drain write one draft |
| Consent, `features/consent`, `features/sync/processPendingConsentQueue.ts`, `tracebud-backend/src/consent` | grants and their status, queued decisions | ask, approve, deny, revoke, replay, read | decisions made offline meet transitions made on the server |
| Backend harvest, `tracebud-backend/src/harvest/harvest.service.ts` | `harvest_transaction`, `voucher` | create (idempotent per client event), claim | separate statements, replays, concurrent replays |
| DDS packages, same file, and `shipment-headers/shipment-headers.service.ts` | `dds_package`, `dds_package_voucher`, `audit_log` as the idempotency store, usage meters | create, preflight and generate, submit under an idempotency key, seal | separate statements, a best-effort audit row that idempotency relies on, overlapping submits |
| Backend plots, `tracebud-backend/src/plots/plots.service.ts` | `plot` | create by client id, claim a row without one, geometry, screening | separate statements, errors after the insert |
| Imports, requests, inbox, billing | Postgres tables | see PROJECT.json | row-wise updates, job states, webhooks |
| Dashboard, marketing, demos, product documents | - | - | user interface and prose; not modelled |

How they interact. A screen calls `submitHarvestRecord`, which posts at once
when the plot has a server id and otherwise queues. A pipeline is started by the
backup timer, connectivity or "Sync now"; it runs under the lock and inside an
operation budget. Screens also write: opening the delivery list restores
receipts from the server (`buildDeliveryReceiptCatalog.ts:106`), counting
what is pending compacts the queue (`measureTotalSyncPending.ts:94`) and
rewrites plot links (`:106-125`), saving a form queues and posts its audit event,
and the data sharing screen drains the consent rows; none of them takes the
lock. JavaScript runs each stretch between two awaits to completion, so an
interleaving point is an `await`, and nowhere else; on the server it is the end
of a SQL statement, as no request opens a transaction around its check and its
update.

What makes each part correct: the lock is never leaked or shared by two current
tokens and loses no wake-up; a queued upload is uploaded, or its loss is one the
code accounts for (the cap); a delivery the farmer was told is recorded can
always be found in a place that leads to the server; a client event is one
transaction and one voucher; a receipt shows its own voucher; a plot has one
row on the server and ends up linked to it; what was declared is logged, and the
newest version is the one a restore finds; an organisation reads what the farmer's
last effective decision lets it read; the reference an operator was told is the
package's. PROJECT.json lists the hazards line by line, each with the properties
that cover it, or with the reason why none does.

## 2. Modules

| Module | Models | Correspondence |
|---|---|---|
| `FencedLock` | what the lock promises, abstractly | a lock granted at most once to each call, which the end of a displaced call leaves alone |
| `SyncQueueMutex` | the lock and the budget | one action per synchronous stretch; `Finally` is the `finally` of `withSyncQueueLock`, `HandoffOrRelease` its hand-off, `TakeOverStale` the takeover, `OperationTimeout` the budget that settles the call and leaves its work running (`AbandonedWorkEnds`) |
| `PendingSyncTable` | the pure part of the queue: eviction order, coalescing, planning of a compaction, order of a drain | one operator per function |
| `PendingSyncQueue` | every caller of the table | one action per SQL statement with what surrounds it; `op` holds what a caller remembers across its awaits |
| `HarvestSync` | a delivery from the farmer's tap to the voucher, device and server | one action per stretch between awaits of submit, pipeline, screen and server |
| `DdsPackages` | what operators do with vouchers on the server | one action per SQL statement with the code up to the next; `op` holds what a request remembers, `told` what operators were answered |
| `ConsentGrants` | grants between a farmer and an organisation, on the server and on the phone | `Check` and `Apply` are the two statements of approve, deny and revoke, `SelectPending`/`SelectActive`/`InsertGrant` the three of a request; `Gate`, `SoldLineage` what `consent-lineage-access.ts` answers, the latter from the packages that are filed under the farmer, which `InsertPackage` and `LinkVouchers` create as `createDdsPackage` does; `call` holds what a tap or a run of the consent queue remembers |
| `AuditCalls` | one call of `queueFieldCloudAuditSync` or `queueDeclarationAuditSync`, the drain of audit rows and `audit_log` | one action per await; used by the next two, which say who calls |
| `DeclarationSync` | declarations and preferences: forms, and pipelines that queue what they held when they started | `Requeue` is `enqueuePendingDeclarationAuditsForDevice` and then `enqueueFarmerCloudSyncActions` |
| `MappingDraft` | the draft of a walk: screen, timer, restore, re-queue | `Autosave` is the 1.2 s timer, `RestoreClears` to `RestoreDraft` the restore, each write between two awaits |
| `PlotServerLinks` | plots and the rows the phone takes for them | `Reconciled` is `reconcilePlotServerLinks`, `Confirmation` the choice of a row, `FindByClientId`, `CheckGeometry`, `FindOrphan`, `ClaimOrphan` and `InsertRow` the statements of a creation |
| `DeliveryLedger` | what recording a delivery promises, abstractly | the deliveries the farmer was told of, those only the phone has, the server's ledger and its vouchers; `HarvestSync` maps its tables to them |
| `*Proofs` | theorems | section 5 |
| `MC*` | instances for TLC | |

`HarvestSync` and `PendingSyncQueue` meet at `enqueuePendingSync`: the former
takes it as one step, the latter opens it up. What the races inside it can do to
the former's queue - a row disappears before it was uploaded - is
`HarvestSync!QueueLosesRow`. `HarvestSync` runs several pipelines at once
because the budget permits it: `SyncQueueMutex!OperationTimeout` settles the call
that holds the lock, whose work goes on until `AbandonedWorkEnds`.
`AuditCalls` extends `PendingSyncTable`, so that audit rows are coalesced and
compacted by the same operators. `DdsPackages` starts where `HarvestSync` ends,
from vouchers that exist; `PlotServerLinks` opens up what `HarvestSync` takes as
`LinkPlot`.

### Abstractions

Queue. A row of `PendingSyncQueue` is its dedup key, date and attempts; payloads
are told apart in `HarvestSync` (by the recipient only) and in `AuditCalls` (by
the version). A drain takes rows in the order of ids, which is the order of their
HLC stamps since a new stamp exceeds that of the newest row present.

Deliveries. Permission refusals, weights out of range, invalid rows and the yield
cap are left out: they end a call without a state change or are rejected before
the insert, which `ServerFails` covers. A voucher's QR is as good as its id.
`near` says for which deliveries a voucher lies within the two-hour,
half-kilogram window of `findSyncedVoucherForLoggedDelivery`; it is chosen
freely, since the clocks of phone and server and the deliveries' weights are
free. `linked` stands for "every plot has a server id". An order in which a loop
visits receipts or vouchers is a choice. `ServerInsertRaces` is the case of two
overlapping inserts of one event, in which the second statement yields no row and
the handler throws. The page of a receipt (`SyncReceipt` to `StoreMatch`) starts
one of the pipelines and goes on when it is over. Removing a receipt and date
corrections are not modelled.

Packages. A `Key` is an idempotency key with the role that uses it, one of them a
destination role. Vouchers are of verified plots or not from the start; `Review`
raises and settles tenure and evidence blockers at any time; the other blockers
(weights, dates, areas) are facts of a voucher that never change and are left out
with the warnings. A package has one shipment header, which once sealed stays so.
Random references never collide. The billing gate, tenant scope and access checks
end a request before it changes anything, except the gate, which ends it where
`RequestFails` may.

Consent. One farmer, one organisation, one tap at a time. A row is queued in one
step, without the cap; the gate is read in one step. A package is created in one
statement and linked in another; it is filed under this farmer (`own`) or, when
the id of another farmer with vouchers in it sorts before his, under that one.
The clock of the server is seen in milliseconds (`ClockTicks`), since `revoked_at`
loses what is below on its way through the gate: a package that is still `recent`
at a revocation does not count as created before it. A request whose caller left is still served, or not. When the audit row of
a decision cannot be written the grant has moved and the farmer is answered 500.

Audit events. An id is above all ids in use or remembered, which is what
`AUTOINCREMENT` promises of them. The log keeps each event where it was last
appended, since all that is ever read is the newest of a kind. Markers are kept
for the kinds whose marker somebody reads. Setting the marker and taking the row
out again follow the code's order; reading a marker and beginning the call are
one step, and so are saving an empty draft and deleting it. A request that was
under way when the app died is not appended later. `DeclarationSync` assumes at
least one plot and does not restore preferences; `MappingDraft` has new plots only.
Its run has one call from the screen at a time; the definitions allow any number,
and `quiet` notes whether another call or a pipeline was under way at a save.

Plots. One farmer id. All plots are of one kind and area, so the newest of
several candidate rows wins; names do not change, and two names are equal for the
phone (which compares them exactly) when they are for the server (which ignores
case). Legacy rows named by the plot's id, the re-key by creation suffix and the
display-name update have no effect on the links then and are left out. The cache
of a run and that of the screens are one list, which may expire at any time; other
fetches (warm-up, verification after a 500) are those of a screen or of
`Refetch`. A plot that may not be uploaded is one that fails: it is passed over,
or ends the loop. `CreateLate` serves a POST whose caller left in one step.
`EnterByHand` is a row of the CRM, which has no client id; it comes before the
phone creates its row (known limits). `FirstRows` are tables that
`tb_v16_050_plot_duplicate_prevention.sql` admits. Of boundaries a row keeps
which plots of the phone it overlaps by more than GEO-105 allows (`over`); the
plots of the phone overlap none of each other, a row that the phone created
overlaps its own plot, and points (`Walked = FALSE`) are not checked. The other
issues of the quality gate are facts of one boundary, as the phone's own check is:
a plot that has one can never be uploaded and is left out. So are rows of the
farmer's tenant that are not his, which the overlap query also reads.

## 3. Runs

| Run | Instance | Shows |
|---|---|---|
| `mutex` | four calls, one patient, budgets 1 < 2 < 3, one phase | type correctness, `HolderIsLive`, `NoLostWakeup`, `SnapshotConsistent`, `OverlapOnlyAfterMaxHold`, `FifoGrants`, `ImplementsFencedLock`, and `QueueDrains` under fairness |
| `queue` | two keys, two savers, one compacting screen, one drain, cap 1, three rows | `DuplicatesBounded`, `CapRestored` |
| `queue_alone` | the same without the screen, cap 2, two faults | `KeyNotForgotten`, `AcceptedIsDelivered` |
| `harvest` | one delivery, a pipeline, a screen, two faults, partial lists | `NoDeliveryLost`, `SyncedReceiptOnServer`, `EventRecordedOnce`, `QueuedIsRecorded` |
| `harvest_overlap` | one delivery, two pipelines, one fault, two transactions | `ImplementsLedger` (every step is one of `DeliveryLedger`'s or none), `SyncedReceiptOnServer`, `QrIsOwnVoucher` when pipelines overlap |
| `harvest_voucher` | one delivery, a pipeline and a screen, no fault | a synced delivery that never gets a voucher (finding) |
| `packages` | one voucher and package, two requests at a time, two origin keys and a destination key, two faults | `ReferenceIsStable`, `EmptyNotGenerated` |
| `consent` | two requests of the organisation at a time, two grants, a voucher, two packages, one queued row, the screen's queue run, no fault | `GateFollowsFarmer`, `OneOpenGrant`, `SoldStaysReadable` |
| `consent_replay` | one request, one grant, three queued rows, two faults | `NoDecisionUndone`, and `QueuedIsDecided` under fairness |
| `declarations` | a form and pipelines, one declaration, two versions of the preferences, two faults | `MarkerMeansLogged`, and `DeclaredIsLogged`, `NewestWins` under fairness |
| `drafts` | two saves, a clear, pipelines, one fault | `QuietSaveKept`, and `DraftIsLogged`, `PhoneAndServerAgree` under fairness |
| `plots` | two polygons of one name, one with an area the server rejects, a pipeline and a screen, no row or one without a client id, on the first plot's boundary or elsewhere, two faults | `NoDuplicateUpload`, and `EndUpLinkedApart` under fairness |

Why the bounds are enough. The lock: a hold is overtaken by at most a takeover
and a hand-off at once, so a displaced holder, its successor, a live waiter and
a dead one are four calls. The queue: a race needs two savers or a compaction
and a drain; a cap of one makes every second insertion overflow, and three rows
give duplicates of one key next to another key. Deliveries interact only through
the queue, its order and a voucher's window. `MaxFaults` counts lost answers,
failed fetches, server failures, lost rows and kills together; two allow a failure
during the recovery from another. Packages share nothing but vouchers, and the
properties speak of one package at a time: two requests suffice for every order
of two submits, a third reference shows a replacement after a retry, and one
package is enough. Consent: two grants and two requests are what it takes to have
two open grants, and two packages to have the voucher in one that counts and in
one that does not, created or linked on either side of a decision; replay, which
has a run of its own with faults and no packages, needs a decision, its repetition and another one in
between, three rows of one grant. Declarations and drafts: an old version and a
new one, sent in either order; a version held by a pipeline, one in the queue and
one on the phone are told apart by two versions and their absence. The bound on
rows is not reached there. Plots: only plots of one name can be taken for each
other, and two suffice; lists differ by one fetch that is older than a creation. An old row on the
boundary of `north`, the first of the two, is what one plot can be given and the
other refused for; one elsewhere refuses nothing.
Where a bound on rows, references, grants or transactions is reached the model
simply stops there, hence `CHECK_DEADLOCK FALSE`; `mutex` also ends when every
call has been made and has ended. In `queue_alone` and `harvest`, whose runs check
liveness, the bounds leave room for one more row than the faults can destroy.

`queue_alone` has no compacting screen and `harvest_overlap` no receipt page:
their properties do not hold with these (known limits).

Fairness. Mutex: time passes (`Tick`) and timers fire; work need never finish,
because a hung request is what the budgets are for. Queue, deliveries,
declarations, drafts and plots: a started drain, pipeline or call runs on unless
the app is killed, as every request it makes is answered or fails, and another
pipeline is started later (backup timer, connectivity, app state); the server ends
what it does not fail. Consent: the server serves what it received, the queue is
run again and the screen lists grants again. Screens are not fair where the code
leaves them to the farmer. Failures carry no fairness and are bounded, which says
that in the end the network holds.

## 4. Finding and known limits

The finding, `SyncedReceiptHasVoucher`: `HarvestService.create` inserts the
transaction and only then checks the buyer; a delivery queued for a buyer it
rejects has its replays answered `voucher: null` for ever. A failed insert does
the same. The run `harvest_voucher` gives the shortest counterexample.

Known limits: what the code does not promise, met while modelling, and therefore
not stated by any property. Each shaped a property or a bound.

Queue and deliveries
- Two compactions outside the lock plan against different attempts, keep
  different rows and delete each other's. `QueueLosesRow` is this loss; deliveries
  recover from it by their receipts, other kinds of rows have none.
- A receipt restored from a voucher by a screen while a pipeline holds an older
  voucher list is re-queued under the voucher's id and recorded as a second delivery.
- Re-queueing a delivery drops the recipient from the payload.
- When a post ends in a server error nothing is kept on the phone
  (`submitHarvest.ts:142`), although the server may have recorded the
  delivery; the farmer's second attempt is another one.
- "Sync now" on a receipt takes the voucher of the same plot and weight closest in
  time, perhaps another delivery's, and overwrites the QR the drain stored.
- The drain finds the plot of a delivery by name or by nearest area when there is
  no link (`resolveServerPlotIdForLocal`), so with a partial list it can file a
  delivery under another plot's row; the harvest pickers guess the same way
  (`mergeHarvestPlotOptions`), and label another plot's row when the plot without
  a row comes first.

Packages
- A draft left empty by a failure between `createDdsPackage`'s two inserts can be
  filed: only generating asks for a preflight, submitting
  (`harvest.service.ts:1321-1345`) does not. `EmptyNotGenerated` is therefore
  about artifacts.
- `submitDdsPackage` looks for a sealed shipment after it has recorded the
  submission as accepted: the retry of the refused request replays that and
  reports success unbilled.

Consent
- A new pending request after a revocation hides the sold lineage of the revoked
  grant, because the gate reads the row updated last.
- A package with vouchers of several farmers is filed under the first of their
  ids (`harvest.service.ts:845`), and the sold lineage is that of packages filed
  under the asked farmer (`consent-lineage-access.ts:90`). A revocation or denial
  of any other of them hides his vouchers in it, although
  `consent.service.ts:506` says that "batch-allocated vouchers remain".
  `SoldStaysReadable` promises nothing of such packages.
- What counts is the creation of the package, not the linking: vouchers linked
  after the revocation to a package created before it are sold all the same, and
  a package created in the very millisecond of the revocation is not. A denial
  has no date, so whatever is filed under the farmer stays readable after it,
  also what is sold later.
- A queued denial behind a queued approval of the same grant is rejected by the
  server when its turn comes.

Drafts and declarations
- A save of a draft that crosses a pipeline can be lost: the restore overwrites a
  newer save, a re-queue puts an old payload into the row, the row is deleted by
  id although its payload is newer, or the compaction keeps the newer row with
  the older payload. `QuietSaveKept` therefore speaks of saves that cross nothing.
- A cleared draft can come back: a walk saved offline after a logged clear is
  deleted on the phone by the first pipeline online (the restore precedes the
  drain) and returns with the next.
- Opening the walk screen and waiting 1.2 s without tapping "Resume" empties the
  draft.

Plots
- A failed fetch in the drain reconciles with no rows and clears every stored
  link, although `processPendingSyncQueue.ts:152` means to honour them. The next
  list restores them, which is what `EndUpLinkedApart` shows.
- `reconcileOrphanServerPlotLink` works on the list fetched before and does not
  look at what other plots were linked to; plots of one name are then linked to one row
  until the next sync, and for good when the PATCH that claims the row fails
  (`unclaimed`), while `plotServerLink.ts:158-160` allows one plot per row.
- The row of an old upload can cost a plot its own. With two polygons of one
  name and one such row, on the boundary of `north`, the reconciliation links
  `north` to it, so that the adoption has nothing to do for `north`
  (`plotServerSync.ts:67`) and claims the row for `south`, which has the same
  name; `north` must then be posted, and GEO-105 (`plots.service.ts:761-767`)
  refuses it for ever because of that row, with no fault at all. The gate also
  precedes the lookup of rows without a client id, so a POST of a polygon never
  claims the row of its own prior upload, for which
  `plots.service.ts:234` means it; only the phone's PATCH does.
  `EndUpLinkedApart` says that such a plot ends up linked to none.
- A row without a client id that appears while the phone's insertion is under
  way is a double nothing removes. A screen may link it without claiming it
  (`plotServerSync.ts:67` skips the PATCH when the link is there already), and
  links of plots of that name may then move between the two rows again and again.
- A plot whose declared area is refused (`plots.service.ts:935-943`) was stored
  before the 400; the retry finds it and reports success.

## 5. Proofs

Every theorem below is for all values of the constants that satisfy the modules'
ASSUMEs: any actors, keys, documents, packages and any bounds. The ASSUMEs say
that bounds are natural numbers, that sets of actors are finite where they are
counted and disjoint where they are told apart, and what a database or the code
guarantees of first states; TLC evaluates them in every run.

**Lock.** `SyncQueueMutexProofs`, for any finite set of calls, any budgets with
`OpMs < MaxHoldMs` and any phases: `TypeCorrect`, `LockNeverLeaked`
(`HolderIsLive`), `WakeupsNotLost`, `SnapshotAlwaysConsistent`,
`OverlapNeedsExpiredHold`, `FirstComeFirstServed` (`FifoGrants`) and
`FencedLockImplemented`.

None of these is inductive alone. `IInv` is the conjunction of the invariants with
two more facts. `TokensInv`: no token exceeds the counter, a call has none exactly
while it was never granted the lock, and a locked lock has a current one; so a
fresh token differs from all others and a displaced call's token never becomes
current again. `AgesInv`: the timer of the current holder equals the lock's age,
and a holder that is not current has outlived `MaxHoldMs`, since only a takeover
displaces a live one. The step lemma goes through the actions, with lemmas of its
own for the three ways a `finally` ends; `waiterCount` needs the cardinality of
the set of waiters before and after one call joins or leaves it. `FifoGrants`
needs `QueueInv`: whoever stands ahead in the queue has waited at least as long.
The refinement maps `FencedLock`'s holder to the only call with the current token,
its past to the calls with other tokens and its running calls to those between
grant and finally; the case that matters is `DisplacedEnds`, the end of a call
that is not the holder any more, which must leave holder and past alone.

**Queue.** `PendingSyncQueueProofs`, for any keys, savers, compacting screens,
drains, cap and rows: `TypeCorrect`, `RowsPerKeyBounded` (`DuplicatesBounded`),
`CapIsRestored` (`CapRestored`), `AcceptedIsKept` and `OneCompactorLosesNothing`
(`KeyNotForgotten`).

`IInv` says what a caller may remember across its awaits: rows whose id was handed
out and never given to another key. On it rest three invariants. `DuplicatesInv`
counts a key's rows together with the savers that have looked it up in vain and
are about to insert it. `CapInv`: for each saver that evicts there is a set of
savers that inserted after it counted, and what is left when its victims are gone
exceeds the cap by no more than these; the sets are nested, so the last to return
leaves none. `KeptInv`: a key that was accepted is delivered, given up, or in a row
that no plan of a compaction is about to delete - a plan spares the first row
of a key in the code's order of preference, which exists as the rows are finite
and the order is strict (`FirstElement`).

`AcceptedIsKept` has the hypothesis `[]OneCompaction`, no two compactions under
way at once, and cannot do without: with a screen beside the drain TLC finds two
compactions that plan against different attempts and delete each other's keepers
(known limits). `OneCompactorLosesNothing` has none: it is for instances where one
screen or drain compacts, as in `queue_alone`, with any number of savers.

**Deliveries.** `HarvestSyncProofs`, for any deliveries, pipelines, screens and
faults: `TypeCorrect`, `EventOnce` (`EventRecordedOnce`), `SyncedIsRecorded`
(`SyncedReceiptOnServer`), `DeliveryKept` (`NoDeliveryLost`), `OneDeliveryKept`
(both, for one delivery), `QrIsOwn` (`QrIsOwnVoucher`), and `LedgerImplemented` and
`OneDeliveryLedger` (`ImplementsLedger`), `LedgerKeepsDeliveries` (`NoDeliveryLost`
from `ImplementsLedger` alone).

`IInv` (`TablesStayOk`) types what each actor remembers and adds what the code
relies on without saying so: every event in a table, a snapshot or a request
belongs to the delivery it is stored with (`Genuine`: the delivery's own, or that
of a receipt restored from one of its transactions); rows are unique by id and by
event; transactions are unique by id and event and a voucher has one; a request in
stage "inserted" has no voucher yet and is alone with its transaction, one in
stage "answered" has its transaction; and an actor waits for the answer to the
request it posted and no other (`WaitInv`). `TrustInv` (`TrustHolds`) follows the
flag of a receipt: when it is clear, in the table or in what a pipeline has read
and will write back, the delivery is recorded; when the farmer was told, the
receipt is there; and a QR comes from the receipt's own event, from the voucher it
was restored from, or from one that looks like it.

The last alternative needs a hypothesis in the theorems that depend on it. The page of a receipt takes
a voucher for the delivery's by plot, weight and two hours, so with two deliveries
of one plot, one pipeline and one screen TLC finds `NoDeliveryLost` and
`SyncedReceiptOnServer` violated (known limits). The theorems say that nothing else
can break them: `[]LooksAreOwn` (a voucher looks only like the delivery it was made
for) is true when there is one delivery, which `OneDeliveryKept` proves, and when
no such page is opened (`Screens = {}`), with any number of overlapping pipelines.
`LooksAreOwnEvent` is its counterpart for `QrIsOwn`.

`DeliveryLedger` says what all of this is for, without queue, receipts, requests or
pipelines: `Told` are the deliveries the farmer was told are recorded or queued,
`Held` those that no transaction has and the phone still does, in the queue or in a
pending receipt; the ledger is the table of transactions, and of the vouchers the
mapping keeps the ids. A delivery enters the ledger once per client event and leaves
`Held` by that; it may be lost only before the farmer was told of it; a voucher is
issued once, for an entry. The proof goes by what a step touches: the rows and
receipts of one client event (`Touches`), so it changes whether the phone holds one
delivery and no other (`PhoneStep`), and `NoDeliveryLost` afterwards says that this
is no loss if the farmer was told. An answer to the farmer is a `Tell` because a
delivery being saved as synced is recorded (`TrustInv`) and one being submitted has
no answer yet (`BusyInv`). `ImplementsLedger` implies `NoDeliveryLost`
(`LedgerKeepsDeliveries`), which the run `harvest` checks for itself, with a screen
and more faults.

**Packages.** `DdsPackagesProofs`, for any vouchers, keys, clients, packages and
references: `TypeCorrect`, `ReferenceStands` (`ReferenceIsStable`) and
`NoEmptyPackageGenerated` (`EmptyNotGenerated`). Three parts: what a request remembers
follows from its stage; for a package whose submissions did not overlap
(`AgreedOn`) at most one request is between minting a reference and recording it,
and audit rows, later stages and answers carry the recorded one; and a package has
vouchers from the preflight on, since nothing takes them out.

**Consent.** `ConsentGrantsProofs`, for any numbers of grants, queued rows,
requests and faults and any vouchers: `TypeCorrect`, `GateIsTheFarmers`
(`GateFollowsFarmer`), `OneGrantIsOpen` (`OneOpenGrant`), `DecisionsStand`
(`NoDecisionUndone`) and `SoldLineageSurvives` (`SoldStaysReadable`).

Grants are only moved by `Apply` and inserted by `InsertGrant` (`ApplyMoves`,
`InsertMoves`, `OnlyTwoMoves`), and either puts the grant last in the order of
updates, so what the gate reads is the grant of the last move; type correctness
carries that `order` lists exactly the grants that exist. `GateFollowsFarmer` is
inductive with that. `OneOpenGrant` is not: it needs `AskInv` - while no two
requests of the organisation overlapped, at most one is between its first and last
statement, and what it read still holds, since decisions only close grants - and
`OpenIsLast`: an open grant is the last updated. `SoldLineageSurvives` is about a
step: what is filed stays filed (`FiledStays`), and a revocation takes over every
package that exists and is older than the millisecond, so a voucher of a filed one
that was readable before the decision is in the lineage after it; steps of the
sale change no gate (`OnlySalesSell`).

**Declarations and drafts.** `AuditCallsProofs`, for any screens, versions, rows
and faults. First what both users of `AuditCalls` need: `ShapeInv` (what a call and
a drain carry at each step), `PostedInv` (a call or drain that is past its post has
its event in the log, which forgets none, as an event appended again only moves)
and `CallsInv` (types). Types need more than their statement: an id that a call has
found never comes to name a row of another kind (`FoundOk`; new ids are above all
in use), so an update leaves every row with a payload of its own kind; and attempts
never exceed the faults there were. With that, for `DeclarationSync` and any kinds,
`MarkerIsTrue` (`MarkerMeansLogged`) and `TypeCorrect`, whose `DocsInv` says that a
pipeline holds only versions that were saved.

`MappingDraft` has the same variables but for those of the walk, so the module
takes it with INSTANCE, its `run` as `restore`; `SameTerms`, `SameCalls` and
`SameDrain` say that its calls and drain are the ones above, and
`DraftsAssumption` repeats its ASSUMEs. `MappingDraftProofs` takes that proof back
to `MappingDraft` itself, with another INSTANCE and lemmas that the two mean the
same, and states its theorems. `TypeCorrect` (`TypeOK`) rests on `SavedInv` - no
version in a row, a call, a drain or the log is newer than the clock (`InUse`, which
no step but a save extends) - and so what a pipeline fetches
is not newer either. `QuietSaveStays` (`QuietSaveKept`) needs `QuietInv`: while the
quiet save is not logged, the draft on the phone is that save, or none if the log
ends with a clear; each kind has one row; whoever runs alone runs with the save's
payload; the row of the draft is stored, or a screen is on its way to store it; a
pipeline that has fetched holds no newer draft, so it writes none; and what a drain
deletes by id is no row of the draft, as sending that row would have logged it.

**Plots.** `PlotServerLinksProofs`, for any plots and names, first rows, pipelines,
screens and faults: `NoSecondRow` (`NoDuplicateUpload`). `RowsOk` is the invariant
of the table (`RowsStayOk`): a client id has one row, under its plot's name, and a
row without one is the only row of its name among those and this phone's. Lists
are `Past`: a row stays where it is, keeps its name, and changes its client id only
from none to one; so whatever an old list says to claim is still safe to claim.
A request about to insert a plot has seen no row to claim, and none appears
until it inserts. The overlap check only takes creations away
(`CheckGeometryKeeps`); the theorem holds for plots that are checked and plots
that are not.

The lemmas on sequences (what moving an element to the end, appending and
`RemoveAt` do to elements, type, last element and distinctness; that a bounded
non-empty set of places has a first and a last) open the modules that need them.

Every safety property that a passing run checks has its theorem. Only model-checked:
all liveness (fairness and ENABLED are out of the prover's reach). What coalescing
and planning do to a row, `Reconciled` and the other folds are computed by TLC only:
nothing is proved by induction over data.

## 6. Not modelled, and plan

The repository is mostly user interface (dashboard, demos, marketing, screens),
prose and single-row services; PROJECT.json gives the reason part by part. The
modelled code is a small share of all lines and the larger share of those in which
several actors or failures meet. What is left, in this order:

1. `FieldSync`: lock, pipeline and queue composed, shown to implement
   `DeliveryLedger` through `HarvestSync`.
2. `DdsPackages`: the canonical transitions of FEAT-006 against generating again
   and submitting without a preflight; vouchers claimed by two packages.
3. Backend: bulk import job states; integration status transitions; the hybrid
   logical clock with its monotonicity proved.
