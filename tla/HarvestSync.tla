---------------------------- MODULE HarvestSync ----------------------------
(***************************************************************************)
(* How a delivery reaches the server.  The farmer records it               *)
(* (features/harvest/submitHarvest.ts); a sync pipeline                    *)
(* (features/sync/runFieldSyncPipeline.ts) restores receipts from the      *)
(* server's vouchers, re-queues receipts the server seems to miss, queues  *)
(* receipts still pending, and drains the queue; a screen that lists the   *)
(* receipts restores them too, outside the sync lock                       *)
(* (features/harvest/buildDeliveryReceiptCatalog.ts), and the page of one  *)
(* receipt looks for its voucher (syncQueuedDeliveryReceipt.ts).  The      *)
(* server records                                                          *)
(* a transaction once per client event and then its voucher, in separate   *)
(* statements (tracebud-backend/src/harvest/harvest.service.ts).           *)
(*                                                                         *)
(* Every action is one stretch between two awaits of its actor, except     *)
(* that enqueuePendingSync is one step here: the awaits inside it are the  *)
(* subject of PendingSyncQueue, whose outcome for the queue - a row can    *)
(* vanish undelivered, to the cap or to a racing compaction - is the       *)
(* action QueueLosesRow.                                                   *)
(***************************************************************************)
EXTENDS Naturals, FiniteSets

CONSTANTS
  Deliveries,     \* the deliveries the farmer records: their recordedAt
  Pipelines,      \* sync pipelines that may run at a time
  Screens,        \* screens that load the receipt catalog or sync one receipt
  Nobody,         \* model value: the sender of a request nobody waits for
  PartialFetch,   \* TRUE: several farmer profiles, whose lists may fail one by one
  ServerCrashes,  \* TRUE: the server may fail between two statements of create
  MaxPasses,      \* passes of one drain
  MaxTransactions, MaxRows, MaxFaults \* bounds of the model

ASSUME ConstantsAssumption ==
  /\ Deliveries \subseteq Nat \ {0} /\ IsFiniteSet(Deliveries)
  /\ Deliveries \cap Pipelines = {} /\ (Deliveries \cup Pipelines) \cap Screens = {}
  /\ Nobody \notin Deliveries \cup Pipelines \cup Screens
  /\ PartialFetch \in BOOLEAN /\ ServerCrashes \in BOOLEAN
  /\ MaxPasses \in Nat \ {0}
  /\ {MaxTransactions, MaxRows, MaxFaults} \subseteq Nat

(* A client event id: "harvest-<plot>-<createdAt>" for a delivery, or the  *)
(* id of a voucher, which is the id of the receipt restored from it.       *)
Own(d) == [kind |-> "delivery", n |-> d]
Restored(v) == [kind |-> "voucher", n |-> v]
Vouchers == 1..MaxTransactions
Events == {Own(d) : d \in Deliveries} \cup {Restored(v) : v \in Vouchers}

NoQr == 0            \* qrCodeRef null; a voucher's QR is as good as its id
Recipients == {"buyer", "nobody"}

Actors == Deliveries \cup Pipelines \cup Screens

VARIABLES
  linked,        \* the plot has a server id (plot upload is not modelled here)
  receipts,      \* local_delivery_receipts
  rows,          \* pending_sync, its harvest actions
  nextRow,       \* AUTOINCREMENT of pending_sync
  submitted,     \* what the farmer was told of each delivery
  op,            \* what each actor is doing
  transactions,  \* server: harvest_transaction
  vouchers,      \* server: voucher
  requests,      \* POST /v1/harvest in progress
  faults         \* lost requests, failed fetches and crashes so far

device == <<linked, receipts, rows, nextRow, submitted, op>>
server == <<transactions, vouchers>>
vars == <<device, server, requests, faults>>

Receipt == [id : Events, delivery : Deliveries, qr : 0..MaxTransactions, pending : BOOLEAN]
QueueRow == [id : 1..MaxRows, event : Events, delivery : Deliveries, to : Recipients]
(* The voucher of a transaction has the transaction's number as its id;    *)
(* `near`: the deliveries within the two-hour window of its created_at.    *)
Transaction == [id : Vouchers, event : Events, delivery : Deliveries]
Voucher == [id : Vouchers, to : Recipients, near : SUBSET Deliveries]
Request == [by : Actors \cup {Nobody}, event : Events, delivery : Deliveries,
            to : Recipients, tx : 0..MaxTransactions, qr : 0..MaxTransactions,
            stage : {"sent", "inserted", "replay", "answered", "failed"}]

Idle == [pc |-> "idle"]
Pcs == {"idle", "posting", "saving", "queueing",
        "fetched", "restoring", "refetching", "reconciling", "requeueing",
        "flagread", "flagwrite", "collecting", "enqueueing", "startdrain",
        "draining", "updating", "deleting",
        "started", "syncing", "looking", "matched"}

TypeOK ==
  /\ linked \in BOOLEAN
  /\ receipts \subseteq Receipt
  /\ \A r, s \in receipts : r.id = s.id => r = s
  /\ rows \subseteq QueueRow
  /\ \A r, s \in rows : r.id = s.id \/ r.event = s.event => r = s
  /\ nextRow \in 1..(MaxRows + 1)
  /\ submitted \in [Deliveries -> {"no", "synced", "queued", "error", "interrupted"}]
  /\ DOMAIN op = Actors /\ \A a \in Actors : op[a].pc \in Pcs
  /\ transactions \subseteq Transaction /\ vouchers \subseteq Voucher
  /\ requests \subseteq Request
  /\ faults \in 0..MaxFaults

Init ==
  /\ linked \in BOOLEAN
  /\ receipts = {} /\ rows = {} /\ nextRow = 1
  /\ submitted = [d \in Deliveries |-> "no"]
  /\ op = [a \in Actors |-> Idle]
  /\ transactions = {} /\ vouchers = {} /\ requests = {}
  /\ faults = 0

Becomes(a, next) == op' = [op EXCEPT ![a] = next]
Fault == faults < MaxFaults /\ faults' = faults + 1
ReceiptOf(event) == {r \in receipts : r.id = event}

-----------------------------------------------------------------------------
(* Pieces the handlers share                                               *)

\* Coalescing dropped.
EnqueueAlways(event, delivery, to) ==
  /\ nextRow <= MaxRows
  /\ rows' = rows \cup {[id |-> nextRow, event |-> event, delivery |-> delivery, to |-> to]}
  /\ nextRow' = nextRow + 1

\* enqueuePendingSync: an existing row of the event takes the new payload.
Enqueue(event, delivery, to) ==
  LET same == {r \in rows : r.event = event}
  IN IF same # {}
       THEN /\ rows' = (rows \ same) \cup {[r EXCEPT !.to = to] : r \in same}
            /\ nextRow' = nextRow
       ELSE /\ nextRow <= MaxRows
            /\ rows' = rows \cup {[id |-> nextRow, event |-> event,
                                   delivery |-> delivery, to |-> to]}
            /\ nextRow' = nextRow + 1

\* postHarvestToBackend: the request leaves the device.
Post(a, event, delivery, to) ==
  requests' = requests \cup
    {[by |-> a, event |-> event, delivery |-> delivery, to |-> to,
      tx |-> 0, qr |-> NoQr, stage |-> "sent"]}

\* findSyncedVoucherForLoggedDelivery: by plot, weight and time.
LooksLike(delivery, v) == delivery \in v.near

\* findServerVoucherForLocalReceipt: by id, by QR, or by its looks.
Matches(receipt, v) ==
  receipt.id = Restored(v.id) \/ receipt.qr = v.id \/ LooksLike(receipt.delivery, v)

-----------------------------------------------------------------------------
(* The server: HarvestService.create                                       *)

\* The unique index missing.
ServerInsertAlways(q) ==
  /\ q.stage = "sent"
  /\ LET new == [id |-> Cardinality(transactions) + 1, event |-> q.event,
                 delivery |-> q.delivery]
     IN /\ new.id \in Vouchers
        /\ transactions' = transactions \cup {new}
        /\ requests' = (requests \ {q}) \cup
             {[q EXCEPT !.stage = "inserted", !.tx = new.id]}
  /\ UNCHANGED <<device, vouchers, faults>>

\* INSERT ... ON CONFLICT (farmer_id, client_event_id) DO NOTHING.
ServerInsert(q) ==
  /\ q.stage = "sent"
  /\ LET stored == {t \in transactions : t.event = q.event}
         new == [id |-> Cardinality(transactions) + 1, event |-> q.event,
                 delivery |-> q.delivery]
         tx == IF stored = {} THEN new ELSE CHOOSE t \in stored : TRUE
     IN /\ new.id \in Vouchers
        /\ transactions' = transactions \cup {tx}
        /\ requests' = (requests \ {q}) \cup
             {[q EXCEPT !.stage = IF stored = {} THEN "inserted" ELSE "replay",
                        !.tx = tx.id]}
  /\ UNCHANGED <<device, vouchers, faults>>

\* The statement met an insert of the same event still in flight: it waits,
\* inserts nothing, and its snapshot does not show the other's row either, so
\* it yields no row and reading tx.id throws.
ServerInsertRaces(q) ==
  /\ q.stage = "sent"
  /\ \E other \in requests : other.event = q.event /\ other.stage = "inserted"
  /\ requests' = (requests \ {q}) \cup {[q EXCEPT !.stage = "failed"]}
  /\ UNCHANGED <<device, server, faults>>

ServerReadVoucher(q) ==
  /\ q.stage = "replay"
  /\ requests' = (requests \ {q}) \cup
       {[q EXCEPT !.stage = "answered",
                  !.qr = IF \E v \in vouchers : v.id = q.tx THEN q.tx ELSE NoQr]}
  /\ UNCHANGED <<device, server, faults>>

ServerInsertVoucher(q) ==
  /\ q.stage = "inserted"
  /\ \E near \in SUBSET Deliveries :
       vouchers' = vouchers \cup {[id |-> q.tx, to |-> q.to, near |-> near]}
  /\ requests' = (requests \ {q}) \cup {[q EXCEPT !.stage = "answered", !.qr = q.tx]}
  /\ UNCHANGED <<device, transactions, faults>>

\* A query fails or the server dies between two statements: 500, or nothing.
ServerFails(q) ==
  /\ ServerCrashes /\ q.stage \in {"sent", "inserted", "replay"}
  /\ Fault
  /\ requests' = (requests \ {q}) \cup {[q EXCEPT !.stage = "failed"]}
  /\ UNCHANGED <<device, server>>

\* resolveVoucherDeliveryRecipient rejects the buyer (an unknown email, or no
\* active relationship) when the transaction is already inserted.
RecipientRefused(q) ==
  /\ q.stage = "inserted" /\ q.to = "buyer"
  /\ requests' = (requests \ {q}) \cup {[q EXCEPT !.stage = "failed"]}
  /\ UNCHANGED <<device, server, faults>>

\* Nobody waits for the answer any more.
OrphanEnds(q) ==
  /\ q.by = Nobody /\ q.stage \in {"answered", "failed"}
  /\ requests' = requests \ {q}
  /\ UNCHANGED <<device, server, faults>>

ServerStep ==
  \E q \in requests :
    \/ ServerInsert(q) \/ ServerInsertRaces(q)
    \/ ServerReadVoucher(q) \/ ServerInsertVoucher(q) \/ OrphanEnds(q)

\* What a waiting actor learns: the answer, a server error, or silence, in
\* which case the server may still be at work on the request.
Answered(a, q) == q.by = a /\ q.stage = "answered" /\ requests' = requests \ {q}
Refused(a, q) == q.by = a /\ q.stage = "failed" /\ requests' = requests \ {q}
Silence(a, q) ==
  /\ q.by = a /\ q.stage # "failed" /\ Fault
  /\ requests' = (requests \ {q}) \cup {[q EXCEPT !.by = Nobody]}

-----------------------------------------------------------------------------
(* submitHarvestRecord                                                     *)

\* With a server id for the plot the delivery is posted at once; the screen
\* may not know the id yet.
Submit(d) ==
  /\ submitted[d] = "no" /\ op[d] = Idle
  /\ \/ /\ linked
        /\ Post(d, Own(d), d, "buyer")
        /\ Becomes(d, [pc |-> "posting"])
     \/ Becomes(d, [pc |-> "queueing"]) /\ UNCHANGED requests
  /\ UNCHANGED <<linked, receipts, rows, nextRow, submitted, server, faults>>

SubmitAnswered(d) ==
  /\ op[d].pc = "posting"
  /\ \E q \in requests :
       /\ Answered(d, q)
       /\ Becomes(d, [pc |-> "saving", qr |-> q.qr, pending |-> FALSE])
  /\ UNCHANGED <<linked, receipts, rows, nextRow, submitted, server, faults>>

\* 'validation' and 'server' errors are shown; nothing is kept.
SubmitRefused(d) ==
  /\ op[d].pc = "posting"
  /\ \E q \in requests : Refused(d, q)
  /\ Becomes(d, Idle)
  /\ submitted' = [submitted EXCEPT ![d] = "error"]
  /\ UNCHANGED <<linked, receipts, rows, nextRow, server, faults>>

SubmitSilence(d) ==
  /\ op[d].pc = "posting"
  /\ \E q \in requests : Silence(d, q)
  /\ Becomes(d, [pc |-> "queueing"])
  /\ UNCHANGED <<linked, receipts, rows, nextRow, submitted, server>>

SubmitEnqueue(d) ==
  /\ op[d].pc = "queueing"
  /\ Enqueue(Own(d), d, "buyer")
  /\ Becomes(d, [pc |-> "saving", qr |-> NoQr, pending |-> TRUE])
  /\ UNCHANGED <<linked, receipts, submitted, server, requests, faults>>

\* The pending flag forgotten.
SubmitSaveSynced(d) ==
  /\ op[d].pc = "saving"
  /\ receipts' = (receipts \ ReceiptOf(Own(d))) \cup
       {[id |-> Own(d), delivery |-> d, qr |-> op[d].qr, pending |-> FALSE]}
  /\ submitted' = [submitted EXCEPT ![d] = IF op[d].pending THEN "queued" ELSE "synced"]
  /\ Becomes(d, Idle)
  /\ UNCHANGED <<linked, rows, nextRow, server, requests, faults>>

\* persistLocalDeliveryReceipt (INSERT OR REPLACE), and the answer to the farmer.
SubmitSave(d) ==
  /\ op[d].pc = "saving"
  /\ receipts' = (receipts \ ReceiptOf(Own(d))) \cup
       {[id |-> Own(d), delivery |-> d, qr |-> op[d].qr, pending |-> op[d].pending]}
  /\ submitted' = [submitted EXCEPT ![d] = IF op[d].pending THEN "queued" ELSE "synced"]
  /\ Becomes(d, Idle)
  /\ UNCHANGED <<linked, rows, nextRow, server, requests, faults>>

SubmitStep(d) ==
  \/ Submit(d) \/ SubmitAnswered(d) \/ SubmitRefused(d) \/ SubmitEnqueue(d) \/ SubmitSave(d)

-----------------------------------------------------------------------------
(* Restoring receipts: restoreLocalDeliveryReceiptsFromServer in a         *)
(* pipeline, buildDeliveryReceiptCatalog on a screen                       *)

\* fetchMergedServerVouchers: everything, or, when /vouchers/mine and some of
\* the per-profile lists fail, what the others returned.
Fetched(list) ==
  \/ list = vouchers /\ faults' = faults
  \/ PartialFetch /\ list # {} /\ Fault

Ready(a) == op[a].pc \in {"idle", "started"}

FetchVouchers(a) ==
  /\ Ready(a)
  /\ \E list \in SUBSET vouchers :
       Fetched(list) /\ Becomes(a, [pc |-> "fetched", list |-> list])
  /\ UNCHANGED <<linked, receipts, rows, nextRow, submitted, server, requests>>

\* Without a list a pipeline skips the restore, and reconciling asks again.
FetchFails(p) ==
  /\ p \in Pipelines /\ Ready(p) /\ Fault
  /\ Becomes(p, [pc |-> "refetching"])
  /\ UNCHANGED <<linked, receipts, rows, nextRow, submitted, server, requests>>

FetchAgain(p) ==
  /\ op[p].pc = "refetching"
  /\ \/ \E list \in SUBSET vouchers :
           Fetched(list) /\ Becomes(p, [pc |-> "reconciling", list |-> list])
     \/ Fault /\ Becomes(p, [pc |-> "collecting"])
  /\ UNCHANGED <<linked, receipts, rows, nextRow, submitted, server, requests>>

\* `existing` is read once: vouchers stored under their id or QR are skipped.
LoadExisting(a) ==
  /\ op[a].pc = "fetched"
  /\ LET missing == {v \in op[a].list : \A r \in receipts : r.id # Restored(v.id) /\ r.qr # v.id}
     IN Becomes(a, [pc |-> "restoring", list |-> op[a].list, todo |-> missing])
  /\ UNCHANGED <<linked, receipts, rows, nextRow, submitted, server, requests, faults>>

RestoreReceipt(a) ==
  /\ op[a].pc = "restoring"
  /\ \E v \in op[a].todo, t \in transactions :
       /\ t.id = v.id
       /\ receipts' = (receipts \ ReceiptOf(Restored(v.id))) \cup
            {[id |-> Restored(v.id), delivery |-> t.delivery, qr |-> v.id, pending |-> FALSE]}
       /\ Becomes(a, [op[a] EXCEPT !.todo = @ \ {v}])
  /\ UNCHANGED <<linked, rows, nextRow, submitted, server, requests, faults>>

RestoreDone(a) ==
  /\ op[a].pc = "restoring" /\ op[a].todo = {}
  /\ Becomes(a, IF a \in Screens THEN Idle ELSE [pc |-> "reconciling", list |-> op[a].list])
  /\ UNCHANGED <<linked, receipts, rows, nextRow, submitted, server, requests, faults>>

-----------------------------------------------------------------------------
(* reconcileUnuploadedLocalDeliveryReceipts                                *)

ListMissing(p) ==
  /\ op[p].pc = "reconciling"
  /\ Becomes(p, [pc |-> "requeueing",
                 todo |-> {r \in receipts : \A v \in op[p].list : ~Matches(r, v)}])
  /\ UNCHANGED <<linked, receipts, rows, nextRow, submitted, server, requests, faults>>

\* The new payload names no recipient: the receipt does not hold one.
Requeue(p) ==
  /\ op[p].pc = "requeueing"
  /\ \E r \in op[p].todo :
       /\ Enqueue(r.id, r.delivery, "nobody")
       /\ Becomes(p, [pc |-> "flagread", id |-> r.id, todo |-> op[p].todo \ {r}])
  /\ UNCHANGED <<linked, receipts, submitted, server, requests, faults>>

\* updateLocalDeliveryReceipt(id, { pendingSync: true }) reads the row ...
FlagRead(p) ==
  /\ op[p].pc = "flagread"
  /\ \E r \in ReceiptOf(op[p].id) :
       Becomes(p, [pc |-> "flagwrite", read |-> r, todo |-> op[p].todo])
  /\ UNCHANGED <<linked, receipts, rows, nextRow, submitted, server, requests, faults>>

\* ... and writes all of it back.
FlagWrite(p) ==
  /\ op[p].pc = "flagwrite"
  /\ receipts' = (receipts \ ReceiptOf(op[p].read.id)) \cup
       {[op[p].read EXCEPT !.pending = TRUE]}
  /\ Becomes(p, [pc |-> "requeueing", todo |-> op[p].todo])
  /\ UNCHANGED <<linked, rows, nextRow, submitted, server, requests, faults>>

ReconcileDone(p) ==
  /\ op[p].pc = "requeueing" /\ op[p].todo = {}
  /\ Becomes(p, [pc |-> "collecting"])
  /\ UNCHANGED <<linked, receipts, rows, nextRow, submitted, server, requests, faults>>

-----------------------------------------------------------------------------
(* enqueuePlotDependentSyncActions                                         *)

\* Only for linked plots, and only pending receipts without a QR.
Collect(p) ==
  /\ op[p].pc = "collecting"
  /\ LET waiting == {r \in receipts : /\ r.pending /\ r.qr = NoQr
                                      /\ \A row \in rows : row.event # r.id}
     IN Becomes(p, [pc |-> "enqueueing", todo |-> IF linked THEN waiting ELSE {}])
  /\ UNCHANGED <<linked, receipts, rows, nextRow, submitted, server, requests, faults>>

EnqueuePending(p) ==
  /\ op[p].pc = "enqueueing"
  /\ \E r \in op[p].todo :
       /\ Enqueue(r.id, r.delivery, "nobody")
       /\ Becomes(p, [pc |-> "enqueueing", todo |-> op[p].todo \ {r}])
  /\ UNCHANGED <<linked, receipts, submitted, server, requests, faults>>

\* The drain skipped for good.
EnqueueOnly(p) ==
  /\ op[p].pc = "enqueueing" /\ op[p].todo = {}
  /\ Becomes(p, Idle)
  /\ UNCHANGED <<linked, receipts, rows, nextRow, submitted, server, requests, faults>>

\* The drain is skipped while plots are missing on the server.
EnqueueDone(p) ==
  /\ op[p].pc = "enqueueing" /\ op[p].todo = {}
  /\ \/ Becomes(p, [pc |-> "startdrain", pass |-> 1])
     \/ ~linked /\ Becomes(p, Idle)
  /\ UNCHANGED <<linked, receipts, rows, nextRow, submitted, server, requests, faults>>

-----------------------------------------------------------------------------
(* drainPendingSyncQueueForManualSync: passes of processPendingSyncQueue   *)

LoadSnapshot(p) ==
  /\ op[p].pc = "startdrain"
  /\ Becomes(p, [pc |-> "draining", todo |-> rows, pass |-> op[p].pass, progress |-> FALSE])
  /\ UNCHANGED <<linked, receipts, rows, nextRow, submitted, server, requests, faults>>

\* The row the pass has come to, in the order of insertion.
Current(p) == {r \in op[p].todo : \A s \in op[p].todo : r.id <= s.id}

PostRow(p) ==
  /\ op[p].pc = "draining" /\ linked
  /\ \E r \in Current(p) :
       /\ Post(p, r.event, r.delivery, r.to)
       /\ Becomes(p, [op[p] EXCEPT !.pc = "posting"])
  /\ UNCHANGED <<linked, receipts, rows, nextRow, submitted, server, faults>>

NextRow(p) ==
  Becomes(p, [op[p] EXCEPT !.pc = "draining", !.todo = @ \ Current(p)])

\* "Plot not on server yet": the attempt is marked, the row stays.
SkipRow(p) ==
  /\ op[p].pc = "draining" /\ ~linked /\ op[p].todo # {}
  /\ NextRow(p)
  /\ UNCHANGED <<linked, receipts, rows, nextRow, submitted, server, requests, faults>>

RowAnswered(p) ==
  /\ op[p].pc = "posting"
  /\ \E q \in requests :
       /\ Answered(p, q)
       /\ Becomes(p, [pc |-> "updating", todo |-> op[p].todo, pass |-> op[p].pass,
                      progress |-> op[p].progress, qr |-> q.qr])
  /\ UNCHANGED <<linked, receipts, rows, nextRow, submitted, server, faults>>

\* A failure taken for an answer without a voucher.
RowFailedUnnoticed(p) ==
  /\ op[p].pc = "posting"
  /\ \E q \in requests : (Refused(p, q) /\ faults' = faults) \/ Silence(p, q)
  /\ Becomes(p, [pc |-> "updating", todo |-> op[p].todo, pass |-> op[p].pass,
                 progress |-> op[p].progress, qr |-> NoQr])
  /\ UNCHANGED <<linked, receipts, rows, nextRow, submitted, server>>

\* Any error: the attempt is marked, the row stays for a later pass.
RowFailed(p) ==
  /\ op[p].pc = "posting"
  /\ \E q \in requests : (Refused(p, q) /\ faults' = faults) \/ Silence(p, q)
  /\ NextRow(p)
  /\ UNCHANGED <<linked, receipts, rows, nextRow, submitted, server>>

\* The WHERE clause missing.
UpdateEveryReceipt(p) ==
  /\ op[p].pc = "updating"
  /\ receipts' = {[r EXCEPT !.qr = op[p].qr, !.pending = FALSE] : r \in receipts}
  /\ Becomes(p, [pc |-> "deleting", todo |-> op[p].todo, pass |-> op[p].pass])
  /\ UNCHANGED <<linked, rows, nextRow, submitted, server, requests, faults>>

\* updateLocalDeliveryReceipt(clientEventId, { qrCodeRef, pendingSync: false }):
\* every field the model has is overwritten; without a receipt, nothing is.
UpdateReceipt(p) ==
  /\ op[p].pc = "updating"
  /\ \E row \in Current(p) :
       receipts' = (receipts \ ReceiptOf(row.event)) \cup
         {[r EXCEPT !.qr = op[p].qr, !.pending = FALSE] : r \in ReceiptOf(row.event)}
  /\ Becomes(p, [pc |-> "deleting", todo |-> op[p].todo, pass |-> op[p].pass])
  /\ UNCHANGED <<linked, rows, nextRow, submitted, server, requests, faults>>

DeleteRow(p) ==
  /\ op[p].pc = "deleting"
  /\ rows' = {r \in rows : \A row \in Current(p) : r.id # row.id}
  /\ Becomes(p, [pc |-> "draining", todo |-> op[p].todo \ Current(p),
                 pass |-> op[p].pass, progress |-> TRUE])
  /\ UNCHANGED <<linked, receipts, nextRow, submitted, server, requests, faults>>

PassDone(p) ==
  /\ op[p].pc = "draining" /\ op[p].todo = {}
  /\ Becomes(p, IF op[p].progress /\ op[p].pass < MaxPasses
                  THEN [pc |-> "startdrain", pass |-> op[p].pass + 1] ELSE Idle)
  /\ UNCHANGED <<linked, receipts, rows, nextRow, submitted, server, requests, faults>>

-----------------------------------------------------------------------------
(* syncQueuedDeliveryReceipt: "Sync now" on the page of one receipt        *)

\* The page holds a receipt without a QR, and starts a pipeline.
SyncReceipt(s) ==
  /\ op[s] = Idle
  /\ \E r \in receipts, p \in Pipelines :
       /\ r.qr = NoQr /\ r.id = Own(r.delivery) /\ op[p] = Idle
       /\ op' = [op EXCEPT ![p] = [pc |-> "started"],
                           ![s] = [pc |-> "syncing", delivery |-> r.delivery, pipeline |-> p]]
  /\ UNCHANGED <<linked, receipts, rows, nextRow, submitted, server, requests, faults>>

\* The pipeline is over, with or without rows left in the queue, or the page
\* gives up: no session, no plot list, the lock is busy or the budget is spent.
BackupEnds(s) ==
  /\ op[s].pc = "syncing"
  /\ \/ op[op[s].pipeline] = Idle
        /\ Becomes(s, [pc |-> "looking", delivery |-> op[s].delivery])
     \/ Becomes(s, Idle)
  /\ UNCHANGED <<linked, receipts, rows, nextRow, submitted, server, requests, faults>>

\* The voucher closest in time among those that look like the delivery.
MatchReceipt(s) ==
  /\ op[s].pc = "looking"
  /\ \E list \in SUBSET vouchers :
       /\ Fetched(list)
       /\ LET similar == {v \in list : LooksLike(op[s].delivery, v)}
          IN \/ similar = {} /\ Becomes(s, Idle)
             \/ \E v \in similar :
                  Becomes(s, [pc |-> "matched", delivery |-> op[s].delivery, qr |-> v.id])
  /\ UNCHANGED <<linked, receipts, rows, nextRow, submitted, server, requests>>

StoreMatch(s) ==
  /\ op[s].pc = "matched"
  /\ LET mine == ReceiptOf(Own(op[s].delivery))
     IN receipts' = (receipts \ mine) \cup
          {[r EXCEPT !.qr = op[s].qr, !.pending = FALSE] : r \in mine}
  /\ Becomes(s, Idle)
  /\ UNCHANGED <<linked, rows, nextRow, submitted, server, requests, faults>>

-----------------------------------------------------------------------------
(* The surroundings                                                        *)

LinkPlot ==
  /\ ~linked /\ linked' = TRUE
  /\ UNCHANGED <<receipts, rows, nextRow, submitted, op, server, requests, faults>>

QueueLosesRow ==
  /\ Fault
  /\ \E r \in rows : rows' = rows \ {r}
  /\ UNCHANGED <<linked, receipts, nextRow, submitted, op, server, requests>>

\* The app is killed; SQLite and whatever the server is doing survive.
Kill ==
  /\ Fault
  /\ op' = [a \in Actors |-> Idle]
  /\ submitted' = [d \in Deliveries |->
       IF op[d] # Idle THEN "interrupted" ELSE submitted[d]]
  /\ requests' = {[q EXCEPT !.by = Nobody] : q \in requests}
  /\ UNCHANGED <<linked, receipts, rows, nextRow, server>>

ReceiptPageStep(s) ==
  SyncReceipt(s) \/ BackupEnds(s) \/ MatchReceipt(s) \/ StoreMatch(s)

RestoreStep(a) ==
  FetchVouchers(a) \/ LoadExisting(a) \/ RestoreReceipt(a) \/ RestoreDone(a)

PipelineStep(p) ==
  \/ RestoreStep(p) \/ FetchAgain(p)
  \/ ListMissing(p) \/ Requeue(p) \/ FlagRead(p) \/ FlagWrite(p) \/ ReconcileDone(p)
  \/ Collect(p) \/ EnqueuePending(p) \/ EnqueueDone(p)
  \/ LoadSnapshot(p) \/ PostRow(p) \/ SkipRow(p) \/ RowAnswered(p) \/ RowFailed(p)
  \/ UpdateReceipt(p) \/ DeleteRow(p) \/ PassDone(p)

Next ==
  \/ \E d \in Deliveries : SubmitStep(d) \/ SubmitSilence(d)
  \/ \E s \in Screens : RestoreStep(s) \/ ReceiptPageStep(s)
  \/ \E p \in Pipelines : PipelineStep(p) \/ FetchFails(p)
  \/ ServerStep \/ \E q \in requests : ServerFails(q) \/ RecipientRefused(q)
  \/ LinkPlot \/ QueueLosesRow \/ Kill

Spec == Init /\ [][Next]_vars

(* Pipelines are started again and again (connectivity, app state, backup  *)
(* timer and "Sync now"), a started one runs on unless the app is killed,  *)
(* the server answers what it does not fail, and faults are bounded.       *)
Fairness == WF_vars(ServerStep) /\ \A p \in Pipelines : WF_vars(PipelineStep(p))

FairSpec == Spec /\ Fairness

-----------------------------------------------------------------------------
(* Properties                                                              *)

Recorded(d) == \E t \in transactions : t.delivery = d

(* What the farmer was told is recorded is on the server, or queued, or    *)
(* kept in a receipt that is still pending and will be queued again: no    *)
(* lost answer, kill, eviction or overlapping pipeline loses a delivery.   *)
NoDeliveryLost ==
  \A d \in Deliveries :
    submitted[d] \in {"synced", "queued"} =>
      \/ Recorded(d)
      \/ \E r \in rows : r.event = Own(d)
      \/ \E r \in receipts : r.id = Own(d) /\ r.pending

(* The same, step by step, and for the server's side: no delivery leaves   *)
(* the phone but for the ledger, which only grows, by one transaction per  *)
(* client event, and issues vouchers for its transactions alone.           *)
Told == {d \in Deliveries : submitted[d] \in {"synced", "queued"}}
Held ==
  {d \in Deliveries :
     /\ ~Recorded(d)
     /\ \/ \E r \in rows : r.event = Own(d)
        \/ \E r \in receipts : r.id = Own(d) /\ r.pending}
Ledger ==
  INSTANCE DeliveryLedger WITH Entries <- Transaction, told <- Told, held <- Held,
                               ledger <- transactions, issued <- {v.id : v \in vouchers}
ImplementsLedger == Ledger!Spec

(* A receipt shown as synced is one the server has a transaction for.      *)
SyncedReceiptOnServer ==
  \A r \in receipts : ~r.pending => Recorded(r.delivery)

(* "server-idempotent via the (farmer_id, client_event_id) UNIQUE          *)
(* constraint" (processPendingSyncQueue.ts:269): however often a row is    *)
(* posted, its client event is one transaction with at most one voucher.   *)
EventRecordedOnce ==
  /\ \A t, u \in transactions : t.event = u.event => t = u
  /\ \A v, w \in vouchers : v.id = w.id => v = w

(* A QR shown for a receipt is the voucher of its own client event, or the *)
(* voucher it was restored from.                                           *)
QrIsOwnVoucher ==
  \A r \in receipts : r.qr # NoQr =>
    \E t \in transactions, v \in vouchers :
      t.id = r.qr /\ v.id = r.qr /\ t.delivery = r.delivery
      /\ (t.event = r.id \/ r.id = Restored(v.id))

(* "return the existing voucher tied to that transaction"                  *)
(* (harvest.service.ts:334): a synced receipt has the QR of its voucher.   *)
SyncedReceiptHasVoucher ==
  \A r \in receipts : ~r.pending => r.qr # NoQr

(* A delivery the farmer was told is queued reaches the server once its    *)
(* plot has, whatever was killed, evicted or left unanswered before.       *)
QueuedIsRecorded ==
  \A d \in Deliveries : linked /\ submitted[d] = "queued" ~> Recorded(d)
=============================================================================
