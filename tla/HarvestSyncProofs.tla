------------------------- MODULE HarvestSyncProofs -------------------------
(***************************************************************************)
(* That deliveries are recorded once and are not lost, and so implement    *)
(* DeliveryLedger, for any number of deliveries, pipelines, screens,       *)
(* transactions, rows and faults.                                          *)
(***************************************************************************)
EXTENDS HarvestSync, FiniteSetTheorems, TLAPS

(* A client event belongs to one delivery.                                 *)
Genuine(event, d) ==
  \/ event = Own(d)
  \/ \E t \in transactions : event = Restored(t.id) /\ t.delivery = d

(* What the actors may remember: receipts and rows that are or once were   *)
(* in the tables, vouchers the server has.                                 *)
OwnedReceipts == {r \in Receipt : Genuine(r.id, r.delivery)}
KnownRows == {r \in QueueRow :
  /\ Genuine(r.event, r.delivery) /\ r.id < nextRow
  /\ \A s \in rows : s.id = r.id => s.event = r.event}
Snapshots == {todo \in SUBSET KnownRows : \A r, s \in todo : r.id = s.id => r = s}

\* A delivery.
Postings == [pc : {"posting", "queueing"}]
Savings == [pc : {"saving"}, qr : 0..MaxTransactions, pending : BOOLEAN]

\* A pipeline or a screen that restores receipts.
Listings == [pc : {"fetched", "reconciling"}, list : SUBSET vouchers]
Restorings == [pc : {"restoring"}, list : SUBSET vouchers, todo : SUBSET vouchers]

\* The page of a receipt.
Syncings == [pc : {"syncing"}, delivery : Deliveries, pipeline : Pipelines]
Lookings == [pc : {"looking"}, delivery : Deliveries]
Matched == {o \in [pc : {"matched"}, delivery : Deliveries, qr : Vouchers] :
              \E v \in vouchers : v.id = o.qr /\ LooksLike(o.delivery, v)}

\* A pipeline.
Beginnings == [pc : {"started", "refetching", "collecting"}]
Queueings == [pc : {"requeueing", "enqueueing"}, todo : SUBSET OwnedReceipts]
FlagReads == [pc : {"flagread"}, id : Events, todo : SUBSET OwnedReceipts]
FlagWrites == [pc : {"flagwrite"}, read : OwnedReceipts, todo : SUBSET OwnedReceipts]
Starts == [pc : {"startdrain"}, pass : Nat]
Drainings == [pc : {"draining", "posting"}, todo : Snapshots, pass : Nat, progress : BOOLEAN]
Updatings == [pc : {"updating"}, todo : Snapshots, pass : Nat, progress : BOOLEAN,
              qr : 0..MaxTransactions]
Deletings == [pc : {"deleting"}, todo : Snapshots, pass : Nat]

SubmitStages == {Idle} \cup Postings \cup Savings
ScreenStages == {Idle} \cup Listings \cup Restorings \cup Syncings \cup Lookings \cup Matched
PipelineStages ==
  {Idle} \cup Beginnings \cup Listings \cup Restorings \cup Queueings \cup FlagReads
    \cup FlagWrites \cup Starts \cup Drainings \cup Updatings \cup Deletings
Stages(a) == IF a \in Deliveries THEN SubmitStages
             ELSE IF a \in Pipelines THEN PipelineStages ELSE ScreenStages

OpInv == op = [a \in Actors |-> op[a]] /\ \A a \in Actors : op[a] \in Stages(a)

ReceiptsInv ==
  /\ receipts \subseteq OwnedReceipts
  /\ \A r, s \in receipts : r.id = s.id => r = s

RowsInv ==
  /\ rows \subseteq KnownRows /\ nextRow \in 1..(MaxRows + 1)
  /\ \A r, s \in rows : r.id = s.id \/ r.event = s.event => r = s

(* Transactions are numbered, one per event; a voucher has one.            *)
ServerInv ==
  /\ transactions \subseteq Transaction /\ vouchers \subseteq Voucher
  /\ IsFiniteSet(transactions)
  /\ \A t \in transactions : t.id <= Cardinality(transactions) /\ Genuine(t.event, t.delivery)
  /\ \A t, u \in transactions : t.id = u.id \/ t.event = u.event => t = u
  /\ \A v \in vouchers : \E t \in transactions : t.id = v.id
  /\ \A v, w \in vouchers : v.id = w.id => v = w

Stored(q) == \E t \in transactions : t.id = q.tx /\ t.event = q.event /\ t.delivery = q.delivery

RequestsInv ==
  /\ requests \subseteq Request
  /\ \A q \in requests :
       /\ Genuine(q.event, q.delivery)
       /\ q.stage \in {"inserted", "replay", "answered"} => Stored(q)
       /\ q.stage = "inserted" => \A v \in vouchers : v.id # q.tx
       /\ q.stage = "answered" /\ q.qr # NoQr => q.qr = q.tx /\ \E v \in vouchers : v.id = q.tx
  /\ \A q, r \in requests :
       q.stage = "inserted" /\ r.stage = "inserted" /\ q.tx = r.tx => q = r

(* An actor waits for one answer, to what it posted.                       *)
WaitsFor(a, q) ==
  /\ op[a].pc = "posting"
  /\ a \in Deliveries => q.event = Own(a) /\ q.delivery = a
  /\ a \in Pipelines => \E r \in Current(a) : r.event = q.event /\ r.delivery = q.delivery

WaitInv ==
  /\ \A q \in requests : q.by # Nobody => WaitsFor(q.by, q)
  /\ \A q, r \in requests : q.by = r.by /\ q.by # Nobody => q = r

RestInv ==
  /\ linked \in BOOLEAN /\ faults \in 0..MaxFaults
  /\ submitted \in [Deliveries -> {"no", "synced", "queued", "error", "interrupted"}]

IInv == OpInv /\ ReceiptsInv /\ RowsInv /\ ServerInv /\ RequestsInv /\ WaitInv /\ RestInv

(* The page of a receipt takes a voucher that looks like the delivery for  *)
(* the delivery's own.                                                     *)
Alike(d, v) == Screens # {} /\ LooksLike(d, v)

SeemsRecorded(d) == Recorded(d) \/ \E v \in vouchers : Alike(d, v)

(* What is taken for recorded is, or seems to be, and what the farmer was  *)
(* told of has its receipt.                                                *)
RecordedInv ==
  /\ \A r \in receipts : ~r.pending => SeemsRecorded(r.delivery)
  /\ \A d \in Deliveries : op[d].pc = "saving" /\ ~op[d].pending => Recorded(d)
  /\ \A p \in Pipelines : op[p].pc = "updating" => \A r \in Current(p) : Recorded(r.delivery)
  /\ \A d \in Deliveries : submitted[d] \in {"synced", "queued"} =>
       \E r \in receipts : r.id = Own(d)

(* A QR on its way to a receipt is that of the receipt's voucher, or of    *)
(* one that looks like it.                                                 *)
QrOf(qr, event, d) ==
  qr # NoQr =>
    \E t \in transactions, v \in vouchers :
      /\ t.id = qr /\ v.id = qr
      /\ \/ t.delivery = d /\ (t.event = event \/ event = Restored(v.id))
         \/ event = Own(d) /\ Alike(d, v)

QrInv ==
  /\ \A r \in receipts : QrOf(r.qr, r.id, r.delivery)
  /\ \A d \in Deliveries : op[d].pc = "saving" => QrOf(op[d].qr, Own(d), d)
  /\ \A p \in Pipelines : op[p].pc = "updating" =>
       \A r \in Current(p) : QrOf(op[p].qr, r.event, r.delivery)
  /\ \A p \in Pipelines : op[p].pc = "flagwrite" =>
       QrOf(op[p].read.qr, op[p].read.id, op[p].read.delivery)

TrustInv == RecordedInv /\ QrInv

-----------------------------------------------------------------------------
(* What an actor remembers follows from its stage.                         *)
LEMMA SubmitShape ==
  ASSUME OpInv, NEW d \in Deliveries
  PROVE  /\ d \in Actors /\ op[d] \in SubmitStages /\ Stages(d) = SubmitStages
         /\ op[d].pc = "saving" => op[d] \in Savings
         /\ op[d].pc \in {"idle", "posting", "queueing", "saving"}
  BY DEF OpInv, Stages, SubmitStages, Idle, Postings, Savings, Actors

LEMMA PipelineShape ==
  ASSUME OpInv, NEW p \in Pipelines
  PROVE  /\ p \in Actors /\ op[p] \in PipelineStages /\ Stages(p) = PipelineStages
         /\ op[p].pc \in {"fetched", "reconciling"} => op[p] \in Listings
         /\ op[p].pc = "restoring" => op[p] \in Restorings
         /\ op[p].pc \in {"requeueing", "enqueueing"} => op[p] \in Queueings
         /\ op[p].pc = "flagread" => op[p] \in FlagReads
         /\ op[p].pc = "flagwrite" => op[p] \in FlagWrites
         /\ op[p].pc = "startdrain" => op[p] \in Starts
         /\ op[p].pc \in {"draining", "posting"} => op[p] \in Drainings
         /\ op[p].pc = "updating" => op[p] \in Updatings
         /\ op[p].pc = "deleting" => op[p] \in Deletings
  <1>1. p \in Actors /\ p \notin Deliveries
    BY ConstantsAssumption DEF Actors
  <1>2. op[p] \in PipelineStages /\ Stages(p) = PipelineStages
    BY <1>1 DEF OpInv, Stages
  <1>. QED
    BY <1>1, <1>2 DEF PipelineStages, Idle, Beginnings, Listings, Restorings, Queueings,
      FlagReads, FlagWrites, Starts, Drainings, Updatings, Deletings

LEMMA ScreenShape ==
  ASSUME OpInv, NEW s \in Screens
  PROVE  /\ s \in Actors /\ op[s] \in ScreenStages /\ Stages(s) = ScreenStages
         /\ op[s].pc = "fetched" => op[s] \in Listings
         /\ op[s].pc = "restoring" => op[s] \in Restorings
         /\ op[s].pc = "syncing" => op[s] \in Syncings
         /\ op[s].pc = "looking" => op[s] \in Lookings
         /\ op[s].pc = "matched" => op[s] \in Matched
         /\ op[s].pc # "posting"
  <1>1. s \in Actors /\ s \notin Deliveries /\ s \notin Pipelines
    BY ConstantsAssumption DEF Actors
  <1>2. op[s] \in ScreenStages /\ Stages(s) = ScreenStages
    BY <1>1 DEF OpInv, Stages
  <1>. QED
    BY <1>1, <1>2 DEF ScreenStages, Idle, Listings, Restorings, Syncings, Lookings, Matched

(* The event of a delivery says which it is.                               *)
LEMMA GenuineOne ==
  ASSUME ServerInv, NEW event, NEW d, NEW e, Genuine(event, d), Genuine(event, e)
  PROVE  d = e
  BY DEF ServerInv, Genuine, Own, Restored

(* What may be remembered grows with the server's tables.                  *)
LEMMA StagesGrow ==
  ASSUME transactions \subseteq transactions', vouchers \subseteq vouchers',
         KnownRows \subseteq KnownRows'
  PROVE  /\ OwnedReceipts \subseteq OwnedReceipts'
         /\ \A a : Stages(a) \subseteq Stages(a)'
  <1>1. OwnedReceipts \subseteq OwnedReceipts'
    BY DEF OwnedReceipts, Genuine
  <1>2. Snapshots \subseteq Snapshots'
    BY DEF Snapshots
  <1>3. Listings \subseteq Listings' /\ Restorings \subseteq Restorings'
    BY DEF Listings, Restorings
  <1>4. Matched \subseteq Matched'
    BY DEF Matched, LooksLike
  <1>5. /\ Queueings \subseteq Queueings' /\ FlagReads \subseteq FlagReads'
        /\ FlagWrites \subseteq FlagWrites'
    BY <1>1 DEF Queueings, FlagReads, FlagWrites
  <1>6. /\ Drainings \subseteq Drainings' /\ Updatings \subseteq Updatings'
        /\ Deletings \subseteq Deletings'
    BY <1>2 DEF Drainings, Updatings, Deletings
  <1>7. PipelineStages \subseteq PipelineStages'
    BY <1>3, <1>5, <1>6 DEF PipelineStages, Beginnings, Starts
  <1>8. ScreenStages \subseteq ScreenStages'
    BY <1>3, <1>4 DEF ScreenStages, Syncings, Lookings
  <1>9. SubmitStages \subseteq SubmitStages'
    BY DEF SubmitStages, Postings, Savings
  <1>. QED
    BY <1>1, <1>7, <1>8, <1>9 DEF Stages

LEMMA SameRowsKnown ==
  ASSUME transactions \subseteq transactions', UNCHANGED <<rows, nextRow>>
  PROVE  KnownRows \subseteq KnownRows' /\ (RowsInv => RowsInv')
  <1>1. KnownRows \subseteq KnownRows'
    BY DEF KnownRows, Genuine
  <1>. QED
    BY <1>1 DEF RowsInv

LEMMA FaultCounted ==
  ASSUME RestInv, Fault \/ faults' = faults
  PROVE  faults' \in 0..MaxFaults
  BY ConstantsAssumption DEF RestInv, Fault

-----------------------------------------------------------------------------
(* One actor goes on.                                                      *)

LEMMA Moved ==
  ASSUME OpInv, NEW a \in Actors, NEW next \in Stages(a)', Becomes(a, next),
         transactions \subseteq transactions', vouchers \subseteq vouchers',
         KnownRows \subseteq KnownRows'
  PROVE  OpInv' /\ \A b \in Actors : op'[b] = IF b = a THEN next ELSE op[b]
  <1>1. \A b \in Actors : op'[b] = IF b = a THEN next ELSE op[b]
    BY DEF OpInv, Becomes
  <1>2. op' = [b \in Actors |-> op'[b]]
    BY DEF OpInv, Becomes
  <1>3. \A b \in Actors : op'[b] \in Stages(b)'
    BY <1>1, StagesGrow DEF OpInv
  <1>. QED
    BY <1>1, <1>2, <1>3 DEF OpInv

(* The others wait on.                                                     *)
LEMMA OthersWait ==
  ASSUME OpInv, WaitInv, RequestsInv, NEW a \in Actors, NEW next, Becomes(a, next),
         NEW q \in requests, q.by # a, q.by # Nobody
  PROVE  WaitsFor(q.by, q)'
  <1>1. q.by \in Actors /\ WaitsFor(q.by, q)
    BY DEF RequestsInv, WaitInv, Request
  <1>2. op'[q.by] = op[q.by]
    BY <1>1 DEF OpInv, Becomes
  <1>. QED
    BY <1>1, <1>2 DEF WaitsFor, Current

LEMMA NobodyWaitsFor ==
  ASSUME WaitInv, NEW a \in Actors, op[a].pc # "posting"
  PROVE  \A q \in requests : q.by # a
  <1>1. a # Nobody
    BY ConstantsAssumption DEF Actors
  <1>. QED
    BY <1>1 DEF WaitInv, WaitsFor

LEMMA NoRequest ==
  ASSUME IInv, NEW a \in Actors, NEW next, Becomes(a, next),
         requests' \subseteq requests, \A q \in requests' : q.by # a
  PROVE  WaitInv'
  <1>1. \A q \in requests' : q.by # Nobody => WaitsFor(q.by, q)'
    BY OthersWait DEF IInv
  <1>. QED
    BY <1>1 DEF WaitInv, IInv

(* A step of an actor that asks the server for nothing.                    *)
LEMMA DeviceStep ==
  ASSUME IInv, NEW a \in Actors, op[a].pc # "posting",
         NEW next \in Stages(a)', Becomes(a, next),
         RowsInv', KnownRows \subseteq KnownRows', ReceiptsInv', RestInv',
         UNCHANGED <<server, requests>>
  PROVE  IInv'
  <1>1. OpInv'
    BY Moved DEF IInv, server
  <1>2. WaitInv'
    BY NobodyWaitsFor, NoRequest DEF IInv
  <1>3. ServerInv'
    BY DEF IInv, ServerInv, Genuine, server
  <1>4. RequestsInv'
    BY DEF IInv, RequestsInv, Genuine, Stored, server
  <1>. QED
    BY <1>1, <1>2, <1>3, <1>4 DEF IInv

(* ... that changes no table.                                              *)
LEMMA QuietStep ==
  ASSUME IInv, NEW a \in Actors, op[a].pc # "posting",
         NEW next \in Stages(a), Becomes(a, next), faults' \in 0..MaxFaults,
         UNCHANGED <<linked, receipts, rows, nextRow, submitted, server, requests>>
  PROVE  IInv'
  <1>1. RowsInv' /\ KnownRows \subseteq KnownRows'
    BY SameRowsKnown DEF IInv, server
  <1>2. next \in Stages(a)'
    BY <1>1, StagesGrow DEF server
  <1>3. ReceiptsInv'
    BY DEF IInv, ReceiptsInv, OwnedReceipts, Genuine, server
  <1>4. RestInv'
    BY DEF IInv, RestInv
  <1>. QED
    BY <1>1, <1>2, <1>3, <1>4, DeviceStep

(* ... that changes receipts.                                              *)
LEMMA ReceiptStep ==
  ASSUME IInv, NEW a \in Actors, op[a].pc # "posting",
         NEW next \in Stages(a), Becomes(a, next), ReceiptsInv',
         submitted' \in [Deliveries -> {"no", "synced", "queued", "error", "interrupted"}],
         UNCHANGED <<linked, rows, nextRow, server, requests, faults>>
  PROVE  IInv'
  <1>1. RowsInv' /\ KnownRows \subseteq KnownRows'
    BY SameRowsKnown DEF IInv, server
  <1>2. next \in Stages(a)'
    BY <1>1, StagesGrow DEF server
  <1>3. RestInv'
    BY DEF IInv, RestInv
  <1>. QED
    BY <1>1, <1>2, <1>3, DeviceStep

(* ... that changes the queue.                                             *)
LEMMA QueueStep ==
  ASSUME IInv, NEW a \in Actors, op[a].pc # "posting",
         NEW next \in Stages(a), Becomes(a, next), RowsInv', KnownRows \subseteq KnownRows',
         UNCHANGED <<linked, receipts, submitted, server, requests, faults>>
  PROVE  IInv'
  <1>1. next \in Stages(a)'
    BY StagesGrow DEF server
  <1>2. ReceiptsInv'
    BY DEF IInv, ReceiptsInv, OwnedReceipts, Genuine, server
  <1>3. RestInv'
    BY DEF IInv, RestInv
  <1>. QED
    BY <1>1, <1>2, <1>3, DeviceStep

(* A receipt is written, or its QR and flag are.                           *)
LEMMA ReceiptWritten ==
  ASSUME ReceiptsInv, NEW new \in OwnedReceipts, UNCHANGED server,
         receipts' = (receipts \ ReceiptOf(new.id)) \cup {new}
  PROVE  ReceiptsInv'
  <1>1. OwnedReceipts' = OwnedReceipts
    BY DEF OwnedReceipts, Genuine, server
  <1>2. \A r \in receipts' : r = new \/ (r \in receipts /\ r.id # new.id)
    BY DEF ReceiptOf
  <1>. QED
    BY <1>1, <1>2 DEF ReceiptsInv

(* The receipt of an event gets a QR and is synced, the others stay.       *)
Marks(event, qr) ==
  /\ \A r \in receipts' :
       \/ r \in receipts /\ r.id # event
       \/ \E old \in receipts :
            /\ old.id = event /\ r.id = event /\ r.delivery = old.delivery
            /\ r.qr = qr /\ r.pending = FALSE
  /\ \A r \in receipts : \E new \in receipts' : new.id = r.id

LEMMA ReceiptMarked ==
  ASSUME ReceiptsInv, NEW event, NEW qr \in 0..MaxTransactions, UNCHANGED server,
         receipts' = (receipts \ ReceiptOf(event)) \cup
                       {[r EXCEPT !.qr = qr, !.pending = FALSE] : r \in ReceiptOf(event)}
  PROVE  /\ ReceiptsInv'
         /\ Marks(event, qr)
  <1>1. OwnedReceipts' = OwnedReceipts
    BY DEF OwnedReceipts, Genuine, server
  <1>2. ASSUME NEW old \in OwnedReceipts, NEW r, r = [old EXCEPT !.qr = qr, !.pending = FALSE]
        PROVE  /\ r \in OwnedReceipts /\ r.id = old.id /\ r.delivery = old.delivery
               /\ r.qr = qr /\ r.pending = FALSE
    BY <1>2 DEF OwnedReceipts, Receipt
  <1>3. ASSUME NEW r \in receipts'
        PROVE  \/ r \in receipts /\ r.id # event
               \/ \E old \in receipts :
                    /\ r = [old EXCEPT !.qr = qr, !.pending = FALSE] /\ old.id = event
    BY DEF ReceiptOf
  <1>. DEFINE Mark(old) == [old EXCEPT !.qr = qr, !.pending = FALSE]
  <1>4. ASSUME NEW r \in receipts'
        PROVE  \/ r \in receipts /\ r.id # event
               \/ \E old \in receipts :
                    /\ old.id = event /\ r.id = event /\ r.delivery = old.delivery
                    /\ r.qr = qr /\ r.pending = FALSE /\ r \in OwnedReceipts /\ r = Mark(old)
    <2>1. CASE \E old \in receipts : r = Mark(old) /\ old.id = event
      <3>1. PICK old \in receipts : r = Mark(old) /\ old.id = event
        BY <2>1
      <3>2. old \in OwnedReceipts
        BY DEF ReceiptsInv
      <3>3. /\ r \in OwnedReceipts /\ r.id = old.id /\ r.delivery = old.delivery
            /\ r.qr = qr /\ r.pending = FALSE
        BY <1>2, <3>1, <3>2
      <3>. HIDE DEF Mark
      <3>. QED
        BY <3>1, <3>3
    <2>. QED
      BY <1>3, <2>1
  <1>. HIDE DEF Mark
  <1>5. receipts' \subseteq OwnedReceipts
    BY <1>4 DEF ReceiptsInv
  <1>6. ASSUME NEW r \in receipts', NEW s \in receipts', r.id = s.id PROVE r = s
    <2>1. CASE r.id # event
      BY <1>4, <1>6, <2>1 DEF ReceiptsInv
    <2>2. CASE r.id = event
      <3>1. PICK old \in receipts : old.id = event /\ r = Mark(old)
        BY <1>4, <2>2
      <3>2. PICK other \in receipts : other.id = event /\ s = Mark(other)
        BY <1>4, <1>6, <2>2
      <3>. QED
        BY <3>1, <3>2 DEF ReceiptsInv
    <2>. QED
      BY <2>1, <2>2
  <1>7. ASSUME NEW r \in receipts PROVE \E new \in receipts' : new.id = r.id
    <2>1. CASE r.id # event
      BY <2>1 DEF ReceiptOf
    <2>2. CASE r.id = event
      <3>1. PICK new : new = [r EXCEPT !.qr = qr, !.pending = FALSE]
        OBVIOUS
      <3>2. new \in receipts'
        BY <2>2, <3>1 DEF ReceiptOf
      <3>3. new.id = r.id
        BY <1>2, <3>1 DEF ReceiptsInv
      <3>. QED
        BY <3>2, <3>3
    <2>. QED
      BY <2>1, <2>2
  <1>. QED
    BY <1>1, <1>4, <1>5, <1>6, <1>7 DEF ReceiptsInv, Marks

(* enqueuePendingSync keeps what is queued, and one row per event.         *)
LEMMA Enqueued ==
  ASSUME IInv, NEW event \in Events, NEW d \in Deliveries, Genuine(event, d),
         NEW to \in Recipients, Enqueue(event, d, to), UNCHANGED server
  PROVE  RowsInv' /\ KnownRows \subseteq KnownRows'
  <1>. DEFINE same == {r \in rows : r.event = event}
  <1>1. \A e, f : Genuine(e, f)' <=> Genuine(e, f)
    BY DEF Genuine, server
  <1>2. /\ nextRow \in 1..(MaxRows + 1) /\ MaxRows \in Nat /\ rows \subseteq QueueRow
        /\ \A r \in rows : r.id < nextRow /\ r.id \in Nat
    BY ConstantsAssumption DEF IInv, RowsInv, KnownRows, QueueRow
  <1>3. CASE same # {}
    <2>1. /\ rows' = (rows \ same) \cup {[r EXCEPT !.to = to] : r \in same}
          /\ nextRow' = nextRow
      BY <1>3 DEF Enqueue
    <2>2. ASSUME NEW old \in rows, NEW r, r = [old EXCEPT !.to = to]
          PROVE  r \in QueueRow /\ r.id = old.id /\ r.event = old.event /\ r.delivery = old.delivery
      BY <1>2, <2>2 DEF QueueRow
    <2>3. \A r \in rows' :
            \/ r \in rows /\ r.event # event
            \/ \E old \in rows : /\ old.event = event /\ r = [old EXCEPT !.to = to]
                                /\ r \in QueueRow /\ r.id = old.id /\ r.event = old.event
                                /\ r.delivery = old.delivery
      BY <2>1, <2>2
    <2>4. \A r, s \in rows' : r.id = s.id \/ r.event = s.event => r = s
      BY <2>3 DEF IInv, RowsInv
    <2>5. \A r \in rows' : \E old \in rows :
            r \in QueueRow /\ r.id = old.id /\ r.event = old.event /\ r.delivery = old.delivery
      BY <1>2, <2>3
    <2>6. KnownRows \subseteq KnownRows'
      BY <1>1, <2>1, <2>5 DEF KnownRows
    <2>7. rows' \subseteq KnownRows'
      BY <1>1, <2>1, <2>5 DEF IInv, RowsInv, KnownRows
    <2>. QED
      BY <2>1, <2>4, <2>6, <2>7 DEF IInv, RowsInv
  <1>4. CASE same = {}
    <2>. DEFINE new == [id |-> nextRow, event |-> event, delivery |-> d, to |-> to]
    <2>1. /\ nextRow <= MaxRows /\ nextRow' = nextRow + 1
          /\ rows' = rows \cup {new}
      BY <1>4 DEF Enqueue
    <2>2. /\ new \in QueueRow /\ new.id = nextRow /\ new.event = event /\ new.delivery = d
      BY <1>2, <2>1 DEF QueueRow
    <2>. HIDE DEF new
    <2>3. \A r, s \in rows' : r.id = s.id \/ r.event = s.event => r = s
      BY <1>2, <1>4, <2>1, <2>2 DEF IInv, RowsInv
    <2>4. \A r \in KnownRows : r.id < nextRow /\ r.id \in Nat
      BY <1>2 DEF KnownRows, QueueRow
    <2>5. KnownRows \subseteq KnownRows'
      BY <1>1, <1>2, <2>1, <2>2, <2>4 DEF KnownRows
    <2>6. new \in KnownRows'
      BY <1>1, <1>2, <2>1, <2>2 DEF KnownRows
    <2>. QED
      BY <1>2, <2>1, <2>3, <2>5, <2>6 DEF IInv, RowsInv
  <1>. QED
    BY <1>3, <1>4

-----------------------------------------------------------------------------
(* Restoring receipts                                                      *)

LEMMA RestorerShape ==
  ASSUME OpInv, NEW a \in Pipelines \cup Screens
  PROVE  /\ a \in Actors /\ {Idle} \cup Listings \cup Restorings \subseteq Stages(a)
         /\ op[a].pc = "fetched" => op[a] \in Listings
         /\ op[a].pc = "restoring" => op[a] \in Restorings
  <1>1. CASE a \in Pipelines
    BY <1>1, PipelineShape DEF PipelineStages
  <1>2. CASE a \in Screens
    BY <1>2, ScreenShape DEF ScreenStages
  <1>. QED
    BY <1>1, <1>2

LEMMA FetchVouchersKeeps ==
  ASSUME IInv, NEW a \in Pipelines \cup Screens, FetchVouchers(a)
  PROVE  IInv'
  <1>1. PICK list \in SUBSET vouchers :
          Fetched(list) /\ Becomes(a, [pc |-> "fetched", list |-> list])
    BY DEF FetchVouchers
  <1>2. PICK next : next = [pc |-> "fetched", list |-> list]
    OBVIOUS
  <1>3. next \in Listings
    BY <1>2 DEF Listings
  <1>4. faults' \in 0..MaxFaults
    BY <1>1, FaultCounted DEF Fetched, IInv
  <1>5. a \in Actors /\ next \in Stages(a) /\ op[a].pc # "posting"
    BY <1>3, RestorerShape DEF FetchVouchers, Ready, IInv
  <1>. QED
    BY <1>1, <1>2, <1>4, <1>5, QuietStep DEF FetchVouchers

LEMMA FetchFailsKeeps ==
  ASSUME IInv, NEW p \in Pipelines, FetchFails(p)
  PROVE  IInv'
  <1>1. PICK next : next = [pc |-> "refetching"]
    OBVIOUS
  <1>2. p \in Actors /\ next \in Stages(p)
    BY <1>1, PipelineShape DEF IInv, PipelineStages, Beginnings
  <1>3. faults' \in 0..MaxFaults /\ op[p].pc # "posting" /\ Becomes(p, next)
    BY <1>1, FaultCounted DEF FetchFails, Ready, IInv
  <1>. QED
    BY <1>2, <1>3, QuietStep DEF FetchFails

LEMMA FetchAgainKeeps ==
  ASSUME IInv, NEW p \in Pipelines, FetchAgain(p)
  PROVE  IInv'
  <1>1. PICK next \in Listings \cup Beginnings : Becomes(p, next)
    <2>1. \/ \E list \in SUBSET vouchers : Becomes(p, [pc |-> "reconciling", list |-> list])
          \/ Becomes(p, [pc |-> "collecting"])
      BY DEF FetchAgain
    <2>. QED
      BY <2>1 DEF Listings, Beginnings
  <1>2. faults' \in 0..MaxFaults
    <2>1. Fault \/ faults' = faults
      BY DEF FetchAgain, Fetched
    <2>. QED
      BY <2>1, FaultCounted DEF IInv
  <1>3. p \in Actors /\ next \in Stages(p) /\ op[p].pc # "posting"
    BY PipelineShape DEF IInv, PipelineStages, FetchAgain
  <1>. QED
    BY <1>1, <1>2, <1>3, QuietStep DEF FetchAgain

LEMMA LoadExistingKeeps ==
  ASSUME IInv, NEW a \in Pipelines \cup Screens, LoadExisting(a)
  PROVE  IInv'
  <1>1. op[a] \in Listings
    BY RestorerShape DEF LoadExisting, IInv
  <1>2. PICK missing \in SUBSET op[a].list :
          Becomes(a, [pc |-> "restoring", list |-> op[a].list, todo |-> missing])
    BY DEF LoadExisting
  <1>3. PICK next : next = [pc |-> "restoring", list |-> op[a].list, todo |-> missing]
    OBVIOUS
  <1>4. next \in Restorings
    BY <1>1, <1>3 DEF Listings, Restorings
  <1>5. a \in Actors /\ next \in Stages(a) /\ op[a].pc # "posting"
    BY <1>4, RestorerShape DEF LoadExisting, IInv
  <1>. QED
    BY <1>2, <1>3, <1>5, QuietStep DEF LoadExisting, IInv, RestInv

LEMMA RestoreReceiptKeeps ==
  ASSUME IInv, NEW a \in Pipelines \cup Screens, RestoreReceipt(a)
  PROVE  IInv'
  <1>1. PICK o : o = op[a]
    OBVIOUS
  <1>2. PICK v \in o.todo, t \in transactions :
          /\ t.id = v.id
          /\ receipts' = (receipts \ ReceiptOf(Restored(v.id))) \cup
               {[id |-> Restored(v.id), delivery |-> t.delivery, qr |-> v.id, pending |-> FALSE]}
          /\ Becomes(a, [o EXCEPT !.todo = o.todo \ {v}])
    BY <1>1 DEF RestoreReceipt
  <1>3. o \in Restorings
    BY <1>1, RestorerShape DEF RestoreReceipt, IInv
  <1>4. PICK new : new = [id |-> Restored(v.id), delivery |-> t.delivery, qr |-> v.id,
                          pending |-> FALSE]
    OBVIOUS
  <1>5. v \in vouchers /\ v \in Voucher /\ t \in Transaction
    BY <1>3 DEF Restorings, IInv, ServerInv
  <1>6. v.id \in Vouchers /\ v.id \in 0..MaxTransactions
    BY <1>5, ConstantsAssumption DEF Voucher, Vouchers
  <1>7. new \in OwnedReceipts /\ new.id = Restored(v.id)
    BY <1>2, <1>4, <1>5, <1>6 DEF OwnedReceipts, Receipt, Transaction, Genuine, Events
  <1>8. ReceiptsInv'
    BY <1>2, <1>4, <1>7, ReceiptWritten DEF IInv, RestoreReceipt
  <1>9. PICK next : next = [o EXCEPT !.todo = o.todo \ {v}]
    OBVIOUS
  <1>10. next \in Restorings
    BY <1>3, <1>9 DEF Restorings
  <1>11. a \in Actors /\ next \in Stages(a) /\ op[a].pc # "posting"
    BY <1>10, RestorerShape DEF RestoreReceipt, IInv
  <1>. QED
    BY <1>2, <1>8, <1>9, <1>11, ReceiptStep DEF RestoreReceipt, IInv, RestInv

LEMMA RestoreDoneKeeps ==
  ASSUME IInv, NEW a \in Pipelines \cup Screens, RestoreDone(a)
  PROVE  IInv'
  <1>1. op[a] \in Restorings
    BY RestorerShape DEF RestoreDone, IInv
  <1>2. PICK next \in {Idle, [pc |-> "reconciling", list |-> op[a].list]} : Becomes(a, next)
    BY DEF RestoreDone
  <1>3. next \in {Idle} \cup Listings
    BY <1>1, <1>2 DEF Restorings, Listings
  <1>4. a \in Actors /\ next \in Stages(a) /\ op[a].pc # "posting"
    BY <1>3, RestorerShape DEF RestoreDone, IInv
  <1>. QED
    BY <1>2, <1>4, QuietStep DEF RestoreDone, IInv, RestInv

-----------------------------------------------------------------------------
(* Queueing receipts again                                                 *)

LEMMA ListMissingKeeps ==
  ASSUME IInv, NEW p \in Pipelines, ListMissing(p)
  PROVE  IInv'
  <1>1. PICK missing \in SUBSET receipts : Becomes(p, [pc |-> "requeueing", todo |-> missing])
    BY DEF ListMissing
  <1>2. PICK next : next = [pc |-> "requeueing", todo |-> missing]
    OBVIOUS
  <1>3. next \in Queueings
    BY <1>2 DEF Queueings, IInv, ReceiptsInv
  <1>4. p \in Actors /\ next \in Stages(p) /\ op[p].pc # "posting"
    BY <1>3, PipelineShape DEF ListMissing, IInv, PipelineStages
  <1>. QED
    BY <1>1, <1>2, <1>4, QuietStep DEF ListMissing, IInv, RestInv

LEMMA CollectKeeps ==
  ASSUME IInv, NEW p \in Pipelines, Collect(p)
  PROVE  IInv'
  <1>1. PICK waiting \in SUBSET receipts : Becomes(p, [pc |-> "enqueueing", todo |-> waiting])
    <2>. DEFINE pending == {r \in receipts : /\ r.pending /\ r.qr = NoQr
                                             /\ \A row \in rows : row.event # r.id}
    <2>1. Becomes(p, [pc |-> "enqueueing", todo |-> IF linked THEN pending ELSE {}])
      BY DEF Collect
    <2>2. (IF linked THEN pending ELSE {}) \in SUBSET receipts
      OBVIOUS
    <2>. HIDE DEF pending
    <2>. QED
      BY <2>1, <2>2
  <1>2. PICK next : next = [pc |-> "enqueueing", todo |-> waiting]
    OBVIOUS
  <1>3. next \in Queueings
    BY <1>2 DEF Queueings, IInv, ReceiptsInv
  <1>4. p \in Actors /\ next \in Stages(p) /\ op[p].pc # "posting"
    BY <1>3, PipelineShape DEF Collect, IInv, PipelineStages
  <1>. QED
    BY <1>1, <1>2, <1>4, QuietStep DEF Collect, IInv, RestInv

LEMMA RequeueKeeps ==
  ASSUME IInv, NEW p \in Pipelines, Requeue(p)
  PROVE  IInv'
  <1>1. PICK r \in op[p].todo :
          /\ Enqueue(r.id, r.delivery, "nobody")
          /\ Becomes(p, [pc |-> "flagread", id |-> r.id, todo |-> op[p].todo \ {r}])
    BY DEF Requeue
  <1>2. op[p] \in Queueings
    BY PipelineShape DEF Requeue, IInv
  <1>3. r.id \in Events /\ r.delivery \in Deliveries /\ Genuine(r.id, r.delivery)
    BY <1>2 DEF Queueings, OwnedReceipts, Receipt
  <1>4. RowsInv' /\ KnownRows \subseteq KnownRows'
    BY <1>1, <1>3, Enqueued DEF Recipients, Requeue
  <1>5. PICK next : next = [pc |-> "flagread", id |-> r.id, todo |-> op[p].todo \ {r}]
    OBVIOUS
  <1>6. next \in FlagReads
    BY <1>2, <1>3, <1>5 DEF Queueings, FlagReads
  <1>7. p \in Actors /\ next \in Stages(p) /\ op[p].pc # "posting"
    BY <1>6, PipelineShape DEF Requeue, IInv, PipelineStages
  <1>. QED
    BY <1>1, <1>4, <1>5, <1>7, QueueStep DEF Requeue

LEMMA EnqueuePendingKeeps ==
  ASSUME IInv, NEW p \in Pipelines, EnqueuePending(p)
  PROVE  IInv'
  <1>1. PICK r \in op[p].todo :
          /\ Enqueue(r.id, r.delivery, "nobody")
          /\ Becomes(p, [pc |-> "enqueueing", todo |-> op[p].todo \ {r}])
    BY DEF EnqueuePending
  <1>2. op[p] \in Queueings
    BY PipelineShape DEF EnqueuePending, IInv
  <1>3. r.id \in Events /\ r.delivery \in Deliveries /\ Genuine(r.id, r.delivery)
    BY <1>2 DEF Queueings, OwnedReceipts, Receipt
  <1>4. RowsInv' /\ KnownRows \subseteq KnownRows'
    BY <1>1, <1>3, Enqueued DEF Recipients, EnqueuePending
  <1>5. PICK next : next = [pc |-> "enqueueing", todo |-> op[p].todo \ {r}]
    OBVIOUS
  <1>6. next \in Queueings
    BY <1>2, <1>5 DEF Queueings
  <1>7. p \in Actors /\ next \in Stages(p) /\ op[p].pc # "posting"
    BY <1>6, PipelineShape DEF EnqueuePending, IInv, PipelineStages
  <1>. QED
    BY <1>1, <1>4, <1>5, <1>7, QueueStep DEF EnqueuePending

LEMMA FlagReadKeeps ==
  ASSUME IInv, NEW p \in Pipelines, FlagRead(p)
  PROVE  IInv'
  <1>1. PICK r \in receipts : Becomes(p, [pc |-> "flagwrite", read |-> r, todo |-> op[p].todo])
    BY DEF FlagRead, ReceiptOf
  <1>2. PICK next : next = [pc |-> "flagwrite", read |-> r, todo |-> op[p].todo]
    OBVIOUS
  <1>3. op[p] \in FlagReads
    BY PipelineShape DEF FlagRead, IInv
  <1>4. next \in FlagWrites
    BY <1>2, <1>3 DEF FlagReads, FlagWrites, IInv, ReceiptsInv
  <1>5. p \in Actors /\ next \in Stages(p) /\ op[p].pc # "posting"
    BY <1>4, PipelineShape DEF FlagRead, IInv, PipelineStages
  <1>. QED
    BY <1>1, <1>2, <1>5, QuietStep DEF FlagRead, IInv, RestInv

LEMMA FlagWriteKeeps ==
  ASSUME IInv, NEW p \in Pipelines, FlagWrite(p)
  PROVE  IInv'
  <1>1. op[p] \in FlagWrites
    BY PipelineShape DEF FlagWrite, IInv
  <1>2. PICK read : read = op[p].read
    OBVIOUS
  <1>3. PICK new : new = [read EXCEPT !.pending = TRUE]
    OBVIOUS
  <1>4. read \in OwnedReceipts
    BY <1>1, <1>2 DEF FlagWrites
  <1>5. new \in OwnedReceipts /\ new.id = read.id
    BY <1>3, <1>4 DEF OwnedReceipts, Receipt
  <1>6. ReceiptsInv'
    BY <1>2, <1>3, <1>5, ReceiptWritten DEF IInv, FlagWrite
  <1>7. PICK next : next = [pc |-> "requeueing", todo |-> op[p].todo]
    OBVIOUS
  <1>8. next \in Queueings
    BY <1>1, <1>7 DEF FlagWrites, Queueings
  <1>9. p \in Actors /\ next \in Stages(p) /\ op[p].pc # "posting" /\ Becomes(p, next)
    BY <1>7, <1>8, PipelineShape DEF FlagWrite, IInv, PipelineStages
  <1>. QED
    BY <1>6, <1>9, ReceiptStep DEF FlagWrite, IInv, RestInv

LEMMA ReconcileDoneKeeps ==
  ASSUME IInv, NEW p \in Pipelines, ReconcileDone(p)
  PROVE  IInv'
  <1>1. PICK next : next = [pc |-> "collecting"]
    OBVIOUS
  <1>2. p \in Actors /\ next \in Stages(p) /\ op[p].pc # "posting" /\ Becomes(p, next)
    BY <1>1, PipelineShape DEF ReconcileDone, IInv, PipelineStages, Beginnings
  <1>. QED
    BY <1>2, QuietStep DEF ReconcileDone, IInv, RestInv

LEMMA EnqueueDoneKeeps ==
  ASSUME IInv, NEW p \in Pipelines, EnqueueDone(p)
  PROVE  IInv'
  <1>1. PICK next \in {[pc |-> "startdrain", pass |-> 1], Idle} : Becomes(p, next)
    BY DEF EnqueueDone
  <1>2. p \in Actors /\ next \in Stages(p) /\ op[p].pc # "posting"
    BY <1>1, PipelineShape DEF EnqueueDone, IInv, PipelineStages, Starts
  <1>. QED
    BY <1>1, <1>2, QuietStep DEF EnqueueDone, IInv, RestInv

-----------------------------------------------------------------------------
(* The drain                                                               *)

LEMMA LoadSnapshotKeeps ==
  ASSUME IInv, NEW p \in Pipelines, LoadSnapshot(p)
  PROVE  IInv'
  <1>1. PICK next : next = [pc |-> "draining", todo |-> rows, pass |-> op[p].pass,
                            progress |-> FALSE]
    OBVIOUS
  <1>2. op[p] \in Starts
    BY PipelineShape DEF LoadSnapshot, IInv
  <1>3. rows \in Snapshots
    BY DEF IInv, RowsInv, Snapshots
  <1>4. next \in Drainings
    BY <1>1, <1>2, <1>3 DEF Starts, Drainings
  <1>5. p \in Actors /\ next \in Stages(p) /\ op[p].pc # "posting" /\ Becomes(p, next)
    BY <1>1, <1>4, PipelineShape DEF LoadSnapshot, IInv, PipelineStages
  <1>. QED
    BY <1>5, QuietStep DEF LoadSnapshot, IInv, RestInv

LEMMA SnapshotRest ==
  ASSUME NEW todo \in Snapshots, NEW done
  PROVE  todo \ done \in Snapshots
  BY DEF Snapshots

LEMMA SkipRowKeeps ==
  ASSUME IInv, NEW p \in Pipelines, SkipRow(p)
  PROVE  IInv'
  <1>1. PICK o : o = op[p]
    OBVIOUS
  <1>2. PICK next : next = [o EXCEPT !.pc = "draining", !.todo = o.todo \ Current(p)]
    OBVIOUS
  <1>3. o \in Drainings
    BY <1>1, PipelineShape DEF SkipRow, IInv
  <1>4. next \in Drainings
    BY <1>2, <1>3, SnapshotRest DEF Drainings
  <1>5. p \in Actors /\ next \in Stages(p) /\ op[p].pc # "posting" /\ Becomes(p, next)
    BY <1>1, <1>2, <1>4, PipelineShape DEF SkipRow, NextRow, IInv, PipelineStages
  <1>. QED
    BY <1>5, QuietStep DEF SkipRow, IInv, RestInv

LEMMA UpdateReceiptKeeps ==
  ASSUME IInv, NEW p \in Pipelines, UpdateReceipt(p)
  PROVE  IInv'
  <1>1. op[p] \in Updatings
    BY PipelineShape DEF UpdateReceipt, IInv
  <1>2. PICK row \in Current(p) :
          receipts' = (receipts \ ReceiptOf(row.event)) \cup
            {[r EXCEPT !.qr = op[p].qr, !.pending = FALSE] : r \in ReceiptOf(row.event)}
    BY DEF UpdateReceipt
  <1>3. ReceiptsInv'
    <2>1. op[p].qr \in 0..MaxTransactions
      BY <1>1 DEF Updatings
    <2>. QED
      BY <1>2, <2>1, ReceiptMarked DEF IInv, UpdateReceipt
  <1>4. PICK next : next = [pc |-> "deleting", todo |-> op[p].todo, pass |-> op[p].pass]
    OBVIOUS
  <1>5. next \in Deletings
    BY <1>1, <1>4 DEF Updatings, Deletings
  <1>6. p \in Actors /\ next \in Stages(p) /\ op[p].pc # "posting" /\ Becomes(p, next)
    BY <1>4, <1>5, PipelineShape DEF UpdateReceipt, IInv, PipelineStages
  <1>. QED
    BY <1>3, <1>6, ReceiptStep DEF UpdateReceipt, IInv, RestInv

(* Rows that leave the queue leave the others as they were.                *)
LEMMA RowsLeft ==
  ASSUME RowsInv, rows' \subseteq rows, UNCHANGED <<nextRow, server>>
  PROVE  RowsInv' /\ KnownRows \subseteq KnownRows'
  <1>1. KnownRows \subseteq KnownRows'
    BY DEF KnownRows, Genuine, server
  <1>. QED
    BY <1>1 DEF RowsInv

LEMMA DeleteRowKeeps ==
  ASSUME IInv, NEW p \in Pipelines, DeleteRow(p)
  PROVE  IInv'
  <1>1. op[p] \in Deletings
    BY PipelineShape DEF DeleteRow, IInv
  <1>2. RowsInv' /\ KnownRows \subseteq KnownRows'
    BY RowsLeft DEF DeleteRow, IInv
  <1>3. PICK next : next = [pc |-> "draining", todo |-> op[p].todo \ Current(p),
                            pass |-> op[p].pass, progress |-> TRUE]
    OBVIOUS
  <1>4. next \in Drainings
    BY <1>1, <1>3, SnapshotRest DEF Deletings, Drainings
  <1>5. p \in Actors /\ next \in Stages(p) /\ op[p].pc # "posting" /\ Becomes(p, next)
    BY <1>3, <1>4, PipelineShape DEF DeleteRow, IInv, PipelineStages
  <1>. QED
    BY <1>2, <1>5, QueueStep DEF DeleteRow

LEMMA PassDoneKeeps ==
  ASSUME IInv, NEW p \in Pipelines, PassDone(p)
  PROVE  IInv'
  <1>1. op[p] \in Drainings
    BY PipelineShape DEF PassDone, IInv
  <1>2. PICK next \in {[pc |-> "startdrain", pass |-> op[p].pass + 1], Idle} : Becomes(p, next)
    BY DEF PassDone
  <1>3. next \in Starts \cup {Idle}
    BY <1>1, <1>2 DEF Drainings, Starts
  <1>4. p \in Actors /\ next \in Stages(p) /\ op[p].pc # "posting"
    BY <1>3, PipelineShape DEF PassDone, IInv, PipelineStages
  <1>. QED
    BY <1>2, <1>4, QuietStep DEF PassDone, IInv, RestInv

-----------------------------------------------------------------------------
(* The page of a receipt                                                   *)

LEMMA SyncReceiptKeeps ==
  ASSUME IInv, NEW s \in Screens, SyncReceipt(s)
  PROVE  IInv'
  <1>1. PICK r \in receipts, p \in Pipelines :
          /\ op[p] = Idle
          /\ op' = [op EXCEPT ![p] = [pc |-> "started"],
                              ![s] = [pc |-> "syncing", delivery |-> r.delivery, pipeline |-> p]]
    BY DEF SyncReceipt
  <1>2. PICK started, syncing :
          /\ started = [pc |-> "started"]
          /\ syncing = [pc |-> "syncing", delivery |-> r.delivery, pipeline |-> p]
    OBVIOUS
  <1>3. /\ p \in Actors /\ s \in Actors /\ p # s
        /\ op[p].pc # "posting" /\ op[s].pc # "posting"
    BY <1>1, ConstantsAssumption DEF Actors, SyncReceipt, Idle
  <1>4. started \in Stages(p)
    BY <1>2, PipelineShape DEF IInv, PipelineStages, Beginnings
  <1>5. syncing \in Stages(s)
    <2>1. r.delivery \in Deliveries
      BY DEF IInv, ReceiptsInv, OwnedReceipts, Receipt
    <2>2. syncing \in Syncings
      BY <1>2, <2>1 DEF Syncings
    <2>. QED
      BY <2>2, ScreenShape DEF IInv, ScreenStages
  <1>6. /\ op' = [a \in Actors |-> op'[a]]
        /\ \A a \in Actors : op'[a] = IF a = s THEN syncing ELSE IF a = p THEN started ELSE op[a]
    <2>1. op' = [op EXCEPT ![p] = started, ![s] = syncing]
      BY <1>1, <1>2
    <2>. QED
      BY <1>3, <2>1 DEF IInv, OpInv
  <1>7. UNCHANGED <<linked, receipts, rows, nextRow, submitted, server, requests, faults>>
    BY DEF SyncReceipt
  <1>8. RowsInv' /\ KnownRows \subseteq KnownRows'
    BY <1>7, SameRowsKnown DEF IInv, server
  <1>9. OpInv'
    <2>1. \A a \in Actors : Stages(a) \subseteq Stages(a)'
      BY <1>7, <1>8, StagesGrow DEF server
    <2>2. \A a \in Actors : op'[a] \in Stages(a)
      BY <1>4, <1>5, <1>6 DEF IInv, OpInv
    <2>. QED
      BY <1>6, <2>1, <2>2 DEF OpInv
  <1>10. WaitInv'
    <2>1. \A q \in requests : q.by # p /\ q.by # s
      BY <1>3, NobodyWaitsFor DEF IInv
    <2>2. \A q \in requests : q.by # Nobody => q.by \in Actors
      BY DEF IInv, RequestsInv, Request
    <2>3. ASSUME NEW q \in requests, q.by # Nobody PROVE WaitsFor(q.by, q)'
      <3>1. op'[q.by] = op[q.by] /\ WaitsFor(q.by, q)
        BY <1>6, <2>1, <2>2, <2>3 DEF IInv, WaitInv
      <3>. QED
        BY <3>1 DEF WaitsFor, Current
    <2>. QED
      BY <1>7, <2>3 DEF IInv, WaitInv
  <1>11. ReceiptsInv' /\ ServerInv' /\ RequestsInv' /\ RestInv'
    BY <1>7 DEF IInv, ReceiptsInv, OwnedReceipts, ServerInv, RequestsInv, Stored, Genuine,
      RestInv, server
  <1>. QED
    BY <1>8, <1>9, <1>10, <1>11 DEF IInv

LEMMA BackupEndsKeeps ==
  ASSUME IInv, NEW s \in Screens, BackupEnds(s)
  PROVE  IInv'
  <1>1. op[s] \in Syncings
    BY ScreenShape DEF BackupEnds, IInv
  <1>2. PICK next \in {[pc |-> "looking", delivery |-> op[s].delivery], Idle} : Becomes(s, next)
    BY DEF BackupEnds
  <1>3. next \in Lookings \cup {Idle}
    BY <1>1, <1>2 DEF Syncings, Lookings
  <1>4. s \in Actors /\ next \in Stages(s) /\ op[s].pc # "posting"
    BY <1>3, ScreenShape DEF BackupEnds, IInv, ScreenStages
  <1>. QED
    BY <1>2, <1>4, QuietStep DEF BackupEnds, IInv, RestInv

LEMMA MatchReceiptKeeps ==
  ASSUME IInv, NEW s \in Screens, MatchReceipt(s)
  PROVE  IInv'
  <1>1. op[s] \in Lookings
    BY ScreenShape DEF MatchReceipt, IInv
  <1>2. faults' \in 0..MaxFaults
    <2>1. Fault \/ faults' = faults
      BY DEF MatchReceipt, Fetched
    <2>. QED
      BY <2>1, FaultCounted DEF IInv
  <1>3. PICK next \in {Idle} \cup Matched : Becomes(s, next)
    <2>1. CASE Becomes(s, Idle)
      BY <2>1
    <2>2. CASE \E v \in vouchers :
                 /\ LooksLike(op[s].delivery, v)
                 /\ Becomes(s, [pc |-> "matched", delivery |-> op[s].delivery, qr |-> v.id])
      <3>1. PICK v \in vouchers :
                 /\ LooksLike(op[s].delivery, v)
                 /\ Becomes(s, [pc |-> "matched", delivery |-> op[s].delivery, qr |-> v.id])
        BY <2>2
      <3>2. v.id \in Vouchers /\ op[s].delivery \in Deliveries
        BY <1>1 DEF IInv, ServerInv, Voucher, Lookings
      <3>3. [pc |-> "matched", delivery |-> op[s].delivery, qr |-> v.id] \in Matched
        BY <3>1, <3>2 DEF Matched
      <3>. QED
        BY <3>1, <3>3
    <2>. QED
      BY <2>1, <2>2 DEF MatchReceipt
  <1>4. s \in Actors /\ next \in Stages(s) /\ op[s].pc # "posting"
    BY <1>3, ScreenShape DEF MatchReceipt, IInv, ScreenStages
  <1>. QED
    BY <1>2, <1>3, <1>4, QuietStep DEF MatchReceipt

LEMMA StoreMatchKeeps ==
  ASSUME IInv, NEW s \in Screens, StoreMatch(s)
  PROVE  IInv'
  <1>1. op[s] \in Matched
    BY ScreenShape DEF StoreMatch, IInv
  <1>2. op[s].qr \in 0..MaxTransactions
    BY <1>1, ConstantsAssumption DEF Matched, Vouchers
  <1>3. ReceiptsInv'
    BY <1>2, ReceiptMarked DEF IInv, StoreMatch
  <1>4. s \in Actors /\ Idle \in Stages(s) /\ op[s].pc # "posting" /\ Becomes(s, Idle)
    BY ScreenShape DEF StoreMatch, IInv, ScreenStages
  <1>. QED
    BY <1>3, <1>4, ReceiptStep DEF StoreMatch, IInv, RestInv

-----------------------------------------------------------------------------
(* Requests: sent, answered, refused, given up                             *)

(* What a step that leaves the tables alone keeps.                         *)
LEMMA TablesRest ==
  ASSUME IInv, UNCHANGED <<linked, receipts, rows, nextRow, server>>,
         submitted' \in [Deliveries -> {"no", "synced", "queued", "error", "interrupted"}],
         faults' \in 0..MaxFaults
  PROVE  /\ RowsInv' /\ KnownRows \subseteq KnownRows' /\ ReceiptsInv' /\ ServerInv' /\ RestInv'
         /\ \A a : Stages(a) \subseteq Stages(a)'
  <1>1. RowsInv' /\ KnownRows \subseteq KnownRows'
    BY SameRowsKnown DEF IInv, server
  <1>2. \A a : Stages(a) \subseteq Stages(a)'
    BY <1>1, StagesGrow DEF server
  <1>3. ReceiptsInv' /\ ServerInv' /\ RestInv'
    BY DEF IInv, ReceiptsInv, OwnedReceipts, ServerInv, Genuine, RestInv, server
  <1>. QED
    BY <1>1, <1>2, <1>3

LEMMA Posted ==
  ASSUME IInv, NEW a \in Actors, op[a].pc # "posting",
         NEW event \in Events, NEW d \in Deliveries, Genuine(event, d), NEW to \in Recipients,
         Post(a, event, d, to), NEW next \in Stages(a), Becomes(a, next), next.pc = "posting",
         a \in Deliveries => event = Own(a) /\ d = a,
         a \in Pipelines => \E r \in Current(a) : r.event = event /\ r.delivery = d,
         a \in Pipelines => next.todo = op[a].todo,
         UNCHANGED <<linked, receipts, rows, nextRow, submitted, server, faults>>
  PROVE  IInv'
  <1>1. /\ RowsInv' /\ KnownRows \subseteq KnownRows' /\ ReceiptsInv' /\ ServerInv' /\ RestInv'
        /\ next \in Stages(a)'
    BY TablesRest DEF IInv, RestInv
  <1>2. OpInv' /\ \A b \in Actors : op'[b] = IF b = a THEN next ELSE op[b]
    BY <1>1, Moved DEF IInv, server
  <1>. DEFINE new == [by |-> a, event |-> event, delivery |-> d, to |-> to,
                      tx |-> 0, qr |-> NoQr, stage |-> "sent"]
  <1>3. requests' = requests \cup {new}
    BY DEF Post
  <1>4. new \in Request /\ new.stage = "sent" /\ new.by = a /\ new.event = event /\ new.delivery = d
    BY ConstantsAssumption DEF Request, NoQr
  <1>. HIDE DEF new
  <1>5. RequestsInv'
    BY <1>3, <1>4 DEF IInv, RequestsInv, Stored, Genuine, server
  <1>6. \A q \in requests : q.by # a
    BY NobodyWaitsFor DEF IInv
  <1>7. WaitsFor(a, new)'
    BY <1>2, <1>4 DEF WaitsFor, Current
  <1>8. \A q \in requests : q.by # Nobody => WaitsFor(q.by, q)'
    BY <1>6, OthersWait DEF IInv
  <1>9. WaitInv'
    BY <1>3, <1>4, <1>6, <1>7, <1>8 DEF IInv, WaitInv
  <1>. QED
    BY <1>1, <1>2, <1>5, <1>9 DEF IInv

LEMMA Heard ==
  ASSUME IInv, NEW a \in Actors, NEW q \in requests, q.by = a, requests' = requests \ {q},
         NEW next \in Stages(a), Becomes(a, next), faults' = faults,
         submitted' \in [Deliveries -> {"no", "synced", "queued", "error", "interrupted"}],
         UNCHANGED <<linked, receipts, rows, nextRow, server>>
  PROVE  IInv'
  <1>1. /\ RowsInv' /\ KnownRows \subseteq KnownRows' /\ ReceiptsInv' /\ ServerInv' /\ RestInv'
        /\ next \in Stages(a)'
    BY TablesRest DEF IInv, RestInv
  <1>2. OpInv'
    BY <1>1, Moved DEF IInv, server
  <1>3. RequestsInv'
    BY DEF IInv, RequestsInv, Stored, Genuine, server
  <1>4. a # Nobody
    BY ConstantsAssumption DEF Actors
  <1>5. WaitInv'
    BY <1>4, NoRequest DEF IInv, WaitInv
  <1>. QED
    BY <1>1, <1>2, <1>3, <1>5 DEF IInv

LEMMA NotHeard ==
  ASSUME IInv, NEW a \in Actors, NEW q, q \in requests, Silence(a, q),
         NEW next \in Stages(a), Becomes(a, next),
         UNCHANGED <<linked, receipts, rows, nextRow, submitted, server>>
  PROVE  IInv'
  <1>1. q.by = a /\ a # Nobody /\ faults' \in 0..MaxFaults /\ q \in Request
    BY ConstantsAssumption, FaultCounted DEF Silence, Actors, IInv, RequestsInv
  <1>2. /\ RowsInv' /\ KnownRows \subseteq KnownRows' /\ ReceiptsInv' /\ ServerInv' /\ RestInv'
        /\ next \in Stages(a)'
    BY <1>1, TablesRest DEF IInv, RestInv
  <1>3. OpInv'
    BY <1>2, Moved DEF IInv, server
  <1>4. PICK n : n = [q EXCEPT !.by = Nobody]
    OBVIOUS
  <1>5. /\ n \in Request /\ n.by = Nobody /\ n.event = q.event /\ n.delivery = q.delivery
        /\ n.stage = q.stage /\ n.tx = q.tx /\ n.qr = q.qr
    BY <1>1, <1>4 DEF Request
  <1>6. requests' = (requests \ {q}) \cup {n}
    BY <1>4 DEF Silence
  <1>7. RequestsInv'
    BY <1>5, <1>6 DEF IInv, RequestsInv, Stored, Genuine, server
  <1>8. \A r \in requests : r.by = a => r = q
    BY <1>1 DEF IInv, WaitInv
  <1>9. \A r \in requests : r.by # a /\ r.by # Nobody => WaitsFor(r.by, r)'
    BY OthersWait DEF IInv
  <1>10. WaitInv'
    BY <1>5, <1>6, <1>8, <1>9 DEF IInv, WaitInv
  <1>. QED
    BY <1>2, <1>3, <1>7, <1>10 DEF IInv

-----------------------------------------------------------------------------
(* Submitting a delivery                                                   *)

LEMMA OwnGenuine ==
  ASSUME NEW d \in Deliveries
  PROVE  Own(d) \in Events /\ Genuine(Own(d), d)
  BY DEF Events, Genuine

LEMMA SubmitKeeps ==
  ASSUME IInv, NEW d \in Deliveries, Submit(d)
  PROVE  IInv'
  <1>1. /\ d \in Actors /\ op[d].pc # "posting" /\ d \notin Pipelines
        /\ Stages(d) = SubmitStages
    BY SubmitShape, ConstantsAssumption DEF Submit, Idle, IInv
  <1>2. CASE /\ Post(d, Own(d), d, "buyer")
             /\ Becomes(d, [pc |-> "posting"])
    <2>1. PICK next : next = [pc |-> "posting"]
      OBVIOUS
    <2>2. next \in Stages(d) /\ next.pc = "posting"
      BY <1>1, <2>1 DEF SubmitStages, Postings
    <2>. QED
      BY <1>1, <1>2, <2>1, <2>2, Posted, OwnGenuine DEF Submit, Recipients
  <1>3. CASE Becomes(d, [pc |-> "queueing"]) /\ UNCHANGED requests
    <2>1. [pc |-> "queueing"] \in Stages(d)
      BY <1>1 DEF SubmitStages, Postings
    <2>. QED
      BY <1>1, <1>3, <2>1, QuietStep DEF Submit, IInv, RestInv
  <1>. QED
    BY <1>2, <1>3 DEF Submit

LEMMA SubmitAnsweredKeeps ==
  ASSUME IInv, NEW d \in Deliveries, SubmitAnswered(d)
  PROVE  IInv'
  <1>1. PICK q \in requests :
          Answered(d, q) /\ Becomes(d, [pc |-> "saving", qr |-> q.qr, pending |-> FALSE])
    BY DEF SubmitAnswered
  <1>2. PICK next : next = [pc |-> "saving", qr |-> q.qr, pending |-> FALSE]
    OBVIOUS
  <1>3. q.qr \in 0..MaxTransactions
    BY DEF IInv, RequestsInv, Request
  <1>4. d \in Actors /\ next \in Stages(d)
    BY <1>2, <1>3, SubmitShape DEF IInv, SubmitStages, Savings
  <1>. QED
    BY <1>1, <1>2, <1>4, Heard DEF SubmitAnswered, Answered, IInv, RestInv

LEMMA SubmitRefusedKeeps ==
  ASSUME IInv, NEW d \in Deliveries, SubmitRefused(d)
  PROVE  IInv'
  <1>1. PICK q \in requests : Refused(d, q)
    BY DEF SubmitRefused
  <1>2. d \in Actors /\ Idle \in Stages(d)
    BY SubmitShape DEF IInv, SubmitStages
  <1>3. submitted' \in [Deliveries -> {"no", "synced", "queued", "error", "interrupted"}]
    BY DEF SubmitRefused, IInv, RestInv
  <1>. QED
    BY <1>1, <1>2, <1>3, Heard DEF SubmitRefused, Refused

LEMMA SubmitSilenceKeeps ==
  ASSUME IInv, NEW d \in Deliveries, SubmitSilence(d)
  PROVE  IInv'
  <1>1. PICK q \in requests : Silence(d, q)
    BY DEF SubmitSilence
  <1>2. d \in Actors /\ [pc |-> "queueing"] \in Stages(d)
    BY SubmitShape DEF IInv, SubmitStages, Postings
  <1>. QED
    BY <1>1, <1>2, NotHeard DEF SubmitSilence

LEMMA SubmitEnqueueKeeps ==
  ASSUME IInv, NEW d \in Deliveries, SubmitEnqueue(d)
  PROVE  IInv'
  <1>1. RowsInv' /\ KnownRows \subseteq KnownRows'
    BY OwnGenuine, Enqueued DEF SubmitEnqueue, Recipients
  <1>2. PICK next : next = [pc |-> "saving", qr |-> NoQr, pending |-> TRUE]
    OBVIOUS
  <1>3. next \in Savings
    BY <1>2, ConstantsAssumption DEF Savings, NoQr
  <1>4. d \in Actors /\ next \in Stages(d) /\ op[d].pc # "posting" /\ Becomes(d, next)
    BY <1>2, <1>3, SubmitShape DEF IInv, SubmitStages, SubmitEnqueue
  <1>. QED
    BY <1>1, <1>4, QueueStep DEF SubmitEnqueue

LEMMA SubmitSaveKeeps ==
  ASSUME IInv, NEW d \in Deliveries, SubmitSave(d)
  PROVE  IInv'
  <1>1. op[d] \in Savings
    BY SubmitShape DEF SubmitSave, IInv
  <1>2. PICK new : new = [id |-> Own(d), delivery |-> d, qr |-> op[d].qr, pending |-> op[d].pending]
    OBVIOUS
  <1>3. new \in OwnedReceipts /\ new.id = Own(d)
    BY <1>1, <1>2, OwnGenuine DEF OwnedReceipts, Receipt, Savings
  <1>4. ReceiptsInv'
    BY <1>2, <1>3, ReceiptWritten DEF SubmitSave, IInv
  <1>5. submitted' \in [Deliveries -> {"no", "synced", "queued", "error", "interrupted"}]
    BY DEF SubmitSave, IInv, RestInv
  <1>6. d \in Actors /\ Idle \in Stages(d) /\ op[d].pc # "posting" /\ Becomes(d, Idle)
    BY SubmitShape DEF IInv, SubmitStages, SubmitSave
  <1>. QED
    BY <1>4, <1>5, <1>6, ReceiptStep DEF SubmitSave

-----------------------------------------------------------------------------
(* Posting a row of the queue                                              *)

LEMMA CurrentOne ==
  ASSUME IInv, NEW p \in Pipelines, op[p].todo \in Snapshots
  PROVE  /\ \A r, s \in Current(p) : r = s
         /\ \A r \in Current(p) : r \in KnownRows /\ r \in QueueRow
  <1>1. \A r \in op[p].todo : r \in KnownRows /\ r \in QueueRow /\ r.id \in Nat
    BY ConstantsAssumption DEF Snapshots, KnownRows, QueueRow
  <1>2. \A r, s \in Current(p) : r.id <= s.id /\ s.id <= r.id
    BY DEF Current
  <1>. QED
    BY <1>1, <1>2 DEF Current, Snapshots

LEMMA PostRowKeeps ==
  ASSUME IInv, NEW p \in Pipelines, PostRow(p)
  PROVE  IInv'
  <1>1. PICK o : o = op[p]
    OBVIOUS
  <1>2. PICK r \in Current(p) :
          /\ Post(p, r.event, r.delivery, r.to)
          /\ Becomes(p, [o EXCEPT !.pc = "posting"])
    BY <1>1 DEF PostRow
  <1>3. o \in Drainings
    BY <1>1, PipelineShape DEF PostRow, IInv
  <1>4. r \in KnownRows /\ r \in QueueRow
    BY <1>1, <1>3, CurrentOne DEF Drainings
  <1>5. /\ r.event \in Events /\ r.delivery \in Deliveries /\ r.to \in Recipients
        /\ Genuine(r.event, r.delivery)
    BY <1>4 DEF KnownRows, QueueRow
  <1>6. PICK next : next = [o EXCEPT !.pc = "posting"]
    OBVIOUS
  <1>7. next \in Drainings /\ next.pc = "posting" /\ next.todo = o.todo
    BY <1>3, <1>6 DEF Drainings
  <1>8. p \in Actors /\ next \in Stages(p) /\ p \notin Deliveries /\ op[p].pc # "posting"
    BY <1>7, PipelineShape, ConstantsAssumption DEF IInv, PipelineStages, PostRow
  <1>. QED
    BY <1>1, <1>2, <1>5, <1>6, <1>7, <1>8, Posted DEF PostRow

LEMMA RowAnsweredKeeps ==
  ASSUME IInv, NEW p \in Pipelines, RowAnswered(p)
  PROVE  IInv'
  <1>1. PICK q \in requests :
          /\ Answered(p, q)
          /\ Becomes(p, [pc |-> "updating", todo |-> op[p].todo, pass |-> op[p].pass,
                         progress |-> op[p].progress, qr |-> q.qr])
    BY DEF RowAnswered
  <1>2. PICK next : next = [pc |-> "updating", todo |-> op[p].todo, pass |-> op[p].pass,
                            progress |-> op[p].progress, qr |-> q.qr]
    OBVIOUS
  <1>3. op[p] \in Drainings /\ q.qr \in 0..MaxTransactions
    BY PipelineShape DEF RowAnswered, IInv, RequestsInv, Request
  <1>4. next \in Updatings
    BY <1>2, <1>3 DEF Drainings, Updatings
  <1>5. p \in Actors /\ next \in Stages(p)
    BY <1>4, PipelineShape DEF IInv, PipelineStages
  <1>. QED
    BY <1>1, <1>2, <1>5, Heard DEF RowAnswered, Answered, IInv, RestInv

LEMMA RowFailedKeeps ==
  ASSUME IInv, NEW p \in Pipelines, RowFailed(p)
  PROVE  IInv'
  <1>1. PICK q \in requests : (Refused(p, q) /\ faults' = faults) \/ Silence(p, q)
    BY DEF RowFailed
  <1>2. PICK o : o = op[p]
    OBVIOUS
  <1>3. PICK next : next = [o EXCEPT !.pc = "draining", !.todo = o.todo \ Current(p)]
    OBVIOUS
  <1>4. o \in Drainings
    BY <1>2, PipelineShape DEF RowFailed, IInv
  <1>5. next \in Drainings
    BY <1>3, <1>4, SnapshotRest DEF Drainings
  <1>6. p \in Actors /\ next \in Stages(p) /\ Becomes(p, next)
    BY <1>2, <1>3, <1>5, PipelineShape DEF RowFailed, NextRow, IInv, PipelineStages
  <1>7. CASE Refused(p, q) /\ faults' = faults
    BY <1>6, <1>7, Heard DEF RowFailed, Refused, IInv, RestInv
  <1>8. CASE Silence(p, q)
    BY <1>6, <1>8, NotHeard DEF RowFailed
  <1>. QED
    BY <1>1, <1>7, <1>8

-----------------------------------------------------------------------------
(* The server                                                              *)

(* A request comes to its next stage; nobody waits for another.            *)
LEMMA ServerMoves ==
  ASSUME IInv, NEW q \in requests, NEW n,
         n.by = q.by, n.event = q.event, n.delivery = q.delivery,
         requests' = (requests \ {q}) \cup {n}, UNCHANGED device,
         Fault \/ faults' = faults,
         transactions \subseteq transactions', vouchers \subseteq vouchers',
         ServerInv', RequestsInv'
  PROVE  IInv'
  <1>1. RowsInv' /\ KnownRows \subseteq KnownRows'
    BY SameRowsKnown DEF IInv, device
  <1>2. OpInv'
    <2>1. \A a : Stages(a) \subseteq Stages(a)'
      BY <1>1, StagesGrow
    <2>. QED
      BY <2>1 DEF IInv, OpInv, device
  <1>3. ReceiptsInv'
    BY <1>1, StagesGrow DEF IInv, ReceiptsInv, device
  <1>4. RestInv'
    BY FaultCounted DEF IInv, RestInv, device
  <1>5. \A a, r : WaitsFor(a, r)' <=> WaitsFor(a, r)
    BY DEF WaitsFor, Current, device
  <1>6. q.by # Nobody => WaitsFor(n.by, n)
    BY DEF IInv, WaitInv, WaitsFor
  <1>7. WaitInv'
    BY <1>5, <1>6 DEF IInv, WaitInv
  <1>. QED
    BY <1>1, <1>2, <1>3, <1>4, <1>7 DEF IInv

(* When no row is inserted, only what is said of the request can change.   *)
LEMMA RequestMoves ==
  ASSUME IInv, NEW q \in requests, NEW n \in Request,
         n.by = q.by, n.event = q.event, n.delivery = q.delivery,
         n.stage = "failed" \/ (n.stage \in {"replay", "answered"} /\ Stored(n)),
         n.stage = "answered" /\ n.qr # NoQr => n.qr = n.tx /\ \E v \in vouchers : v.id = n.tx,
         requests' = (requests \ {q}) \cup {n}, UNCHANGED <<device, server>>,
         Fault \/ faults' = faults
  PROVE  IInv'
  <1>1. ServerInv'
    BY DEF IInv, ServerInv, Genuine, server
  <1>2. RequestsInv'
    BY DEF IInv, RequestsInv, Stored, Genuine, server
  <1>. QED
    BY <1>1, <1>2, ServerMoves DEF server

LEMMA RequestFails ==
  ASSUME IInv, NEW q \in requests, UNCHANGED <<device, server>>, Fault \/ faults' = faults,
         requests' = (requests \ {q}) \cup {[q EXCEPT !.stage = "failed"]}
  PROVE  IInv'
  <1>1. PICK n : n = [q EXCEPT !.stage = "failed"]
    OBVIOUS
  <1>2. q \in Request
    BY DEF IInv, RequestsInv
  <1>3. /\ n \in Request /\ n.by = q.by /\ n.event = q.event /\ n.delivery = q.delivery
        /\ n.stage = "failed"
    BY <1>1, <1>2 DEF Request
  <1>. QED
    BY <1>1, <1>3, RequestMoves

LEMMA ServerInsertKeeps ==
  ASSUME IInv, NEW q, q \in requests, ServerInsert(q)
  PROVE  IInv'
  <1>. DEFINE stored == {t \in transactions : t.event = q.event}
  <1>1. q \in Request /\ Genuine(q.event, q.delivery) /\ q.stage = "sent"
    BY DEF IInv, RequestsInv, ServerInsert
  <1>2. UNCHANGED <<device, vouchers, faults>>
    BY DEF ServerInsert
  <1>3. CASE stored # {}
    <2>. DEFINE tx == CHOOSE t \in stored : TRUE
    <2>1. tx \in stored
      BY <1>3
    <2>2. /\ transactions' = transactions \cup {tx}
          /\ requests' = (requests \ {q}) \cup {[q EXCEPT !.stage = "replay", !.tx = tx.id]}
      BY <1>3 DEF ServerInsert
    <2>. HIDE DEF tx
    <2>3. /\ tx \in transactions /\ tx \in Transaction /\ tx.event = q.event
          /\ transactions' = transactions /\ Genuine(tx.event, tx.delivery)
      BY <2>1, <2>2 DEF IInv, ServerInv
    <2>4. tx.delivery = q.delivery
      BY <1>1, <2>3, GenuineOne DEF IInv
    <2>5. PICK n : n = [q EXCEPT !.stage = "replay", !.tx = tx.id]
      OBVIOUS
    <2>6. tx.id \in 0..MaxTransactions
      BY <2>3, ConstantsAssumption DEF Transaction, Vouchers
    <2>7. /\ n \in Request /\ n.by = q.by /\ n.event = q.event /\ n.delivery = q.delivery
          /\ n.stage = "replay" /\ n.tx = tx.id
      BY <1>1, <2>5, <2>6 DEF Request
    <2>8. Stored(n)
      BY <2>3, <2>4, <2>7 DEF Stored
    <2>. QED
      BY <1>2, <2>2, <2>3, <2>5, <2>7, <2>8, RequestMoves DEF server
  <1>4. CASE stored = {}
    <2>. DEFINE count == Cardinality(transactions)
                new == [id |-> count + 1, event |-> q.event, delivery |-> q.delivery]
    <2>1. /\ new.id \in Vouchers
          /\ transactions' = transactions \cup {new}
          /\ requests' = (requests \ {q}) \cup {[q EXCEPT !.stage = "inserted", !.tx = new.id]}
      BY <1>4 DEF ServerInsert
    <2>2. /\ new \in Transaction /\ new.id = count + 1
          /\ new.event = q.event /\ new.delivery = q.delivery
      BY <1>1, <2>1 DEF Transaction, Request
    <2>3. count \in Nat /\ IsFiniteSet(transactions)
      BY FS_CardinalityType DEF IInv, ServerInv
    <2>. HIDE DEF new
    <2>4. /\ \A t \in transactions : t.id <= count /\ t.id \in Nat
          /\ new \notin transactions
      BY <2>2, <2>3, ConstantsAssumption DEF IInv, ServerInv, Transaction, Vouchers
    <2>5. IsFiniteSet(transactions') /\ Cardinality(transactions') = count + 1
      BY <2>1, <2>3, <2>4, FS_AddElement
    <2>. HIDE DEF count
    <2>6. \A e, d : Genuine(e, d) => Genuine(e, d)'
      BY <2>1 DEF Genuine
    <2>7. \A t \in transactions' :
            t.id <= Cardinality(transactions') /\ Genuine(t.event, t.delivery)'
      BY <1>1, <2>1, <2>2, <2>3, <2>4, <2>5, <2>6 DEF IInv, ServerInv, count
    <2>8. \A t, u \in transactions' : t.id = u.id \/ t.event = u.event => t = u
      BY <1>4, <2>1, <2>2, <2>3, <2>4 DEF IInv, ServerInv
    <2>9. ServerInv'
      BY <1>2, <2>1, <2>2, <2>5, <2>7, <2>8 DEF IInv, ServerInv
    <2>10. PICK n : n = [q EXCEPT !.stage = "inserted", !.tx = new.id]
      OBVIOUS
    <2>11. new.id \in 0..MaxTransactions
      BY <2>1, ConstantsAssumption DEF Vouchers
    <2>12. /\ n \in Request /\ n.by = q.by /\ n.event = q.event /\ n.delivery = q.delivery
           /\ n.stage = "inserted" /\ n.tx = new.id
      BY <1>1, <2>10, <2>11 DEF Request
    <2>13. \A v \in vouchers : v.id # new.id
      BY <2>2, <2>3, <2>4 DEF IInv, ServerInv
    <2>14. \A r \in requests : r.stage = "inserted" => r.tx # new.id
      BY <2>2, <2>3, <2>4 DEF IInv, RequestsInv, Stored
    <2>15. /\ \A r : Stored(r) => Stored(r)'
           /\ Stored(n)'
      BY <2>1, <2>2, <2>12 DEF Stored
    <2>16. RequestsInv'
      <3>1. requests' = (requests \ {q}) \cup {n}
        BY <2>1, <2>10
      <3>. QED
        BY <1>1, <1>2, <2>6, <2>12, <2>13, <2>14, <2>15, <3>1 DEF IInv, RequestsInv
    <2>. QED
      BY <1>2, <2>1, <2>9, <2>10, <2>12, <2>16, ServerMoves
  <1>. QED
    BY <1>3, <1>4

LEMMA ServerReadVoucherKeeps ==
  ASSUME IInv, NEW q, q \in requests, ServerReadVoucher(q)
  PROVE  IInv'
  <1>1. q \in Request /\ Stored(q)
    BY DEF IInv, RequestsInv, ServerReadVoucher
  <1>2. PICK qr : qr = IF \E v \in vouchers : v.id = q.tx THEN q.tx ELSE NoQr
    OBVIOUS
  <1>3. PICK n : n = [q EXCEPT !.stage = "answered", !.qr = qr]
    OBVIOUS
  <1>4. qr \in 0..MaxTransactions
    BY <1>1, <1>2, ConstantsAssumption DEF Request, NoQr
  <1>5. /\ n \in Request /\ n.by = q.by /\ n.event = q.event /\ n.delivery = q.delivery
        /\ n.stage = "answered" /\ n.tx = q.tx /\ n.qr = qr
    BY <1>1, <1>3, <1>4 DEF Request
  <1>6. Stored(n)
    BY <1>1, <1>5 DEF Stored
  <1>. QED
    BY <1>2, <1>3, <1>5, <1>6, RequestMoves DEF ServerReadVoucher

LEMMA ServerInsertVoucherKeeps ==
  ASSUME IInv, NEW q, q \in requests, ServerInsertVoucher(q)
  PROVE  IInv'
  <1>1. /\ q \in Request /\ Stored(q) /\ q.stage = "inserted"
        /\ \A v \in vouchers : v.id # q.tx
    BY DEF IInv, RequestsInv, ServerInsertVoucher
  <1>2. PICK near \in SUBSET Deliveries :
          vouchers' = vouchers \cup {[id |-> q.tx, to |-> q.to, near |-> near]}
    BY DEF ServerInsertVoucher
  <1>3. PICK new : new = [id |-> q.tx, to |-> q.to, near |-> near]
    OBVIOUS
  <1>4. PICK t \in transactions : t.id = q.tx /\ t.event = q.event /\ t.delivery = q.delivery
    BY <1>1 DEF Stored
  <1>5. new \in Voucher /\ new.id = q.tx /\ q.tx \in 0..MaxTransactions
    BY <1>1, <1>3, <1>4 DEF Voucher, Request, IInv, ServerInv, Transaction
  <1>6. UNCHANGED <<device, transactions, faults>>
    BY DEF ServerInsertVoucher
  <1>7. ServerInv'
    BY <1>1, <1>2, <1>3, <1>4, <1>5, <1>6 DEF IInv, ServerInv, Genuine
  <1>8. PICK n : n = [q EXCEPT !.stage = "answered", !.qr = q.tx]
    OBVIOUS
  <1>9. /\ n \in Request /\ n.by = q.by /\ n.event = q.event /\ n.delivery = q.delivery
        /\ n.stage = "answered" /\ n.tx = q.tx /\ n.qr = q.tx
    BY <1>1, <1>5, <1>8 DEF Request
  <1>10. requests' = (requests \ {q}) \cup {n}
    BY <1>8 DEF ServerInsertVoucher
  <1>11. \A r \in requests : r # q /\ r.stage = "inserted" => r.tx # q.tx
    BY <1>1 DEF IInv, RequestsInv
  <1>12. (\A r : Stored(r)' <=> Stored(r)) /\ \A e, d : Genuine(e, d)' <=> Genuine(e, d)
    BY <1>6 DEF Stored, Genuine
  <1>13. Stored(n)
    BY <1>1, <1>9 DEF Stored
  <1>14. vouchers' = vouchers \cup {new}
    BY <1>2, <1>3
  <1>15. RequestsInv'
    BY <1>1, <1>5, <1>9, <1>10, <1>11, <1>12, <1>13, <1>14 DEF IInv, RequestsInv
  <1>. QED
    BY <1>6, <1>7, <1>9, <1>10, <1>14, <1>15, ServerMoves

LEMMA OrphanEndsKeeps ==
  ASSUME IInv, NEW q, q \in requests, OrphanEnds(q)
  PROVE  IInv'
  <1>1. UNCHANGED <<device, server, faults>> /\ requests' = requests \ {q}
    BY DEF OrphanEnds
  <1>2. /\ RowsInv' /\ KnownRows \subseteq KnownRows' /\ ReceiptsInv' /\ ServerInv' /\ RestInv'
        /\ \A a : Stages(a) \subseteq Stages(a)'
    BY <1>1, TablesRest DEF IInv, RestInv, device
  <1>3. OpInv'
    BY <1>1, <1>2 DEF IInv, OpInv, device
  <1>4. RequestsInv'
    BY <1>1 DEF IInv, RequestsInv, Stored, Genuine, server
  <1>5. WaitInv'
    BY <1>1 DEF IInv, WaitInv, WaitsFor, Current, device
  <1>. QED
    BY <1>2, <1>3, <1>4, <1>5 DEF IInv

LEMMA ServerStepKeeps ==
  ASSUME IInv, NEW q, q \in requests,
         \/ ServerInsert(q) \/ ServerInsertRaces(q) \/ ServerReadVoucher(q)
         \/ ServerInsertVoucher(q) \/ OrphanEnds(q) \/ ServerFails(q) \/ RecipientRefused(q)
  PROVE  IInv'
  <1>1. CASE ServerInsertRaces(q) \/ ServerFails(q) \/ RecipientRefused(q)
    BY <1>1, RequestFails DEF ServerInsertRaces, ServerFails, RecipientRefused
  <1>. QED
    BY <1>1, ServerInsertKeeps, ServerReadVoucherKeeps, ServerInsertVoucherKeeps, OrphanEndsKeeps

-----------------------------------------------------------------------------
(* The surroundings                                                        *)

LEMMA LinkPlotKeeps ==
  ASSUME IInv, LinkPlot
  PROVE  IInv'
  <1>1. RowsInv' /\ KnownRows \subseteq KnownRows'
    BY SameRowsKnown DEF LinkPlot, server, IInv
  <1>2. OpInv'
    <2>1. \A a : Stages(a) \subseteq Stages(a)'
      BY <1>1, StagesGrow DEF LinkPlot, server
    <2>. QED
      BY <2>1 DEF LinkPlot, IInv, OpInv
  <1>3. ReceiptsInv' /\ ServerInv' /\ RequestsInv' /\ RestInv'
    BY DEF LinkPlot, IInv, ReceiptsInv, OwnedReceipts, ServerInv, RequestsInv, Stored, Genuine,
      RestInv, server
  <1>4. WaitInv'
    BY DEF LinkPlot, IInv, WaitInv, WaitsFor, Current
  <1>. QED
    BY <1>1, <1>2, <1>3, <1>4 DEF IInv

LEMMA QueueLosesRowKeeps ==
  ASSUME IInv, QueueLosesRow
  PROVE  IInv'
  <1>1. /\ rows' \subseteq rows /\ Fault
        /\ UNCHANGED <<linked, receipts, nextRow, submitted, op, server, requests>>
    BY DEF QueueLosesRow
  <1>2. RowsInv' /\ KnownRows \subseteq KnownRows'
    BY <1>1, RowsLeft DEF IInv
  <1>3. OpInv'
    <2>1. \A a : Stages(a) \subseteq Stages(a)'
      BY <1>1, <1>2, StagesGrow DEF server
    <2>. QED
      BY <1>1, <2>1 DEF IInv, OpInv
  <1>4. ReceiptsInv' /\ ServerInv' /\ RequestsInv'
    BY <1>1 DEF IInv, ReceiptsInv, OwnedReceipts, ServerInv, RequestsInv, Stored, Genuine, server
  <1>5. WaitInv'
    BY <1>1 DEF IInv, WaitInv, WaitsFor, Current
  <1>6. RestInv'
    BY <1>1, FaultCounted DEF IInv, RestInv
  <1>. QED
    BY <1>2, <1>3, <1>4, <1>5, <1>6 DEF IInv

LEMMA KillKeeps ==
  ASSUME IInv, Kill
  PROVE  IInv'
  <1>1. /\ op' = [a \in Actors |-> Idle] /\ Fault
        /\ UNCHANGED <<linked, receipts, rows, nextRow, server>>
        /\ requests' = {[q EXCEPT !.by = Nobody] : q \in requests}
    BY DEF Kill
  <1>2. submitted' \in [Deliveries -> {"no", "synced", "queued", "error", "interrupted"}]
    BY DEF Kill, IInv, RestInv
  <1>3. /\ RowsInv' /\ KnownRows \subseteq KnownRows' /\ ReceiptsInv' /\ ServerInv' /\ RestInv'
    BY <1>1, <1>2, FaultCounted, TablesRest DEF IInv
  <1>4. OpInv'
    <2>1. \A a \in Actors : Idle \in Stages(a)'
      BY DEF Stages, SubmitStages, PipelineStages, ScreenStages
    <2>. QED
      BY <1>1, <2>1 DEF OpInv
  <1>5. ASSUME NEW q \in requests, NEW n, n = [q EXCEPT !.by = Nobody]
        PROVE  /\ n \in Request /\ n.by = Nobody /\ n.event = q.event /\ n.delivery = q.delivery
               /\ n.stage = q.stage /\ n.tx = q.tx /\ n.qr = q.qr
    BY <1>5 DEF IInv, RequestsInv, Request
  <1>6. ASSUME NEW n \in requests'
        PROVE  \E q \in requests :
                 /\ n = [q EXCEPT !.by = Nobody]
                 /\ n \in Request /\ n.by = Nobody /\ n.event = q.event /\ n.delivery = q.delivery
                 /\ n.stage = q.stage /\ n.tx = q.tx /\ n.qr = q.qr
    <2>1. PICK q \in requests : n = [q EXCEPT !.by = Nobody]
      BY <1>1
    <2>. QED
      BY <1>5, <2>1
  <1>7. \A r : Stored(r)' <=> Stored(r)
    BY <1>1 DEF Stored, server
  <1>8. \A e, d : Genuine(e, d)' <=> Genuine(e, d)
    BY <1>1 DEF Genuine, server
  <1>9. ASSUME NEW n \in requests'
        PROVE  /\ n \in Request /\ Genuine(n.event, n.delivery)
               /\ n.stage \in {"inserted", "replay", "answered"} => Stored(n)
               /\ n.stage = "inserted" => \A v \in vouchers : v.id # n.tx
               /\ n.stage = "answered" /\ n.qr # NoQr =>
                    n.qr = n.tx /\ \E v \in vouchers : v.id = n.tx
    <2>1. PICK q \in requests :
             /\ n \in Request /\ n.by = Nobody /\ n.event = q.event /\ n.delivery = q.delivery
             /\ n.stage = q.stage /\ n.tx = q.tx /\ n.qr = q.qr
      BY <1>6
    <2>. QED
      BY <2>1 DEF IInv, RequestsInv, Stored
  <1>10. ASSUME NEW m \in requests', NEW n \in requests',
                m.stage = "inserted", n.stage = "inserted", m.tx = n.tx
         PROVE  m = n
    <2>1. PICK q \in requests : m = [q EXCEPT !.by = Nobody] /\ m.stage = q.stage /\ m.tx = q.tx
      BY <1>6
    <2>2. PICK r \in requests : n = [r EXCEPT !.by = Nobody] /\ n.stage = r.stage /\ n.tx = r.tx
      BY <1>6
    <2>3. q = r
      BY <1>10, <2>1, <2>2 DEF IInv, RequestsInv
    <2>. QED
      BY <2>1, <2>2, <2>3
  <1>11. RequestsInv'
    <2>1. vouchers' = vouchers
      BY <1>1 DEF server
    <2>. QED
      BY <1>7, <1>8, <1>9, <1>10, <2>1 DEF RequestsInv
  <1>12. WaitInv'
    BY <1>6 DEF WaitInv
  <1>. QED
    BY <1>3, <1>4, <1>11, <1>12 DEF IInv

LEMMA StutterKeeps ==
  ASSUME IInv, UNCHANGED vars
  PROVE  IInv'
  <1>1. /\ UNCHANGED <<linked, receipts, rows, nextRow, submitted, op, transactions, vouchers>>
        /\ UNCHANGED <<requests, faults>>
    BY DEF vars, device, server
  <1>2. RowsInv' /\ KnownRows \subseteq KnownRows' /\ ReceiptsInv' /\ ServerInv' /\ RestInv'
    BY <1>1, TablesRest DEF IInv, RestInv, server
  <1>3. OpInv'
    <2>1. \A a : Stages(a) \subseteq Stages(a)'
      BY <1>1, <1>2, StagesGrow
    <2>. QED
      BY <1>1, <2>1 DEF IInv, OpInv
  <1>4. RequestsInv' /\ WaitInv'
    BY <1>1 DEF IInv, RequestsInv, Stored, Genuine, WaitInv, WaitsFor, Current
  <1>. QED
    BY <1>2, <1>3, <1>4 DEF IInv

-----------------------------------------------------------------------------
(* The invariant of every behaviour                                        *)

LEMMA InitHolds ==
  ASSUME Init
  PROVE  IInv
  <1>1. OpInv
    <2>1. op = [a \in Actors |-> op[a]] /\ \A a \in Actors : op[a] = Idle
      BY DEF Init
    <2>2. \A a : Idle \in Stages(a)
      BY DEF Stages, SubmitStages, PipelineStages, ScreenStages
    <2>. QED
      BY <2>1, <2>2 DEF OpInv
  <1>2. ReceiptsInv /\ RowsInv
    BY ConstantsAssumption DEF Init, ReceiptsInv, RowsInv
  <1>3. ServerInv
    BY FS_EmptySet DEF Init, ServerInv
  <1>4. RequestsInv /\ WaitInv
    BY DEF Init, RequestsInv, WaitInv
  <1>5. RestInv
    BY ConstantsAssumption DEF Init, RestInv
  <1>. QED
    BY <1>1, <1>2, <1>3, <1>4, <1>5 DEF IInv

LEMMA PipelineStepKeeps ==
  ASSUME IInv, NEW p \in Pipelines, PipelineStep(p)
  PROVE  IInv'
  <1>. USE DEF PipelineStep, RestoreStep
  <1>1. CASE RestoreStep(p) \/ FetchAgain(p) \/ LoadSnapshot(p)
    BY <1>1, FetchVouchersKeeps, LoadExistingKeeps, RestoreReceiptKeeps, RestoreDoneKeeps,
      FetchAgainKeeps, LoadSnapshotKeeps
  <1>2. CASE \/ ListMissing(p) \/ Requeue(p) \/ FlagRead(p) \/ FlagWrite(p) \/ ReconcileDone(p)
             \/ Collect(p) \/ EnqueuePending(p) \/ EnqueueDone(p)
    BY <1>2, ListMissingKeeps, RequeueKeeps, FlagReadKeeps, FlagWriteKeeps, ReconcileDoneKeeps,
      CollectKeeps, EnqueuePendingKeeps, EnqueueDoneKeeps
  <1>3. CASE \/ PostRow(p) \/ SkipRow(p) \/ RowAnswered(p) \/ RowFailed(p)
             \/ UpdateReceipt(p) \/ DeleteRow(p) \/ PassDone(p)
    BY <1>3, PostRowKeeps, SkipRowKeeps, RowAnsweredKeeps, RowFailedKeeps, UpdateReceiptKeeps,
      DeleteRowKeeps, PassDoneKeeps
  <1>. QED
    BY <1>1, <1>2, <1>3

LEMMA NextKeeps ==
  ASSUME IInv, [Next]_vars
  PROVE  IInv'
  <1>1. ASSUME NEW d \in Deliveries, SubmitStep(d) \/ SubmitSilence(d) PROVE IInv'
    BY <1>1, SubmitKeeps, SubmitAnsweredKeeps, SubmitRefusedKeeps, SubmitEnqueueKeeps,
      SubmitSaveKeeps, SubmitSilenceKeeps DEF SubmitStep
  <1>2. ASSUME NEW s \in Screens, RestoreStep(s) \/ ReceiptPageStep(s) PROVE IInv'
    BY <1>2, FetchVouchersKeeps, LoadExistingKeeps, RestoreReceiptKeeps, RestoreDoneKeeps,
      SyncReceiptKeeps, BackupEndsKeeps, MatchReceiptKeeps, StoreMatchKeeps
      DEF RestoreStep, ReceiptPageStep
  <1>3. ASSUME NEW p \in Pipelines, PipelineStep(p) \/ FetchFails(p) PROVE IInv'
    BY <1>3, PipelineStepKeeps, FetchFailsKeeps
  <1>4. ASSUME ServerStep \/ \E q \in requests : ServerFails(q) \/ RecipientRefused(q) PROVE IInv'
    BY <1>4, ServerStepKeeps DEF ServerStep
  <1>. QED
    BY <1>1, <1>2, <1>3, <1>4, LinkPlotKeeps, QueueLosesRowKeeps, KillKeeps, StutterKeeps DEF Next

(* In every behaviour each actor remembers only what was in the tables, an *)
(* event is one transaction of one delivery, and an answer reaches only    *)
(* the actor that posted that event.                                       *)
THEOREM TablesStayOk == Spec => []IInv
  <1>. QED
    BY InitHolds, NextKeeps, PTL DEF Spec

(* The tables and what the actors do are always of their types.            *)
THEOREM TypeCorrect == Spec => []TypeOK
  <1>1. ASSUME IInv PROVE TypeOK
    <2>1. DOMAIN op = Actors
      BY <1>1 DEF IInv, OpInv
    <2>2. ASSUME NEW a \in Actors PROVE op[a].pc \in Pcs
      <3>1. op[a] \in Stages(a)
        BY <1>1 DEF IInv, OpInv
      <3>2. CASE op[a] \in SubmitStages
        BY <3>2 DEF SubmitStages, Idle, Postings, Savings, Pcs
      <3>3. CASE op[a] \in ScreenStages
        BY <3>3 DEF ScreenStages, Idle, Listings, Restorings, Syncings, Lookings, Matched, Pcs
      <3>4. CASE op[a] \in PipelineStages
        BY <3>4 DEF PipelineStages, Idle, Beginnings, Listings, Restorings, Queueings, FlagReads,
          FlagWrites, Starts, Drainings, Updatings, Deletings, Pcs
      <3>. QED
        BY <3>1, <3>2, <3>3, <3>4 DEF Stages
    <2>3. receipts \subseteq Receipt /\ rows \subseteq QueueRow
      BY <1>1 DEF IInv, ReceiptsInv, RowsInv, OwnedReceipts, KnownRows
    <2>. QED
      BY <1>1, <2>1, <2>2, <2>3
      DEF IInv, ReceiptsInv, RowsInv, ServerInv, RequestsInv, RestInv, TypeOK
  <1>. QED
    BY <1>1, TablesStayOk, PTL

(* "server-idempotent via the (farmer_id, client_event_id) UNIQUE          *)
(* constraint" (processPendingSyncQueue.ts:269): however often a row is    *)
(* posted, by whichever pipeline, its event is one transaction with at     *)
(* most one voucher.                                                       *)
THEOREM EventOnce == Spec => []EventRecordedOnce
  <1>1. IInv => EventRecordedOnce
    BY DEF IInv, ServerInv, EventRecordedOnce
  <1>. QED
    BY <1>1, TablesStayOk, PTL

-----------------------------------------------------------------------------
(* What the app takes for recorded                                         *)

LEMMA KnowledgeGrows ==
  ASSUME transactions \subseteq transactions', vouchers \subseteq vouchers'
  PROVE  /\ \A d : (Recorded(d) => Recorded(d)') /\ (SeemsRecorded(d) => SeemsRecorded(d)')
         /\ \A qr, e, d : QrOf(qr, e, d) => QrOf(qr, e, d)'
  <1>1. \A d : Recorded(d) => Recorded(d)'
    BY DEF Recorded
  <1>2. \A d : SeemsRecorded(d) => SeemsRecorded(d)'
    BY <1>1 DEF SeemsRecorded, Alike, LooksLike
  <1>3. \A qr, e, d : QrOf(qr, e, d) => QrOf(qr, e, d)'
    BY DEF QrOf, Alike, LooksLike
  <1>. QED
    BY <1>1, <1>2, <1>3

(* What a delivery or a pipeline is about to write is known, after a step. *)
SavesKnown(d) ==
  \/ op'[d] = op[d]
  \/ op'[d].pc = "saving" =>
       (~op'[d].pending => Recorded(d)') /\ QrOf(op[d].qr, Own(d), d)'

WritesKnown(p) ==
  \/ op'[p] = op[p]
  \/ /\ op'[p].pc = "updating" =>
          \A r \in Current(p)' : Recorded(r.delivery)' /\ QrOf(op[p].qr, r.event, r.delivery)'
     /\ op'[p].pc = "flagwrite" => QrOf(op[p].read.qr, op[p].read.id, op[p].read.delivery)'

LEMMA ActorsTrust ==
  ASSUME TrustInv, transactions \subseteq transactions', vouchers \subseteq vouchers',
         \A d \in Deliveries : SavesKnown(d), \A p \in Pipelines : WritesKnown(p)
  PROVE  /\ \A d \in Deliveries : op'[d].pc = "saving" =>
              (~op'[d].pending => Recorded(d)') /\ QrOf(op[d].qr, Own(d), d)'
         /\ \A p \in Pipelines : op'[p].pc = "updating" =>
              \A r \in Current(p)' :
                Recorded(r.delivery)' /\ QrOf(op[p].qr, r.event, r.delivery)'
         /\ \A p \in Pipelines : op'[p].pc = "flagwrite" =>
              QrOf(op[p].read.qr, op[p].read.id, op[p].read.delivery)'
  <1>1. ASSUME NEW d \in Deliveries, op'[d].pc = "saving", op'[d] = op[d]
        PROVE  (~op'[d].pending => Recorded(d)') /\ QrOf(op[d].qr, Own(d), d)'
    <2>1. (~op[d].pending => Recorded(d)) /\ QrOf(op[d].qr, Own(d), d)
      BY <1>1 DEF TrustInv, RecordedInv, QrInv
    <2>2. QrOf(op[d].qr, Own(d), d)'
      BY <1>1, <2>1 DEF QrOf, Alike, LooksLike
    <2>. QED
      BY <1>1, <2>1, <2>2, KnowledgeGrows
  <1>2. ASSUME NEW p \in Pipelines, op'[p].pc = "updating", op'[p] = op[p], NEW r \in Current(p)'
        PROVE  Recorded(r.delivery)' /\ QrOf(op[p].qr, r.event, r.delivery)'
    <2>1. r \in Current(p)
      BY <1>2 DEF Current
    <2>2. Recorded(r.delivery) /\ QrOf(op[p].qr, r.event, r.delivery)
      BY <1>2, <2>1 DEF TrustInv, RecordedInv, QrInv
    <2>3. QrOf(op[p].qr, r.event, r.delivery)'
      BY <1>2, <2>2 DEF QrOf, Alike, LooksLike
    <2>. QED
      BY <2>2, <2>3, KnowledgeGrows
  <1>3. ASSUME NEW p \in Pipelines, op'[p].pc = "flagwrite", op'[p] = op[p]
        PROVE  QrOf(op[p].read.qr, op[p].read.id, op[p].read.delivery)'
    <2>1. QrOf(op[p].read.qr, op[p].read.id, op[p].read.delivery)
      BY <1>3 DEF TrustInv, QrInv
    <2>. QED
      BY <1>3, <2>1 DEF QrOf, Alike, LooksLike
  <1>. QED
    BY <1>1, <1>2, <1>3 DEF SavesKnown, WritesKnown

(* A step that may write receipts and tell the farmer something.           *)
LEMMA TrustStep ==
  ASSUME TrustInv, transactions \subseteq transactions', vouchers \subseteq vouchers',
         \A d \in Deliveries : SavesKnown(d), \A p \in Pipelines : WritesKnown(p),
         \A r \in receipts' :
           r \in receipts \/ /\ ~r.pending => SeemsRecorded(r.delivery)'
                             /\ QrOf(r.qr, r.id, r.delivery)',
         \A r \in receipts : \E new \in receipts' : new.id = r.id,
         \A d \in Deliveries : submitted'[d] \in {"synced", "queued"} =>
           submitted[d] \in {"synced", "queued"} \/ \E r \in receipts' : r.id = Own(d)
  PROVE  TrustInv'
  <1>1. RecordedInv'
    <2>1. \A r \in receipts' : ~r.pending => SeemsRecorded(r.delivery)'
      BY KnowledgeGrows DEF TrustInv, RecordedInv
    <2>2. \A d \in Deliveries : submitted'[d] \in {"synced", "queued"} =>
            \E r \in receipts' : r.id = Own(d)
      BY DEF TrustInv, RecordedInv
    <2>. QED
      BY <2>1, <2>2, ActorsTrust DEF RecordedInv
  <1>2. QrInv'
    <2>1. \A r \in receipts' : QrOf(r.qr, r.id, r.delivery)'
      BY KnowledgeGrows DEF TrustInv, QrInv
    <2>. QED
      BY <2>1, ActorsTrust DEF QrInv
  <1>. QED
    BY <1>1, <1>2 DEF TrustInv

(* One actor goes on, with nothing new to write.                           *)
LEMMA OnlyMoves ==
  ASSUME OpInv, NEW a \in Actors, NEW next, Becomes(a, next),
         a \in Deliveries => next.pc # "saving" \/ (next.pending /\ next.qr = NoQr),
         a \in Pipelines => next.pc \notin {"updating", "flagwrite"}
  PROVE  (\A d \in Deliveries : SavesKnown(d)) /\ (\A p \in Pipelines : WritesKnown(p))
  <1>1. \A b \in Actors : op'[b] = IF b = a THEN next ELSE op[b]
    BY DEF OpInv, Becomes
  <1>2. Deliveries \subseteq Actors /\ Pipelines \subseteq Actors
    BY DEF Actors
  <1>3. \A d \in Deliveries : op'[d] = op[d] \/ op'[d].pc # "saving" \/
                             (op'[d].pending /\ op'[d].qr = NoQr)
    BY <1>1, <1>2
  <1>4. \A p \in Pipelines : op'[p] = op[p] \/ op'[p].pc \notin {"updating", "flagwrite"}
    BY <1>1, <1>2
  <1>. QED
    BY <1>3, <1>4 DEF SavesKnown, WritesKnown, QrOf

LEMMA QuietTrust ==
  ASSUME IInv, TrustInv, NEW a \in Actors, NEW next, Becomes(a, next),
         a \in Deliveries => next.pc # "saving" \/ (next.pending /\ next.qr = NoQr),
         a \in Pipelines => next.pc \notin {"updating", "flagwrite"},
         UNCHANGED <<receipts, submitted, server>>
  PROVE  TrustInv'
  BY OnlyMoves, TrustStep DEF IInv, server

LEMMA RestorerTrust ==
  ASSUME IInv, TrustInv, NEW a \in Pipelines \cup Screens, RestoreStep(a)
  PROVE  TrustInv'
  <1>1. a \in Actors /\ a \notin Deliveries
    BY ConstantsAssumption DEF Actors
  <1>2. CASE FetchVouchers(a)
    <2>1. PICK next : Becomes(a, next) /\ next.pc = "fetched"
      BY <1>2 DEF FetchVouchers
    <2>. QED
      BY <1>1, <1>2, <2>1, QuietTrust DEF FetchVouchers
  <1>3. CASE LoadExisting(a)
    <2>1. PICK next : Becomes(a, next) /\ next.pc = "restoring"
      BY <1>3 DEF LoadExisting
    <2>. QED
      BY <1>1, <1>3, <2>1, QuietTrust DEF LoadExisting
  <1>4. CASE RestoreDone(a)
    <2>1. PICK next : Becomes(a, next) /\ next.pc \in {"idle", "reconciling"}
      BY <1>4 DEF RestoreDone, Idle
    <2>. QED
      BY <1>1, <1>4, <2>1, QuietTrust DEF RestoreDone
  <1>5. CASE RestoreReceipt(a)
    <2>1. PICK o : o = op[a]
      OBVIOUS
    <2>2. PICK v \in o.todo, t \in transactions :
            /\ t.id = v.id
            /\ receipts' = (receipts \ ReceiptOf(Restored(v.id))) \cup
                 {[id |-> Restored(v.id), delivery |-> t.delivery, qr |-> v.id, pending |-> FALSE]}
            /\ Becomes(a, [o EXCEPT !.todo = o.todo \ {v}])
      BY <1>5, <2>1 DEF RestoreReceipt
    <2>3. o \in Restorings /\ v \in vouchers
      BY <1>5, <2>1, <2>2, RestorerShape DEF RestoreReceipt, IInv, Restorings
    <2>4. PICK next : next = [o EXCEPT !.todo = o.todo \ {v}]
      OBVIOUS
    <2>5. Becomes(a, next) /\ next.pc = "restoring"
      BY <2>2, <2>3, <2>4 DEF Restorings
    <2>6. (\A d \in Deliveries : SavesKnown(d)) /\ (\A p \in Pipelines : WritesKnown(p))
      BY <1>1, <2>5, OnlyMoves DEF IInv
    <2>7. PICK new : new = [id |-> Restored(v.id), delivery |-> t.delivery, qr |-> v.id,
                            pending |-> FALSE]
      OBVIOUS
    <2>8. /\ new.id = Restored(v.id) /\ new.delivery = t.delivery /\ new.qr = v.id
          /\ receipts' = (receipts \ ReceiptOf(Restored(v.id))) \cup {new}
      BY <2>2, <2>7
    <2>9. UNCHANGED <<submitted, transactions, vouchers>>
      BY <1>5 DEF RestoreReceipt, server
    <2>10. SeemsRecorded(new.delivery)' /\ QrOf(new.qr, new.id, new.delivery)'
      BY <2>2, <2>3, <2>8, <2>9 DEF SeemsRecorded, Recorded, QrOf
    <2>11. /\ \A r \in receipts' : r \in receipts \/ r = new
           /\ \A r \in receipts : \E n \in receipts' : n.id = r.id
      BY <2>8 DEF ReceiptOf
    <2>. QED
      BY <2>6, <2>9, <2>10, <2>11, TrustStep
  <1>. QED
    BY <1>2, <1>3, <1>4, <1>5 DEF RestoreStep

LEMMA MovedOnly ==
  ASSUME OpInv, NEW a \in Actors, NEW next, Becomes(a, next)
  PROVE  \A b \in Actors : op'[b] = IF b = a THEN next ELSE op[b]
  BY DEF OpInv, Becomes

(* The farmer is told of a delivery.                                       *)
LEMMA SubmitTrust ==
  ASSUME IInv, TrustInv, NEW d \in Deliveries, SubmitStep(d) \/ SubmitSilence(d)
  PROVE  TrustInv'
  <1>1. d \in Actors /\ d \notin Pipelines
    BY ConstantsAssumption DEF Actors
  <1>2. CASE Submit(d)
    <2>1. PICK next : Becomes(d, next) /\ next.pc \in {"posting", "queueing"}
      BY <1>2 DEF Submit
    <2>. QED
      BY <1>1, <1>2, <2>1, QuietTrust DEF Submit
  <1>3. CASE SubmitSilence(d)
    <2>1. PICK next : Becomes(d, next) /\ next.pc = "queueing"
      BY <1>3 DEF SubmitSilence
    <2>. QED
      BY <1>1, <1>3, <2>1, QuietTrust DEF SubmitSilence
  <1>4. CASE SubmitEnqueue(d)
    <2>1. PICK next : Becomes(d, next) /\ next.qr = NoQr /\ next.pending
      BY <1>4 DEF SubmitEnqueue
    <2>. QED
      BY <1>1, <1>4, <2>1, QuietTrust DEF SubmitEnqueue
  <1>5. CASE SubmitRefused(d)
    <2>1. /\ Becomes(d, Idle) /\ UNCHANGED <<receipts, transactions, vouchers>>
          /\ submitted' = [submitted EXCEPT ![d] = "error"]
      BY <1>5 DEF SubmitRefused, server
    <2>2. \A e \in Deliveries : submitted'[e] \in {"synced", "queued"} =>
            submitted[e] \in {"synced", "queued"}
      BY <2>1 DEF IInv, RestInv
    <2>3. Idle.pc = "idle"
      BY DEF Idle
    <2>4. (\A e \in Deliveries : SavesKnown(e)) /\ (\A p \in Pipelines : WritesKnown(p))
      BY <1>1, <2>1, <2>3, OnlyMoves DEF IInv
    <2>. QED
      BY <2>1, <2>2, <2>4, TrustStep
  <1>6. CASE SubmitAnswered(d)
    <2>1. PICK q \in requests :
            Answered(d, q) /\ Becomes(d, [pc |-> "saving", qr |-> q.qr, pending |-> FALSE])
      BY <1>6 DEF SubmitAnswered
    <2>2. UNCHANGED <<receipts, submitted, transactions, vouchers>>
      BY <1>6 DEF SubmitAnswered, server
    <2>3. q.stage = "answered" /\ q.event = Own(d) /\ q.delivery = d
      <3>1. d # Nobody
        BY ConstantsAssumption
      <3>. QED
        BY <2>1, <3>1 DEF Answered, IInv, WaitInv, WaitsFor
    <2>4. Stored(q) /\ (q.qr # NoQr => q.qr = q.tx /\ \E v \in vouchers : v.id = q.tx)
      BY <2>3 DEF IInv, RequestsInv
    <2>5. Recorded(d)' /\ QrOf(q.qr, Own(d), d)
      BY <2>2, <2>3, <2>4 DEF Stored, Recorded, QrOf
    <2>6. PICK next : next = [pc |-> "saving", qr |-> q.qr, pending |-> FALSE]
      OBVIOUS
    <2>7. next.qr = q.qr /\ Becomes(d, next)
      BY <2>1, <2>6
    <2>8. \A b \in Actors : op'[b] = IF b = d THEN next ELSE op[b]
      BY <1>1, <2>7, MovedOnly DEF IInv
    <2>9. op'[d] = next /\ \A b \in Actors : b # d => op'[b] = op[b]
      BY <1>1, <2>8
    <2>10. QrOf(op[d].qr, Own(d), d)'
      BY <2>2, <2>5, <2>7, <2>9 DEF QrOf, Alike, LooksLike
    <2>11. (\A e \in Deliveries : SavesKnown(e)) /\ (\A p \in Pipelines : WritesKnown(p))
      BY <1>1, <2>5, <2>9, <2>10 DEF SavesKnown, WritesKnown, Actors
    <2>. QED
      BY <2>2, <2>11, TrustStep
  <1>7. CASE SubmitSave(d)
    <2>1. PICK new : new = [id |-> Own(d), delivery |-> d, qr |-> op[d].qr, pending |-> op[d].pending]
      OBVIOUS
    <2>2. /\ op[d].pc = "saving" /\ Becomes(d, Idle)
          /\ receipts' = (receipts \ ReceiptOf(Own(d))) \cup {new}
          /\ UNCHANGED <<transactions, vouchers>>
          /\ submitted' = [submitted EXCEPT ![d] =
               IF op[d].pending THEN "queued" ELSE "synced"]
      BY <1>7, <2>1 DEF SubmitSave, server
    <2>3. new.id = Own(d) /\ new.delivery = d /\ new.qr = op[d].qr /\ new.pending = op[d].pending
      BY <2>1
    <2>4. (~op[d].pending => Recorded(d)) /\ QrOf(op[d].qr, Own(d), d)
      BY <2>2 DEF TrustInv, RecordedInv, QrInv
    <2>5. (~new.pending => SeemsRecorded(new.delivery)') /\ QrOf(new.qr, new.id, new.delivery)'
      BY <2>2, <2>3, <2>4, KnowledgeGrows DEF SeemsRecorded
    <2>6. /\ \A r \in receipts' : r \in receipts \/ r = new
          /\ \A r \in receipts : \E n \in receipts' : n.id = r.id
          /\ new \in receipts'
      BY <2>2, <2>3 DEF ReceiptOf
    <2>7. \A e \in Deliveries : submitted'[e] \in {"synced", "queued"} =>
            submitted[e] \in {"synced", "queued"} \/ \E r \in receipts' : r.id = Own(e)
      BY <2>2, <2>3, <2>6 DEF IInv, RestInv
    <2>8. Idle.pc = "idle"
      BY DEF Idle
    <2>9. (\A e \in Deliveries : SavesKnown(e)) /\ (\A p \in Pipelines : WritesKnown(p))
      BY <1>1, <2>2, <2>8, OnlyMoves DEF IInv
    <2>. QED
      BY <2>2, <2>5, <2>6, <2>7, <2>9, TrustStep
  <1>. QED
    BY <1>2, <1>3, <1>4, <1>5, <1>6, <1>7 DEF SubmitStep

(* The page of a receipt takes a voucher that looks like the delivery.     *)
LEMMA ReceiptPageTrust ==
  ASSUME IInv, TrustInv, NEW s \in Screens, ReceiptPageStep(s)
  PROVE  TrustInv'
  <1>1. s \in Actors /\ s \notin Deliveries /\ s \notin Pipelines
    BY ConstantsAssumption DEF Actors
  <1>2. CASE SyncReceipt(s)
    <2>1. \E r \in receipts, p \in Pipelines :
            op' = [op EXCEPT ![p] = [pc |-> "started"],
                             ![s] = [pc |-> "syncing", delivery |-> r.delivery, pipeline |-> p]]
      BY <1>2 DEF SyncReceipt
    <2>2. UNCHANGED <<receipts, submitted, transactions, vouchers>>
      BY <1>2 DEF SyncReceipt, server
    <2>3. \A b \in Actors : b # s => op'[b] = op[b] \/ op'[b].pc = "started"
      BY <2>1 DEF IInv, OpInv
    <2>4. (\A d \in Deliveries : SavesKnown(d)) /\ (\A q \in Pipelines : WritesKnown(q))
      BY <1>1, <2>3 DEF SavesKnown, WritesKnown, Actors
    <2>. QED
      BY <2>2, <2>4, TrustStep
  <1>3. CASE BackupEnds(s) \/ MatchReceipt(s)
    <2>1. PICK next : Becomes(s, next)
      BY <1>3 DEF BackupEnds, MatchReceipt, Becomes
    <2>. QED
      BY <1>1, <1>3, <2>1, QuietTrust DEF BackupEnds, MatchReceipt
  <1>4. CASE StoreMatch(s)
    <2>1. PICK o : o = op[s]
      OBVIOUS
    <2>2. o \in Matched
      BY <1>4, <2>1, ScreenShape DEF StoreMatch, IInv
    <2>3. /\ receipts' = (receipts \ ReceiptOf(Own(o.delivery))) \cup
               {[r EXCEPT !.qr = o.qr, !.pending = FALSE] : r \in ReceiptOf(Own(o.delivery))}
          /\ Becomes(s, Idle) /\ UNCHANGED <<submitted, server>>
      BY <1>4, <2>1 DEF StoreMatch
    <2>4. PICK v \in vouchers : v.id = o.qr /\ Alike(o.delivery, v)
      BY <2>2 DEF Matched, Alike
    <2>5. PICK t \in transactions : t.id = o.qr
      BY <2>4 DEF IInv, ServerInv
    <2>6. o.qr \in 0..MaxTransactions /\ o.delivery \in Deliveries
      BY <2>2, ConstantsAssumption DEF Matched, Vouchers
    <2>7. Marks(Own(o.delivery), o.qr)
      BY <2>3, <2>6, ReceiptMarked DEF IInv
    <2>8. SeemsRecorded(o.delivery) /\ QrOf(o.qr, Own(o.delivery), o.delivery)
      BY <2>4, <2>5 DEF SeemsRecorded, QrOf
    <2>9. ASSUME NEW r \in receipts', r \notin receipts
          PROVE  /\ ~r.pending => SeemsRecorded(r.delivery)'
                 /\ QrOf(r.qr, r.id, r.delivery)'
      <3>1. PICK old \in receipts :
              /\ old.id = Own(o.delivery) /\ r.id = Own(o.delivery)
              /\ r.delivery = old.delivery /\ r.qr = o.qr
        BY <2>7, <2>9 DEF Marks
      <3>2. Genuine(old.id, old.delivery) /\ Genuine(Own(o.delivery), o.delivery)
        BY DEF IInv, ReceiptsInv, OwnedReceipts, Genuine
      <3>3. r.delivery = o.delivery
        BY <3>1, <3>2, GenuineOne DEF IInv
      <3>. QED
        BY <2>3, <2>8, <3>1, <3>3, KnowledgeGrows DEF server
    <2>10. (\A d \in Deliveries : SavesKnown(d)) /\ (\A q \in Pipelines : WritesKnown(q))
      BY <1>1, <2>3, OnlyMoves DEF IInv
    <2>. QED
      BY <2>3, <2>7, <2>9, <2>10, TrustStep DEF server, Marks
  <1>. QED
    BY <1>2, <1>3, <1>4 DEF ReceiptPageStep

LEMMA QuietPipelineTrust ==
  ASSUME IInv, TrustInv, NEW p \in Pipelines, NEW next, Becomes(p, next),
         next.pc \notin {"updating", "flagwrite"}, UNCHANGED <<receipts, submitted, server>>
  PROVE  TrustInv'
  <1>1. p \in Actors /\ p \notin Deliveries
    BY ConstantsAssumption DEF Actors
  <1>. QED
    BY <1>1, QuietTrust

(* A pipeline re-queues receipts.                                          *)
LEMMA RequeueTrust ==
  ASSUME IInv, TrustInv, NEW p \in Pipelines,
         \/ FetchAgain(p) \/ FetchFails(p) \/ ListMissing(p) \/ Requeue(p)
         \/ FlagRead(p) \/ FlagWrite(p) \/ ReconcileDone(p)
         \/ Collect(p) \/ EnqueuePending(p) \/ EnqueueDone(p)
  PROVE  TrustInv'
  <1>1. p \in Actors /\ p \notin Deliveries
    BY ConstantsAssumption DEF Actors
  <1>2. CASE FetchFails(p)
    <2>1. PICK next : Becomes(p, next) /\ next.pc = "refetching"
      BY <1>2 DEF FetchFails
    <2>. QED
      BY <1>2, <2>1, QuietPipelineTrust DEF FetchFails
  <1>3. CASE FetchAgain(p)
    <2>1. CASE \E list : Becomes(p, [pc |-> "reconciling", list |-> list])
      <3>1. PICK next : Becomes(p, next) /\ next.pc = "reconciling"
        BY <2>1
      <3>. QED
        BY <1>3, <3>1, QuietPipelineTrust DEF FetchAgain
    <2>2. CASE Becomes(p, [pc |-> "collecting"])
      <3>1. PICK next : Becomes(p, next) /\ next.pc = "collecting"
        BY <2>2
      <3>. QED
        BY <1>3, <3>1, QuietPipelineTrust DEF FetchAgain
    <2>. QED
      BY <1>3, <2>1, <2>2 DEF FetchAgain
  <1>4. CASE ListMissing(p)
    <2>1. PICK next : Becomes(p, next) /\ next.pc = "requeueing"
      BY <1>4 DEF ListMissing
    <2>. QED
      BY <1>4, <2>1, QuietPipelineTrust DEF ListMissing
  <1>5. CASE Requeue(p)
    <2>1. PICK next : Becomes(p, next) /\ next.pc = "flagread"
      BY <1>5 DEF Requeue
    <2>. QED
      BY <1>5, <2>1, QuietPipelineTrust DEF Requeue
  <1>6. CASE ReconcileDone(p)
    <2>1. PICK next : Becomes(p, next) /\ next.pc = "collecting"
      BY <1>6 DEF ReconcileDone
    <2>. QED
      BY <1>6, <2>1, QuietPipelineTrust DEF ReconcileDone
  <1>7. CASE Collect(p)
    <2>1. PICK next : Becomes(p, next) /\ next.pc = "enqueueing"
      BY <1>7 DEF Collect
    <2>. QED
      BY <1>7, <2>1, QuietPipelineTrust DEF Collect
  <1>8. CASE EnqueuePending(p)
    <2>1. PICK next : Becomes(p, next) /\ next.pc = "enqueueing"
      BY <1>8 DEF EnqueuePending
    <2>. QED
      BY <1>8, <2>1, QuietPipelineTrust DEF EnqueuePending
  <1>9. CASE EnqueueDone(p)
    <2>1. PICK next \in {Idle, [pc |-> "startdrain", pass |-> 1]} : Becomes(p, next)
      BY <1>9 DEF EnqueueDone
    <2>. QED
      BY <1>9, <2>1, QuietPipelineTrust DEF EnqueueDone, Idle
  <1>10. CASE FlagRead(p)
    <2>1. PICK r \in receipts : Becomes(p, [pc |-> "flagwrite", read |-> r, todo |-> op[p].todo])
      BY <1>10 DEF FlagRead, ReceiptOf
    <2>2. PICK next : next = [pc |-> "flagwrite", read |-> r, todo |-> op[p].todo]
      OBVIOUS
    <2>3. next.pc = "flagwrite" /\ next.read = r /\ Becomes(p, next)
      BY <2>1, <2>2
    <2>4. op'[p] = next /\ \A b \in Actors : b # p => op'[b] = op[b]
      BY <1>1, <2>3, MovedOnly DEF IInv
    <2>5. UNCHANGED <<receipts, submitted, transactions, vouchers>>
      BY <1>10 DEF FlagRead, server
    <2>6. QrOf(r.qr, r.id, r.delivery)
      BY DEF TrustInv, QrInv
    <2>7. QrOf(op[p].read.qr, op[p].read.id, op[p].read.delivery)'
      BY <2>3, <2>4, <2>5, <2>6 DEF QrOf, Alike, LooksLike
    <2>8. (\A d \in Deliveries : SavesKnown(d)) /\ (\A q \in Pipelines : WritesKnown(q))
      BY <1>1, <2>3, <2>4, <2>7 DEF SavesKnown, WritesKnown, Actors
    <2>. QED
      BY <2>5, <2>8, TrustStep
  <1>11. CASE FlagWrite(p)
    <2>1. PICK read : read = op[p].read
      OBVIOUS
    <2>2. read \in OwnedReceipts
      BY <1>11, <2>1, PipelineShape DEF FlagWrite, IInv, FlagWrites
    <2>3. PICK new : new = [read EXCEPT !.pending = TRUE]
      OBVIOUS
    <2>4. /\ new.id = read.id /\ new.qr = read.qr /\ new.delivery = read.delivery /\ new.pending
      BY <2>2, <2>3 DEF OwnedReceipts, Receipt
    <2>5. /\ op[p].pc = "flagwrite" /\ UNCHANGED <<submitted, transactions, vouchers>>
          /\ receipts' = (receipts \ ReceiptOf(read.id)) \cup {new}
      BY <1>11, <2>1, <2>3 DEF FlagWrite, server
    <2>6. QrOf(read.qr, read.id, read.delivery)
      BY <2>1, <2>5 DEF TrustInv, QrInv
    <2>7. QrOf(new.qr, new.id, new.delivery)'
      BY <2>4, <2>5, <2>6, KnowledgeGrows
    <2>8. /\ \A r \in receipts' : r \in receipts \/ r = new
          /\ \A r \in receipts : \E n \in receipts' : n.id = r.id
      BY <2>4, <2>5 DEF ReceiptOf
    <2>9. PICK next : Becomes(p, next) /\ next.pc = "requeueing"
      BY <1>11 DEF FlagWrite
    <2>10. (\A d \in Deliveries : SavesKnown(d)) /\ (\A q \in Pipelines : WritesKnown(q))
      BY <1>1, <2>9, OnlyMoves DEF IInv
    <2>. QED
      BY <2>4, <2>5, <2>7, <2>8, <2>10, TrustStep
  <1>. QED
    BY <1>2, <1>3, <1>4, <1>5, <1>6, <1>7, <1>8, <1>9, <1>10, <1>11

(* A pipeline drains the queue.                                            *)
LEMMA DrainTrust ==
  ASSUME IInv, TrustInv, NEW p \in Pipelines,
         \/ LoadSnapshot(p) \/ PostRow(p) \/ SkipRow(p) \/ RowAnswered(p) \/ RowFailed(p)
         \/ UpdateReceipt(p) \/ DeleteRow(p) \/ PassDone(p)
  PROVE  TrustInv'
  <1>1. p \in Actors /\ p \notin Deliveries
    BY ConstantsAssumption DEF Actors
  <1>2. CASE LoadSnapshot(p) \/ DeleteRow(p)
    <2>1. PICK next : Becomes(p, next) /\ next.pc = "draining"
      BY <1>2 DEF LoadSnapshot, DeleteRow
    <2>. QED
      BY <1>2, <2>1, QuietPipelineTrust DEF LoadSnapshot, DeleteRow
  <1>3. CASE PassDone(p)
    <2>1. PICK next : Becomes(p, next) /\ next.pc \in {"startdrain", "idle"}
      BY <1>3 DEF PassDone, Idle
    <2>. QED
      BY <1>3, <2>1, QuietPipelineTrust DEF PassDone
  <1>4. CASE PostRow(p) \/ SkipRow(p) \/ RowFailed(p)
    <2>1. PICK o : o = op[p]
      OBVIOUS
    <2>2. o \in Drainings
      BY <1>4, <2>1, PipelineShape DEF PostRow, SkipRow, RowFailed, IInv
    <2>3. PICK posting : posting = [o EXCEPT !.pc = "posting"]
      OBVIOUS
    <2>4. PICK past : past = [o EXCEPT !.pc = "draining", !.todo = o.todo \ Current(p)]
      OBVIOUS
    <2>5. posting.pc = "posting" /\ past.pc = "draining"
      BY <2>2, <2>3, <2>4 DEF Drainings
    <2>6. Becomes(p, posting) \/ Becomes(p, past)
      BY <1>4, <2>1, <2>3, <2>4 DEF PostRow, SkipRow, RowFailed, NextRow
    <2>. QED
      BY <1>4, <2>5, <2>6, QuietPipelineTrust DEF PostRow, SkipRow, RowFailed
  <1>5. CASE RowAnswered(p)
    <2>1. PICK q \in requests :
            /\ Answered(p, q)
            /\ Becomes(p, [pc |-> "updating", todo |-> op[p].todo, pass |-> op[p].pass,
                           progress |-> op[p].progress, qr |-> q.qr])
      BY <1>5 DEF RowAnswered
    <2>2. PICK next : next = [pc |-> "updating", todo |-> op[p].todo, pass |-> op[p].pass,
                              progress |-> op[p].progress, qr |-> q.qr]
      OBVIOUS
    <2>3. next.pc = "updating" /\ next.todo = op[p].todo /\ next.qr = q.qr /\ Becomes(p, next)
      BY <2>1, <2>2
    <2>4. op'[p] = next /\ \A b \in Actors : b # p => op'[b] = op[b]
      BY <1>1, <2>3, MovedOnly DEF IInv
    <2>5. UNCHANGED <<receipts, submitted, transactions, vouchers>>
      BY <1>5 DEF RowAnswered, server
    <2>6. \E r \in Current(p) : r.event = q.event /\ r.delivery = q.delivery
      <3>1. p # Nobody
        BY ConstantsAssumption
      <3>. QED
        BY <2>1, <3>1 DEF Answered, IInv, WaitInv, WaitsFor
    <2>7. \A r \in Current(p)' : r.event = q.event /\ r.delivery = q.delivery
      <3>1. op[p].todo \in Snapshots
        BY <1>5, PipelineShape DEF RowAnswered, IInv, Drainings
      <3>2. Current(p)' = Current(p)
        BY <2>3, <2>4 DEF Current
      <3>. QED
        BY <2>6, <3>1, <3>2, CurrentOne
    <2>8. Stored(q) /\ (q.qr # NoQr => q.qr = q.tx /\ \E v \in vouchers : v.id = q.tx)
      BY <2>1 DEF Answered, IInv, RequestsInv
    <2>9. Recorded(q.delivery)' /\ QrOf(q.qr, q.event, q.delivery)
      BY <2>5, <2>8 DEF Stored, Recorded, QrOf
    <2>10. \A r \in Current(p)' : Recorded(r.delivery)'
      BY <2>7, <2>9
    <2>11. \A r \in Current(p)' : QrOf(op[p].qr, r.event, r.delivery)'
      BY <2>3, <2>4, <2>5, <2>7, <2>9 DEF QrOf, Alike, LooksLike
    <2>12. (\A d \in Deliveries : SavesKnown(d)) /\ (\A b \in Pipelines : WritesKnown(b))
      BY <1>1, <2>3, <2>4, <2>10, <2>11 DEF SavesKnown, WritesKnown, Actors
    <2>. QED
      BY <2>5, <2>12, TrustStep
  <1>6. CASE UpdateReceipt(p)
    <2>1. PICK row \in Current(p) :
            receipts' = (receipts \ ReceiptOf(row.event)) \cup
              {[r EXCEPT !.qr = op[p].qr, !.pending = FALSE] : r \in ReceiptOf(row.event)}
      BY <1>6 DEF UpdateReceipt
    <2>2. op[p] \in Updatings
      BY <1>6, PipelineShape DEF UpdateReceipt, IInv
    <2>3. UNCHANGED <<submitted, server>> /\ op[p].pc = "updating"
      BY <1>6 DEF UpdateReceipt
    <2>4. Marks(row.event, op[p].qr)
      <3>1. op[p].qr \in 0..MaxTransactions
        BY <2>2 DEF Updatings
      <3>. QED
        BY <2>1, <2>3, <3>1, ReceiptMarked DEF IInv
    <2>5. Recorded(row.delivery) /\ QrOf(op[p].qr, row.event, row.delivery)
      BY <2>3 DEF TrustInv, RecordedInv, QrInv
    <2>6. Genuine(row.event, row.delivery)
      BY <2>2, CurrentOne DEF Updatings, KnownRows
    <2>7. ASSUME NEW r \in receipts', r \notin receipts
          PROVE  /\ ~r.pending => SeemsRecorded(r.delivery)'
                 /\ QrOf(r.qr, r.id, r.delivery)'
      <3>1. PICK old \in receipts :
              /\ old.id = row.event /\ r.id = row.event
              /\ r.delivery = old.delivery /\ r.qr = op[p].qr
        BY <2>4, <2>7 DEF Marks
      <3>2. Genuine(old.id, old.delivery)
        BY DEF IInv, ReceiptsInv, OwnedReceipts
      <3>3. r.delivery = row.delivery
        BY <2>6, <3>1, <3>2, GenuineOne DEF IInv
      <3>. QED
        BY <2>3, <2>5, <3>1, <3>3, KnowledgeGrows DEF SeemsRecorded, server
    <2>8. PICK next : Becomes(p, next) /\ next.pc = "deleting"
      <3>1. Becomes(p, [pc |-> "deleting", todo |-> op[p].todo, pass |-> op[p].pass])
        BY <1>6 DEF UpdateReceipt
      <3>. QED
        BY <3>1
    <2>9. (\A d \in Deliveries : SavesKnown(d)) /\ (\A b \in Pipelines : WritesKnown(b))
      BY <1>1, <2>8, OnlyMoves DEF IInv
    <2>. QED
      BY <2>3, <2>4, <2>7, <2>9, TrustStep DEF Marks, server
  <1>. QED
    BY <1>2, <1>3, <1>4, <1>5, <1>6

(* The server's tables only grow, and the surroundings write nothing.      *)
LEMMA OthersTrust ==
  ASSUME IInv, TrustInv,
         \/ ServerStep \/ \E q \in requests : ServerFails(q) \/ RecipientRefused(q)
         \/ LinkPlot \/ QueueLosesRow \/ Kill \/ UNCHANGED vars
  PROVE  TrustInv'
  <1>1. CASE Kill
    <2>1. \A a \in Actors : op'[a].pc = "idle"
      BY <1>1 DEF Kill, Idle
    <2>2. (\A d \in Deliveries : SavesKnown(d)) /\ (\A p \in Pipelines : WritesKnown(p))
      BY <2>1 DEF SavesKnown, WritesKnown, Actors
    <2>3. /\ UNCHANGED <<receipts, transactions, vouchers>>
          /\ \A d \in Deliveries : submitted'[d] \in {"interrupted", submitted[d]}
      BY <1>1 DEF Kill, server
    <2>. QED
      BY <2>2, <2>3, TrustStep
  <1>2. CASE ~Kill
    <2>1. /\ UNCHANGED <<receipts, submitted, op>>
          /\ transactions \subseteq transactions' /\ vouchers \subseteq vouchers'
      BY <1>2 DEF ServerStep, ServerInsert, ServerInsertRaces, ServerReadVoucher,
        ServerInsertVoucher, OrphanEnds, ServerFails, RecipientRefused, LinkPlot, QueueLosesRow,
        vars, device, server
    <2>2. (\A d \in Deliveries : SavesKnown(d)) /\ (\A p \in Pipelines : WritesKnown(p))
      BY <2>1 DEF SavesKnown, WritesKnown
    <2>. QED
      BY <2>1, <2>2, TrustStep
  <1>. QED
    BY <1>1, <1>2

LEMMA NextTrust ==
  ASSUME IInv, TrustInv, [Next]_vars
  PROVE  TrustInv'
  <1>1. ASSUME NEW d \in Deliveries, SubmitStep(d) \/ SubmitSilence(d) PROVE TrustInv'
    BY <1>1, SubmitTrust
  <1>2. ASSUME NEW s \in Screens, RestoreStep(s) \/ ReceiptPageStep(s) PROVE TrustInv'
    BY <1>2, RestorerTrust, ReceiptPageTrust
  <1>3. ASSUME NEW p \in Pipelines, PipelineStep(p) \/ FetchFails(p) PROVE TrustInv'
    BY <1>3, RestorerTrust, RequeueTrust, DrainTrust DEF PipelineStep
  <1>. QED
    BY <1>1, <1>2, <1>3, OthersTrust DEF Next

(* The delivery of a receipt shown as synced is recorded, or the page of   *)
(* the receipt found a voucher that looks like it; what the farmer was     *)
(* told of has its receipt; and a QR is that of the receipt's own event,   *)
(* of the voucher it was restored from, or of one that looks like it.      *)
THEOREM TrustHolds == Spec => []TrustInv
  <1>1. Init => TrustInv
    <2>1. Init => \A a \in Actors : op[a].pc = "idle"
      BY DEF Init, Idle
    <2>. QED
      BY <2>1 DEF Init, TrustInv, RecordedInv, QrInv, Actors
  <1>2. IInv /\ TrustInv /\ [Next]_vars => TrustInv'
    BY NextTrust
  <1>. QED
    BY <1>1, <1>2, TablesStayOk, PTL DEF Spec

-----------------------------------------------------------------------------
(* Looks.  A voucher is taken for a delivery by plot, weight and a window  *)
(* of two hours, so the page of a receipt can take the voucher of another  *)
(* delivery.  The properties hold as long as it cannot: with one delivery, *)
(* without that page (Screens = {}), or while no voucher looks like        *)
(* another delivery.                                                       *)

LooksAreOwn ==
  Screens # {} =>
    \A v \in vouchers, t \in transactions : t.id = v.id => v.near \subseteq {t.delivery}

LEMMA SeemsIsRecorded ==
  ASSUME IInv, LooksAreOwn, NEW d, SeemsRecorded(d)
  PROVE  Recorded(d)
  <1>1. CASE \E v \in vouchers : Alike(d, v)
    <2>1. PICK v \in vouchers : Screens # {} /\ d \in v.near
      BY <1>1 DEF Alike, LooksLike
    <2>2. PICK t \in transactions : t.id = v.id
      BY DEF IInv, ServerInv
    <2>. QED
      BY <2>1, <2>2 DEF LooksAreOwn, Recorded
  <1>. QED
    BY <1>1 DEF SeemsRecorded

LEMMA OneDeliveryLooksOwn ==
  ASSUME IInv, NEW d, Deliveries = {d}
  PROVE  LooksAreOwn
  BY DEF IInv, ServerInv, LooksAreOwn, Transaction, Voucher

(* A receipt shown as synced is one the server has a transaction for.      *)
THEOREM SyncedIsRecorded == Spec /\ []LooksAreOwn => []SyncedReceiptOnServer
  <1>1. IInv /\ TrustInv /\ LooksAreOwn => SyncedReceiptOnServer
    BY SeemsIsRecorded DEF TrustInv, RecordedInv, SyncedReceiptOnServer
  <1>. QED
    BY <1>1, TablesStayOk, TrustHolds, PTL

(* What the farmer was told is recorded or queued stays on the server, in  *)
(* the queue or in a pending receipt, whatever answer is lost, whenever    *)
(* the app is killed, whatever row is evicted and however pipelines        *)
(* overlap: the receipt is never lost, and its flag goes only with the     *)
(* transaction.                                                            *)
THEOREM DeliveryKept == Spec /\ []LooksAreOwn => []NoDeliveryLost
  <1>1. ASSUME IInv, TrustInv, LooksAreOwn PROVE NoDeliveryLost
    <2>1. ASSUME NEW d \in Deliveries, submitted[d] \in {"synced", "queued"}
          PROVE  Recorded(d) \/ \E r \in receipts : r.id = Own(d) /\ r.pending
      <3>1. PICK r \in receipts : r.id = Own(d)
        BY <1>1, <2>1 DEF TrustInv, RecordedInv
      <3>2. Genuine(Own(d), r.delivery) /\ Genuine(Own(d), d)
        BY <1>1, <3>1 DEF IInv, ReceiptsInv, OwnedReceipts, Genuine
      <3>3. r.delivery = d
        BY <1>1, <3>2, GenuineOne DEF IInv
      <3>4. ~r.pending => SeemsRecorded(d)
        BY <1>1, <3>3 DEF TrustInv, RecordedInv
      <3>. QED
        BY <1>1, <3>1, <3>4, SeemsIsRecorded
    <2>. QED
      BY <2>1 DEF NoDeliveryLost
  <1>. QED
    BY <1>1, TablesStayOk, TrustHolds, PTL

(* With one delivery, as in the runs, neither needs more.                  *)
THEOREM OneDeliveryKept ==
  ASSUME NEW d, Deliveries = {d}
  PROVE  Spec => [](SyncedReceiptOnServer /\ NoDeliveryLost)
  <1>1. IInv => LooksAreOwn
    BY OneDeliveryLooksOwn
  <1>. QED
    BY <1>1, TablesStayOk, SyncedIsRecorded, DeliveryKept, PTL

(* A voucher looks like the delivery whose own event it answers, if any.   *)
LooksAreOwnEvent ==
  Screens # {} =>
    \A v \in vouchers, t \in transactions :
      t.id = v.id => \A d \in v.near : t.event = Own(d)

(* A QR shown for a receipt is the voucher of its own client event, or the *)
(* voucher it was restored from.                                           *)
THEOREM QrIsOwn == Spec /\ []LooksAreOwnEvent => []QrIsOwnVoucher
  <1>1. ASSUME IInv, TrustInv, LooksAreOwnEvent PROVE QrIsOwnVoucher
    <2>1. ASSUME NEW r \in receipts, r.qr # NoQr
          PROVE  \E t \in transactions, v \in vouchers :
                   t.id = r.qr /\ v.id = r.qr /\ t.delivery = r.delivery
                   /\ (t.event = r.id \/ r.id = Restored(v.id))
      <3>1. PICK t \in transactions, v \in vouchers :
              /\ t.id = r.qr /\ v.id = r.qr
              /\ \/ t.delivery = r.delivery /\ (t.event = r.id \/ r.id = Restored(v.id))
                 \/ r.id = Own(r.delivery) /\ Alike(r.delivery, v)
        BY <1>1, <2>1 DEF TrustInv, QrInv, QrOf
      <3>2. CASE r.id = Own(r.delivery) /\ Alike(r.delivery, v)
        <4>1. t.event = Own(r.delivery)
          BY <1>1, <3>1, <3>2 DEF LooksAreOwnEvent, Alike, LooksLike
        <4>2. Genuine(t.event, t.delivery) /\ Genuine(t.event, r.delivery)
          BY <1>1, <4>1 DEF IInv, ServerInv, Genuine
        <4>3. t.delivery = r.delivery
          BY <1>1, <4>2, GenuineOne DEF IInv
        <4>. QED
          BY <3>1, <3>2, <4>1, <4>3
      <3>. QED
        BY <3>1, <3>2
    <2>. QED
      BY <2>1 DEF QrIsOwnVoucher
  <1>. QED
    BY <1>1, TablesStayOk, TrustHolds, PTL

-----------------------------------------------------------------------------
(* The ledger: every step of the phones and of the server is one of        *)
(* DeliveryLedger's, or none.                                              *)

(* A delivery that is being submitted has no answer yet.                   *)
BusyInv == \A d \in Deliveries : op[d] # Idle => submitted[d] = "no"

(* Whatever is not the step of a submission or a kill leaves deliveries    *)
(* as they are.                                                            *)
DeliveriesRest == submitted' = submitted /\ \A d \in Deliveries : op'[d] = op[d]

LEMMA OtherRests ==
  ASSUME OpInv, NEW a \in Pipelines \cup Screens, NEW next, Becomes(a, next),
         submitted' = submitted
  PROVE  DeliveriesRest
  <1>1. a \notin Deliveries /\ Deliveries \subseteq Actors
    BY ConstantsAssumption DEF Actors
  <1>. QED
    BY <1>1 DEF OpInv, Becomes, DeliveriesRest

LEMMA RestersRest ==
  ASSUME OpInv, NEW a \in Pipelines \cup Screens, RestoreStep(a)
  PROVE  DeliveriesRest
  <1>1. PICK next : Becomes(a, next) /\ submitted' = submitted
    BY DEF RestoreStep, FetchVouchers, LoadExisting, RestoreReceipt, RestoreDone
  <1>. QED
    BY <1>1, OtherRests

LEMMA PipelineRests ==
  ASSUME OpInv, NEW p \in Pipelines, PipelineStep(p) \/ FetchFails(p)
  PROVE  DeliveriesRest
  <1>1. CASE RestoreStep(p)
    BY <1>1, RestersRest
  <1>2. CASE ~RestoreStep(p)
    <2>1. \/ FetchFails(p) \/ FetchAgain(p) \/ ListMissing(p) \/ Requeue(p) \/ FlagRead(p)
          \/ FlagWrite(p) \/ ReconcileDone(p) \/ Collect(p) \/ EnqueuePending(p)
          \/ EnqueueDone(p) \/ LoadSnapshot(p) \/ PostRow(p) \/ SkipRow(p) \/ RowAnswered(p)
          \/ RowFailed(p) \/ UpdateReceipt(p) \/ DeleteRow(p) \/ PassDone(p)
      BY <1>2 DEF PipelineStep
    <2>2. submitted' = submitted
      BY <2>1 DEF FetchFails, FetchAgain, ListMissing, Requeue, FlagRead, FlagWrite, ReconcileDone,
        Collect, EnqueuePending, EnqueueDone, LoadSnapshot, PostRow, SkipRow, RowAnswered,
        RowFailed, UpdateReceipt, DeleteRow, PassDone
    <2>3. PICK next : Becomes(p, next)
      BY <2>1 DEF FetchFails, FetchAgain, ListMissing, Requeue, FlagRead, FlagWrite, ReconcileDone,
        Collect, EnqueuePending, EnqueueDone, LoadSnapshot, PostRow, SkipRow, NextRow, RowAnswered,
        RowFailed, UpdateReceipt, DeleteRow, PassDone
    <2>. QED
      BY <2>2, <2>3, OtherRests
  <1>. QED
    BY <1>1, <1>2

LEMMA ReceiptPageRests ==
  ASSUME OpInv, NEW s \in Screens, ReceiptPageStep(s)
  PROVE  DeliveriesRest
  <1>1. CASE SyncReceipt(s)
    <2>1. PICK r \in receipts, p \in Pipelines :
             op' = [op EXCEPT ![p] = [pc |-> "started"],
                              ![s] = [pc |-> "syncing", delivery |-> r.delivery, pipeline |-> p]]
      BY <1>1 DEF SyncReceipt
    <2>2. p \notin Deliveries /\ s \notin Deliveries /\ Deliveries \subseteq Actors
      BY ConstantsAssumption DEF Actors
    <2>. QED
      BY <1>1, <2>1, <2>2 DEF OpInv, SyncReceipt, DeliveriesRest
  <1>2. CASE ~SyncReceipt(s)
    <2>1. submitted' = submitted
      BY <1>2 DEF ReceiptPageStep, BackupEnds, MatchReceipt, StoreMatch
    <2>2. PICK next : Becomes(s, next)
      BY <1>2 DEF ReceiptPageStep, BackupEnds, MatchReceipt, StoreMatch
    <2>. QED
      BY <2>1, <2>2, OtherRests
  <1>. QED
    BY <1>1, <1>2

LEMMA ServerRests ==
  ASSUME \/ ServerStep \/ \E q \in requests : ServerFails(q) \/ RecipientRefused(q)
         \/ LinkPlot \/ QueueLosesRow \/ UNCHANGED vars
  PROVE  DeliveriesRest
  BY DEF ServerStep, ServerInsert, ServerInsertRaces, ServerReadVoucher, ServerInsertVoucher,
    OrphanEnds, ServerFails, RecipientRefused, LinkPlot, QueueLosesRow, vars, device,
    DeliveriesRest

LEMMA SubmitBusy ==
  ASSUME IInv, BusyInv, NEW d \in Deliveries, SubmitStep(d) \/ SubmitSilence(d)
  PROVE  BusyInv' /\ \A e \in Deliveries \ {d} : submitted'[e] = submitted[e]
  <1>1. PICK next : Becomes(d, next)
    BY DEF SubmitStep, Submit, SubmitAnswered, SubmitRefused, SubmitSilence, SubmitEnqueue, SubmitSave
  <1>2. \A e \in Deliveries : op'[e] = IF e = d THEN next ELSE op[e]
    BY <1>1 DEF IInv, OpInv, Becomes, Actors
  <1>3. submitted[d] = "no"
    BY DEF BusyInv, Idle, SubmitStep, Submit, SubmitAnswered, SubmitRefused, SubmitSilence,
      SubmitEnqueue, SubmitSave
  <1>4. submitted' = submitted \/ op'[d] = Idle
    BY <1>1, <1>2 DEF Becomes, SubmitStep, Submit, SubmitAnswered, SubmitRefused, SubmitSilence,
      SubmitEnqueue, SubmitSave, IInv, OpInv, Actors
  <1>5. \A e \in Deliveries \ {d} : submitted'[e] = submitted[e]
    BY DEF IInv, RestInv, SubmitStep, Submit, SubmitAnswered, SubmitRefused, SubmitSilence,
      SubmitEnqueue, SubmitSave
  <1>. QED
    BY <1>2, <1>3, <1>4, <1>5 DEF BusyInv

LEMMA NextBusy ==
  ASSUME IInv, BusyInv, [Next]_vars
  PROVE  BusyInv'
  <1>1. ASSUME NEW d \in Deliveries, SubmitStep(d) \/ SubmitSilence(d) PROVE BusyInv'
    BY <1>1, SubmitBusy
  <1>2. CASE Kill
    BY <1>2 DEF Kill, BusyInv, Actors
  <1>3. CASE DeliveriesRest
    BY <1>3 DEF DeliveriesRest, BusyInv
  <1>. QED
    BY <1>1, <1>2, <1>3, RestersRest, ReceiptPageRests, PipelineRests, ServerRests DEF Next, IInv

LEMMA BusyHolds == Spec => []BusyInv
  <1>1. Init => BusyInv
    BY DEF Init, BusyInv
  <1>2. IInv /\ BusyInv /\ [Next]_vars => BusyInv'
    BY NextBusy
  <1>. QED
    BY <1>1, <1>2, TablesStayOk, PTL DEF Spec

(* A step touches one event: of the other deliveries the phone has what it *)
(* had.                                                                    *)
OnPhone(d) ==
  \/ \E r \in rows : r.event = Own(d)
  \/ \E r \in receipts : r.id = Own(d) /\ r.pending

Touches(event) == \A d \in Deliveries : Own(d) # event => (OnPhone(d)' <=> OnPhone(d))

LEMMA HeldIs == Held = {d \in Deliveries : ~Recorded(d) /\ OnPhone(d)}
  BY DEF Held, OnPhone

LEMMA EnqueueTouches ==
  ASSUME NEW event, NEW d, NEW to, Enqueue(event, d, to), receipts' = receipts
  PROVE  Touches(event)
  <1>. DEFINE same == {r \in rows : r.event = event}
  <1>1. CASE same # {}
    <2>1. rows' = (rows \ same) \cup {[r EXCEPT !.to = to] : r \in same}
      BY <1>1 DEF Enqueue
    <2>2. \A r \in rows' : r.event = event \/ r \in rows
      <3>1. ASSUME NEW r \in rows' PROVE r.event = event \/ r \in rows
        <4>1. CASE \E old \in same : r = [old EXCEPT !.to = to]
          BY <4>1
        <4>. QED
          BY <2>1, <4>1
      <3>. QED
        BY <3>1
    <2>3. \A r \in rows : r.event = event \/ r \in rows'
      BY <2>1
    <2>. QED
      BY <2>2, <2>3 DEF Touches, OnPhone
  <1>2. CASE same = {}
    <2>1. PICK new : new.event = event /\ rows' = rows \cup {new}
      BY <1>2 DEF Enqueue
    <2>. QED
      BY <2>1 DEF Touches, OnPhone
  <1>. QED
    BY <1>1, <1>2

(* Receipts of other events stay.                                          *)
Writes(event) ==
  \A r : r.id # event => (r \in receipts' <=> r \in receipts)

LEMMA ReceiptTouches ==
  ASSUME NEW event, Writes(event), rows' = rows
  PROVE  Touches(event)
  BY DEF Writes, Touches, OnPhone

LEMMA OneWritten ==
  ASSUME NEW event, NEW r, r.id = event,
         receipts' = (receipts \ ReceiptOf(event)) \cup {r}
  PROVE  Writes(event)
  BY DEF Writes, ReceiptOf

LEMMA MarkedWritten ==
  ASSUME IInv, NEW event, NEW qr,
         receipts' = (receipts \ ReceiptOf(event)) \cup
           {[r EXCEPT !.qr = qr, !.pending = FALSE] : r \in ReceiptOf(event)}
  PROVE  Writes(event)
  <1>1. \A r \in ReceiptOf(event) : r \in Receipt /\ r.id = event /\ r \in receipts
    BY DEF IInv, ReceiptsInv, OwnedReceipts, ReceiptOf
  <1>2. \A r \in ReceiptOf(event) : [r EXCEPT !.qr = qr, !.pending = FALSE].id = event
    BY <1>1 DEF Receipt
  <1>3. ASSUME NEW r, r.id # event PROVE r \in receipts' <=> r \in receipts
    BY <1>1, <1>2, <1>3
  <1>. QED
    BY <1>3 DEF Writes

(* A step on the phone that touches one event and tells nothing holds its  *)
(* delivery, or loses it before the farmer was told.                       *)
LEMMA PhoneStep ==
  ASSUME NEW event, Touches(event), UNCHANGED server, Told' = Told, NoDeliveryLost'
  PROVE  [Ledger!Next]_(Ledger!vars)
  <1>1. \A d : Recorded(d)' <=> Recorded(d)
    BY DEF Recorded, server
  <1>2. UNCHANGED <<Told, transactions, {v.id : v \in vouchers}>>
    BY DEF server
  <1>3. /\ Held \subseteq Deliveries /\ Held' \subseteq Deliveries
        /\ \A d \in Deliveries : Own(d) # event => (d \in Held' <=> d \in Held)
    BY <1>1 DEF Touches, Held, OnPhone
  <1>4. ASSUME NEW d \in Deliveries, NEW e \in Deliveries, Own(d) = Own(e) PROVE d = e
    BY <1>4 DEF Own
  <1>5. CASE Held' = Held
    BY <1>2, <1>5 DEF Ledger!vars
  <1>6. ASSUME NEW d \in Held', d \notin Held PROVE Ledger!Next
    <2>1. d \in Deliveries /\ ~Recorded(d)
      BY <1>1, <1>6 DEF Held
    <2>2. Held' = Held \cup {d}
      BY <1>3, <1>4, <1>6, <2>1
    <2>3. Ledger!Hold(d)
      BY <1>2, <2>1, <2>2 DEF Ledger!Hold, Ledger!Entered, Recorded
    <2>. QED
      BY <2>1, <2>3 DEF Ledger!Next
  <1>7. ASSUME NEW d \in Held, d \notin Held' PROVE Ledger!Next
    <2>1. d \in Deliveries /\ ~Recorded(d)
      BY <1>7 DEF Held
    <2>2. Held' = Held \ {d}
      BY <1>3, <1>4, <1>7, <2>1
    <2>3. d \notin Told
      BY <1>1, <1>7, <2>1 DEF Held, Told, NoDeliveryLost
    <2>4. Ledger!Lose(d)
      BY <1>2, <1>7, <2>2, <2>3 DEF Ledger!Lose
    <2>. QED
      BY <2>1, <2>4 DEF Ledger!Next
  <1>. QED
    BY <1>5, <1>6, <1>7

(* A step that touches none is no step of the ledger.                      *)
LEMMA LedgerRests ==
  ASSUME UNCHANGED <<receipts, rows, server>>, Told' = Told
  PROVE  [Ledger!Next]_(Ledger!vars)
  <1>1. Held' = Held
    BY DEF Held, Recorded, server
  <1>. QED
    BY <1>1 DEF Ledger!vars, server

(* Three ways to touch one event: queueing it, writing its receipt, and    *)
(* taking it out of the queue.                                             *)
LEMMA EnqueueLedger ==
  ASSUME NEW event, NEW d, NEW to, Enqueue(event, d, to),
         UNCHANGED <<receipts, submitted, server>>, NoDeliveryLost'
  PROVE  [Ledger!Next]_(Ledger!vars)
  BY EnqueueTouches, PhoneStep DEF Told

LEMMA ReceiptLedger ==
  ASSUME NEW event, Writes(event),
         UNCHANGED <<rows, submitted, server>>, NoDeliveryLost'
  PROVE  [Ledger!Next]_(Ledger!vars)
  BY ReceiptTouches, PhoneStep DEF Told

LEMMA QueueLedger ==
  ASSUME NEW event, rows' \subseteq rows, \A r \in rows \ rows' : r.event = event,
         UNCHANGED <<receipts, submitted, server>>, NoDeliveryLost'
  PROVE  [Ledger!Next]_(Ledger!vars)
  <1>1. Touches(event)
    BY DEF Touches, OnPhone
  <1>. QED
    BY <1>1, PhoneStep DEF Told

LEMMA RestorersLedger ==
  ASSUME IInv, NEW a \in Pipelines \cup Screens, RestoreStep(a), NoDeliveryLost'
  PROVE  [Ledger!Next]_(Ledger!vars)
  <1>1. CASE RestoreReceipt(a)
    <2>1. PICK event, new : new.id = event /\ receipts' = (receipts \ ReceiptOf(event)) \cup {new}
      <3>1. PICK v \in op[a].todo, t \in transactions :
               receipts' = (receipts \ ReceiptOf(Restored(v.id))) \cup
                 {[id |-> Restored(v.id), delivery |-> t.delivery, qr |-> v.id, pending |-> FALSE]}
        BY <1>1 DEF RestoreReceipt
      <3>. DEFINE new == [id |-> Restored(v.id), delivery |-> t.delivery, qr |-> v.id,
                          pending |-> FALSE]
      <3>2. new.id = Restored(v.id)
        OBVIOUS
      <3>. QED
        BY <3>1, <3>2
    <2>2. Writes(event)
      BY <2>1, OneWritten
    <2>. QED
      BY <1>1, <2>2, ReceiptLedger DEF RestoreReceipt
  <1>2. CASE ~RestoreReceipt(a)
    <2>1. UNCHANGED <<receipts, rows, submitted, server>>
      BY <1>2 DEF RestoreStep, FetchVouchers, LoadExisting, RestoreDone
    <2>. QED
      BY <2>1, LedgerRests DEF Told
  <1>. QED
    BY <1>1, <1>2

LEMMA ReceiptPageLedger ==
  ASSUME IInv, NEW s \in Screens, ReceiptPageStep(s), NoDeliveryLost'
  PROVE  [Ledger!Next]_(Ledger!vars)
  <1>1. CASE StoreMatch(s)
    <2>1. Writes(Own(op[s].delivery))
      BY <1>1, MarkedWritten DEF StoreMatch
    <2>. QED
      BY <1>1, <2>1, ReceiptLedger DEF StoreMatch
  <1>2. CASE ~StoreMatch(s)
    <2>1. UNCHANGED <<receipts, rows, submitted, server>>
      BY <1>2 DEF ReceiptPageStep, SyncReceipt, BackupEnds, MatchReceipt
    <2>. QED
      BY <2>1, LedgerRests DEF Told
  <1>. QED
    BY <1>1, <1>2

LEMMA PipelineLedger ==
  ASSUME IInv, NEW p \in Pipelines, PipelineStep(p) \/ FetchFails(p), NoDeliveryLost'
  PROVE  [Ledger!Next]_(Ledger!vars)
  <1>1. CASE RestoreStep(p)
    BY <1>1, RestorersLedger
  <1>2. CASE Requeue(p)
    <2>1. PICK r \in op[p].todo : Enqueue(r.id, r.delivery, "nobody")
      BY <1>2 DEF Requeue
    <2>. QED
      BY <1>2, <2>1, EnqueueLedger DEF Requeue
  <1>3. CASE FlagWrite(p)
    <2>. DEFINE read == op[p].read
    <2>1. read \in Receipt
      BY <1>3, PipelineShape DEF IInv, FlagWrite, FlagWrites, OwnedReceipts
    <2>2. [read EXCEPT !.pending = TRUE].id = read.id
      BY <2>1 DEF Receipt
    <2>3. /\ receipts' = (receipts \ ReceiptOf(read.id)) \cup {[read EXCEPT !.pending = TRUE]}
          /\ UNCHANGED <<rows, submitted, server>>
      BY <1>3 DEF FlagWrite
    <2>4. Writes(read.id)
      BY <2>2, <2>3, OneWritten
    <2>. QED
      BY <2>3, <2>4, ReceiptLedger
  <1>4. CASE EnqueuePending(p)
    <2>1. PICK r \in op[p].todo : Enqueue(r.id, r.delivery, "nobody")
      BY <1>4 DEF EnqueuePending
    <2>. QED
      BY <1>4, <2>1, EnqueueLedger DEF EnqueuePending
  <1>5. CASE UpdateReceipt(p)
    <2>1. PICK row \in Current(p) :
             receipts' = (receipts \ ReceiptOf(row.event)) \cup
               {[r EXCEPT !.qr = op[p].qr, !.pending = FALSE] : r \in ReceiptOf(row.event)}
      BY <1>5 DEF UpdateReceipt
    <2>2. Writes(row.event)
      BY <2>1, MarkedWritten
    <2>. QED
      BY <1>5, <2>2, ReceiptLedger DEF UpdateReceipt
  <1>6. CASE DeleteRow(p)
    <2>1. op[p].todo \in Snapshots
      BY <1>6, PipelineShape DEF IInv, DeleteRow, Deletings
    <2>2. rows' = {r \in rows : \A row \in Current(p) : r.id # row.id}
          /\ UNCHANGED <<receipts, submitted, server>>
      BY <1>6 DEF DeleteRow
    <2>3. CASE Current(p) = {}
      BY <2>2, <2>3, LedgerRests DEF Told
    <2>4. ASSUME NEW row \in Current(p) PROVE [Ledger!Next]_(Ledger!vars)
      <3>1. \A r \in Current(p) : r = row /\ r \in KnownRows
        BY <2>1, CurrentOne
      <3>2. \A r \in rows \ rows' : r.event = row.event
        BY <2>2, <3>1 DEF KnownRows
      <3>. QED
        BY <2>2, <3>2, QueueLedger
    <2>. QED
      BY <2>3, <2>4
  <1>7. CASE FetchFails(p) \/ FetchAgain(p) \/ ListMissing(p) \/ FlagRead(p) \/ ReconcileDone(p)
          \/ Collect(p) \/ EnqueueDone(p) \/ LoadSnapshot(p) \/ PostRow(p) \/ SkipRow(p)
          \/ RowAnswered(p) \/ RowFailed(p) \/ PassDone(p)
    <2>1. UNCHANGED <<receipts, rows, submitted, server>>
      BY <1>7 DEF FetchFails, FetchAgain, ListMissing, FlagRead, ReconcileDone, Collect,
        EnqueueDone, LoadSnapshot, PostRow, SkipRow, RowAnswered, RowFailed, PassDone
    <2>. QED
      BY <2>1, LedgerRests DEF Told
  <1>. QED
    BY <1>1, <1>2, <1>3, <1>4, <1>5, <1>6, <1>7 DEF PipelineStep

(* The answer to the farmer: the delivery is in the ledger, or waits in    *)
(* the queue with its receipt pending.                                     *)
LEMMA SubmitSaveLedger ==
  ASSUME IInv, TrustInv, BusyInv, NEW d \in Deliveries, SubmitSave(d)
  PROVE  Ledger!Next
  <1>. DEFINE saved == [id |-> Own(d), delivery |-> d, qr |-> op[d].qr, pending |-> op[d].pending]
  <1>1. saved.id = Own(d) /\ saved.pending = op[d].pending
    OBVIOUS
  <1>2. receipts' = (receipts \ ReceiptOf(Own(d))) \cup {saved} /\ rows' = rows /\ UNCHANGED server
    BY DEF SubmitSave
  <1>. HIDE DEF saved
  <1>3. submitted[d] = "no" /\ (~op[d].pending => Recorded(d))
    BY DEF BusyInv, TrustInv, RecordedInv, SubmitSave, Idle
  <1>4. d \notin Told /\ Told' = Told \cup {d}
    BY <1>3 DEF Told, SubmitSave, IInv, RestInv
  <1>5. Writes(Own(d))
    BY <1>1, <1>2, OneWritten
  <1>6. \A e \in Deliveries : e # d => (OnPhone(e)' <=> OnPhone(e))
    BY <1>2, <1>5, ReceiptTouches DEF Touches, Own
  <1>7. \A e : Recorded(e)' <=> Recorded(e)
    BY <1>2 DEF Recorded, server
  <1>8. ~Recorded(d) => OnPhone(d)'
    BY <1>1, <1>2, <1>3 DEF OnPhone
  <1>9. IF Recorded(d) THEN Held' = Held ELSE Held' = Held \cup {d}
    <2>1. /\ Held = {e \in Deliveries : ~Recorded(e) /\ OnPhone(e)}
          /\ Held' = {e \in Deliveries : ~Recorded(e)' /\ OnPhone(e)'}
      BY DEF Held, OnPhone
    <2>. QED
      BY <1>6, <1>7, <1>8, <2>1
  <1>10. Ledger!Tell(d)
    BY <1>2, <1>4, <1>9 DEF Ledger!Tell, Ledger!Entered, Recorded, server
  <1>. QED
    BY <1>10 DEF Ledger!Next

LEMMA SubmitLedger ==
  ASSUME IInv, TrustInv, BusyInv, NEW d \in Deliveries, SubmitStep(d) \/ SubmitSilence(d),
         NoDeliveryLost'
  PROVE  [Ledger!Next]_(Ledger!vars)
  <1>1. CASE SubmitEnqueue(d)
    BY <1>1, EnqueueLedger DEF SubmitEnqueue
  <1>2. CASE SubmitSave(d)
    BY <1>2, SubmitSaveLedger
  <1>3. CASE SubmitRefused(d)
    <2>1. submitted[d] = "no"
      BY <1>3 DEF BusyInv, SubmitRefused, Idle
    <2>2. Told' = Told
      BY <1>3, <2>1 DEF Told, SubmitRefused, IInv, RestInv
    <2>. QED
      BY <1>3, <2>2, LedgerRests DEF SubmitRefused
  <1>4. CASE Submit(d) \/ SubmitAnswered(d) \/ SubmitSilence(d)
    <2>1. UNCHANGED <<receipts, rows, submitted, server>>
      BY <1>4 DEF Submit, SubmitAnswered, SubmitSilence
    <2>. QED
      BY <2>1, LedgerRests DEF Told
  <1>. QED
    BY <1>1, <1>2, <1>3, <1>4 DEF SubmitStep

(* The first insert of a client event is an entry of the ledger, a later   *)
(* one is none.                                                            *)
LEMMA ServerInsertLedger ==
  ASSUME IInv, NEW q \in requests, ServerInsert(q)
  PROVE  [Ledger!Next]_(Ledger!vars)
  <1>. DEFINE stored == {t \in transactions : t.event = q.event}
              new == [id |-> Cardinality(transactions) + 1, event |-> q.event,
                      delivery |-> q.delivery]
  <1>1. UNCHANGED <<receipts, rows, submitted, vouchers>> /\ Told' = Told
    BY DEF ServerInsert, device, Told
  <1>2. CASE stored = {}
    <2>1. transactions' = transactions \cup {new} /\ new.id \in Vouchers
      BY <1>2 DEF ServerInsert
    <2>2. q.event \in Events /\ q.delivery \in Deliveries
      BY DEF IInv, RequestsInv, Request
    <2>3. new \in Transaction
      BY <2>1, <2>2 DEF Transaction
    <2>4. \A t \in transactions : t.id # new.id /\ t.event # new.event
      <3>1. \A t \in transactions : t.id \in Nat /\ t.id <= Cardinality(transactions)
        BY ConstantsAssumption DEF IInv, ServerInv, Transaction, Vouchers
      <3>2. Cardinality(transactions) \in Nat
        BY FS_CardinalityType DEF IInv, ServerInv
      <3>. QED
        BY <1>2, <3>1, <3>2
    <2>. HIDE DEF new
    <2>5. \A d : Recorded(d)' <=> Recorded(d) \/ new.delivery = d
      BY <2>1 DEF Recorded
    <2>6. Held' = Held \ {new.delivery}
      BY <1>1, <2>5 DEF Held
    <2>7. Ledger!Record(new)
      BY <1>1, <2>1, <2>4, <2>6 DEF Ledger!Record
    <2>. QED
      BY <2>3, <2>7 DEF Ledger!Next
  <1>3. CASE stored # {}
    <2>1. transactions' = transactions
      BY <1>3 DEF ServerInsert
    <2>. QED
      BY <1>1, <2>1, LedgerRests DEF server
  <1>. QED
    BY <1>2, <1>3

(* A voucher is issued for an entry that has none.                         *)
LEMMA ServerInsertVoucherLedger ==
  ASSUME IInv, NEW q \in requests, ServerInsertVoucher(q)
  PROVE  Ledger!Next
  <1>. DEFINE issued == {v.id : v \in vouchers}
  <1>1. PICK t \in transactions : t.id = q.tx
    BY DEF IInv, RequestsInv, ServerInsertVoucher, Stored
  <1>2. t.id \notin issued
    BY <1>1 DEF IInv, RequestsInv, ServerInsertVoucher
  <1>3. issued' = issued \cup {t.id}
    <2>1. PICK new : new.id = q.tx /\ vouchers' = vouchers \cup {new}
      <3>1. PICK near : vouchers' = vouchers \cup {[id |-> q.tx, to |-> q.to, near |-> near]}
        BY DEF ServerInsertVoucher
      <3>2. [id |-> q.tx, to |-> q.to, near |-> near].id = q.tx
        OBVIOUS
      <3>. QED
        BY <3>1, <3>2
    <2>. QED
      BY <1>1, <2>1
  <1>4. UNCHANGED <<receipts, rows, submitted, transactions>>
    BY DEF ServerInsertVoucher, device
  <1>5. Told' = Told /\ Held' = Held
    BY <1>4 DEF Told, Held, Recorded
  <1>6. Ledger!Issue(t)
    BY <1>2, <1>3, <1>4, <1>5 DEF Ledger!Issue
  <1>7. t \in Transaction
    BY DEF IInv, ServerInv
  <1>. QED
    BY <1>6, <1>7 DEF Ledger!Next

LEMMA ServerLedger ==
  ASSUME IInv, NEW q \in requests,
         \/ ServerInsert(q) \/ ServerInsertRaces(q) \/ ServerReadVoucher(q)
         \/ ServerInsertVoucher(q) \/ OrphanEnds(q) \/ ServerFails(q) \/ RecipientRefused(q)
  PROVE  [Ledger!Next]_(Ledger!vars)
  <1>1. CASE ServerInsert(q) \/ ServerInsertVoucher(q)
    BY <1>1, ServerInsertLedger, ServerInsertVoucherLedger
  <1>2. CASE ~(ServerInsert(q) \/ ServerInsertVoucher(q))
    <2>1. UNCHANGED <<receipts, rows, submitted, server>>
      BY <1>2 DEF ServerInsertRaces, ServerReadVoucher, OrphanEnds, ServerFails, RecipientRefused,
        device
    <2>. QED
      BY <2>1, LedgerRests DEF Told
  <1>. QED
    BY <1>1, <1>2

LEMMA SurroundingsLedger ==
  ASSUME IInv, BusyInv, LinkPlot \/ QueueLosesRow \/ Kill \/ UNCHANGED vars, NoDeliveryLost'
  PROVE  [Ledger!Next]_(Ledger!vars)
  <1>1. CASE QueueLosesRow
    <2>1. PICK r \in rows : rows' = rows \ {r}
      BY <1>1 DEF QueueLosesRow
    <2>2. \A s \in rows \ rows' : s.event = r.event
      BY <2>1
    <2>. QED
      BY <1>1, <2>1, <2>2, QueueLedger DEF QueueLosesRow
  <1>2. CASE Kill
    <2>1. \A d \in Deliveries : op[d] # Idle => submitted[d] = "no"
      BY DEF BusyInv
    <2>2. Told' = Told
      BY <1>2, <2>1 DEF Kill, Told
    <2>. QED
      BY <1>2, <2>2, LedgerRests DEF Kill
  <1>3. CASE LinkPlot \/ UNCHANGED vars
    <2>1. UNCHANGED <<receipts, rows, submitted, server>>
      BY <1>3 DEF LinkPlot, vars, device
    <2>. QED
      BY <2>1, LedgerRests DEF Told
  <1>. QED
    BY <1>1, <1>2, <1>3

LEMMA NextLedger ==
  ASSUME IInv, TrustInv, BusyInv, [Next]_vars, NoDeliveryLost'
  PROVE  [Ledger!Next]_(Ledger!vars)
  <1>1. ASSUME NEW d \in Deliveries, SubmitStep(d) \/ SubmitSilence(d)
        PROVE  [Ledger!Next]_(Ledger!vars)
    BY <1>1, SubmitLedger
  <1>2. ASSUME NEW s \in Screens, RestoreStep(s) \/ ReceiptPageStep(s)
        PROVE  [Ledger!Next]_(Ledger!vars)
    BY <1>2, RestorersLedger, ReceiptPageLedger
  <1>3. ASSUME NEW p \in Pipelines, PipelineStep(p) \/ FetchFails(p)
        PROVE  [Ledger!Next]_(Ledger!vars)
    BY <1>3, PipelineLedger
  <1>4. CASE ServerStep \/ \E q \in requests : ServerFails(q) \/ RecipientRefused(q)
    BY <1>4, ServerLedger DEF ServerStep
  <1>5. CASE LinkPlot \/ QueueLosesRow \/ Kill \/ UNCHANGED vars
    BY <1>5, SurroundingsLedger
  <1>. QED
    BY <1>1, <1>2, <1>3, <1>4, <1>5 DEF Next

(* Recording deliveries implements the ledger: one entry per client event  *)
(* and vouchers for entries alone, and a delivery the farmer was told of   *)
(* leaves the phone for the ledger only, whatever answer is lost, whenever *)
(* the app is killed, whatever row is evicted and however pipelines        *)
(* overlap.                                                                *)
THEOREM LedgerImplemented == Spec /\ []LooksAreOwn => ImplementsLedger
  <1>1. Init => Ledger!Init
    BY DEF Init, Ledger!Init, Told, Held
  <1>2. IInv /\ TrustInv /\ BusyInv /\ [Next]_vars /\ NoDeliveryLost'
          => [Ledger!Next]_(Ledger!vars)
    BY NextLedger
  <1>. QED
    BY <1>1, <1>2, TablesStayOk, TrustHolds, BusyHolds, DeliveryKept, PTL
    DEF Spec, Ledger!Spec, ImplementsLedger

(* With one delivery, as in the runs, nothing more is needed.              *)
THEOREM OneDeliveryLedger ==
  ASSUME NEW d, Deliveries = {d}
  PROVE  Spec => ImplementsLedger
  <1>1. IInv => LooksAreOwn
    BY OneDeliveryLooksOwn
  <1>. QED
    BY <1>1, TablesStayOk, LedgerImplemented, PTL

(* Whatever implements the ledger loses no delivery the farmer was told    *)
(* of: it is among those the phone holds or has an entry.                  *)
THEOREM LedgerKeepsDeliveries == ImplementsLedger => []NoDeliveryLost
  <1>1. NoDeliveryLost <=> \A d \in Told : d \in Held \/ Ledger!Entered(d)
    BY DEF NoDeliveryLost, Told, Held, Ledger!Entered, Recorded
  <1>2. Ledger!Init => NoDeliveryLost
    BY <1>1 DEF Ledger!Init
  <1>3. ASSUME NoDeliveryLost, [Ledger!Next]_(Ledger!vars) PROVE NoDeliveryLost'
    <2>1. NoDeliveryLost' <=> \A d \in Told' : d \in Held' \/ Ledger!Entered(d)'
      BY DEF NoDeliveryLost, Told, Held, Ledger!Entered, Recorded
    <2>2. \A d \in Told : d \in Held \/ Ledger!Entered(d)
      BY <1>1, <1>3
    <2>3. ASSUME NEW e \in Deliveries, Ledger!Tell(e) \/ Ledger!Hold(e) \/ Ledger!Lose(e)
          PROVE  NoDeliveryLost'
      BY <2>1, <2>2, <2>3 DEF Ledger!Tell, Ledger!Hold, Ledger!Lose, Ledger!Entered
    <2>4. ASSUME NEW x \in Transaction, Ledger!Record(x) \/ Ledger!Issue(x)
          PROVE  NoDeliveryLost'
      BY <2>1, <2>2, <2>4 DEF Ledger!Record, Ledger!Issue, Ledger!Entered
    <2>5. CASE UNCHANGED Ledger!vars
      BY <2>1, <2>2, <2>5 DEF Ledger!vars, Ledger!Entered
    <2>. QED
      BY <1>3, <2>3, <2>4, <2>5 DEF Ledger!Next
  <1>. QED
    BY <1>2, <1>3, PTL DEF ImplementsLedger, Ledger!Spec
=============================================================================
