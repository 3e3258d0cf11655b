--------------------------- MODULE ConsentGrants ---------------------------
(***************************************************************************)
(* Consent of one farmer to share data with one buyer organisation.  The   *)
(* organisation asks (consent.service.ts, createConsentRequest); the       *)
(* farmer approves, denies or revokes on a phone, at once or through the   *)
(* queue (consentActions.ts, processPendingConsentQueue.ts); the server    *)
(* moves the grant and answers what the organisation may read              *)
(* (consent-lineage-access.ts).                                            *)
(*                                                                         *)
(* Every request to the server is several statements with no transaction,  *)
(* so its check and its update are steps of their own.                     *)
(***************************************************************************)
EXTENDS Naturals, Sequences, SequencesExt

CONSTANTS
  Requesters,     \* requests of the organisation in progress at a time
  Processors,     \* of the queue: "screen", "pipeline"
  Vouchers,       \* the farmer's
  Packages,
  Member,         \* isFarmerInTenant
  MaxGrants, MaxRows, MaxFaults   \* bounds of the model

ASSUME ConstantsAssumption ==
  /\ Processors \subseteq {"screen", "pipeline"} /\ Member \in BOOLEAN
  /\ MaxGrants \in Nat /\ MaxRows \in Nat \ {0} /\ MaxFaults \in Nat

Grants == 1..MaxGrants
Verbs == {"approve", "deny", "revoke"}
Statuses == {"none", "pending", "active", "revoked", "denied"}
Callers == {"tap"} \cup Processors

VARIABLES
  status,        \* consent_grants.status; "none" before the insert
  order,         \* grants from the least to the most recently updated
  packages,      \* packages with vouchers of the farmer
  recent,        \* those created in the current millisecond
  before,        \* those with created_at < revoked_at of a revoked grant
  asking,        \* how far each consent request of the organisation is
  overlapped,    \* history: two such requests ran at the same time
  inflight,      \* decisions being served
  queue,         \* consent rows of pending_sync
  lastId,        \* id of the newest row ever inserted
  call,          \* what each caller on the phone does
  shown,         \* statuses on the data sharing screen
  latest,        \* history: the last decision that took effect
  faults

saleVars == <<packages, recent>>
serverVars == <<status, order, before, latest, saleVars>>
deviceVars == <<queue, lastId, call, shown>>
vars == <<serverVars, deviceVars, asking, overlapped, inflight, faults>>

\* `own`: filed under this farmer, whose id sorts before those of the others
\* with vouchers in it.
Package == [step : {"none", "inserted", "linked"}, own : BOOLEAN, vouchers : SUBSET Vouchers]
NoPackage == [step |-> "none", own |-> FALSE, vouchers |-> {}]

Row == [id : 1..MaxRows, verb : Verbs, grant : Grants]
Request == [by : Callers \cup {"nobody"}, verb : Verbs, grant : Grants, checked : BOOLEAN]
Call == [pc : {"idle", "waiting", "yes", "no", "lost", "run", "list"}, rows : SUBSET Row]
Idle == [pc |-> "idle", rows |-> {}]

TypeOK ==
  /\ status \in [Grants -> Statuses]
  /\ order \in Seq(Grants) /\ Len(order) <= MaxGrants
  /\ ToSet(order) = {g \in Grants : status[g] # "none"}
  /\ overlapped \in BOOLEAN
  /\ packages \in [Packages -> Package] /\ recent \subseteq Packages
  /\ before \in [Grants -> SUBSET Packages]
  /\ asking \in [Requesters -> {"idle", "noPending", "noActive"}]
  /\ inflight \subseteq Request
  /\ queue \subseteq Row /\ lastId \in 0..MaxRows
  /\ call \in [Callers -> Call]
  /\ shown \in [Grants -> Statuses]
  /\ latest \in Verbs \cup {"nothing"} /\ faults \in 0..MaxFaults

Init ==
  /\ status = [g \in Grants |-> "none"] /\ order = <<>>
  /\ packages = [k \in Packages |-> NoPackage] /\ recent = {}
  /\ before = [g \in Grants |-> {}]
  /\ asking = [r \in Requesters |-> "idle"] /\ overlapped = FALSE
  /\ inflight = {} /\ queue = {} /\ lastId = 0
  /\ call = [c \in Callers |-> Idle]
  /\ shown = [g \in Grants |-> "none"]
  /\ latest = "nothing" /\ faults = 0

Fault == faults < MaxFaults /\ faults' = faults + 1
WithStatus(s) == {g \in Grants : status[g] = s}

-----------------------------------------------------------------------------
(* What the organisation may read                                          *)

\* The tenant's oldest grant instead of the row updated last.
GateOfOldest == IF order = <<>> THEN "none" ELSE status[Head(order)]

\* resolveTenantConsentGate
Gate == IF order = <<>> THEN "none" ELSE status[Last(order)]

CanReadNewData == Gate = "active" \/ (Gate = "none" /\ Member)

\* Packages whose vouchers are linked and that are filed under this farmer.
Filed == {k \in Packages : packages[k].step = "linked" /\ packages[k].own}
VouchersOf(ks) == UNION {packages[k].vouchers : k \in ks}

\* After a denial nothing.
SoldLineageOfRevoked == IF Gate = "revoked" THEN VouchersOf(Filed \cap before[Last(order)]) ELSE {}

\* A denied grant has no revoked_at, and the query then compares nothing.
SoldLineage ==
  CASE Gate = "revoked" -> VouchersOf(Filed \cap before[Last(order)])
    [] Gate = "denied" -> VouchersOf(Filed)
    [] OTHER -> {}

CanReadVoucher(v) == CanReadNewData \/ (Member /\ v \in SoldLineage)

\* farmerCanDeliverToTenant: any active grant counts.
CanDeliverTo == WithStatus("active") # {}

-----------------------------------------------------------------------------
(* createDdsPackage: the package, later its links                          *)

SaleStep == UNCHANGED <<status, order, before, latest, deviceVars,
                        asking, overlapped, inflight, faults>>

\* The vouchers were in no package when they were selected.
InsertPackage(k) ==
  /\ packages[k].step = "none"
  /\ \E own \in BOOLEAN, vs \in SUBSET Vouchers \ {{}} :
       /\ \A q \in Packages : packages[q].step = "linked" => packages[q].vouchers \cap vs = {}
       /\ packages' = [packages EXCEPT ![k] = [step |-> "inserted", own |-> own, vouchers |-> vs]]
  /\ recent' = recent \cup {k}
  /\ SaleStep

LinkVouchers(k) ==
  /\ packages[k].step = "inserted"
  /\ packages' = [packages EXCEPT ![k].step = "linked"]
  /\ UNCHANGED recent /\ SaleStep

\* The millisecond is over: revoked_at is compared after a conversion that
\* drops what is below.
ClockTicks == recent # {} /\ recent' = {} /\ UNCHANGED packages /\ SaleStep

-----------------------------------------------------------------------------
(* createConsentRequest: three statements                                  *)

AskStep(r, next) ==
  /\ asking' = [asking EXCEPT ![r] = next]
  /\ UNCHANGED <<deviceVars, inflight, faults, saleVars, before, latest>>

SelectPending(r) ==
  /\ asking[r] = "idle" /\ WithStatus("pending") = {}
  /\ AskStep(r, "noPending")
  /\ overlapped' = (overlapped \/ \E q \in Requesters : asking[q] # "idle")
  /\ UNCHANGED <<status, order>>

\* The second query dropped.
SelectActiveNothing(r) ==
  /\ asking[r] = "noPending"
  /\ AskStep(r, "noActive")
  /\ UNCHANGED <<status, order, overlapped>>

SelectActive(r) ==
  /\ asking[r] = "noPending"
  /\ AskStep(r, IF WithStatus("active") = {} THEN "noActive" ELSE "idle")
  /\ UNCHANGED <<status, order, overlapped>>

InsertGrant(r) ==
  /\ asking[r] = "noActive"
  /\ AskStep(r, "idle")
  /\ \E g \in WithStatus("none") :
       /\ g = Len(order) + 1
       /\ status' = [status EXCEPT ![g] = "pending"]
       /\ order' = Append(order, g)
  /\ UNCHANGED overlapped

-----------------------------------------------------------------------------
(* approveGrant, denyGrant, revokeGrant: select, guarded update, audit       *)

Needs(verb) == IF verb = "revoke" THEN "active" ELSE "pending"
Outcome == [approve |-> "active", deny |-> "denied", revoke |-> "revoked"]

Answer(c, stage) ==
  call' = IF c = "nobody" THEN call ELSE [call EXCEPT ![c].pc = stage]

ServerKeepsRest == UNCHANGED <<asking, overlapped, queue, lastId, shown, saleVars>>

\* getGrantForFarmer and the check of what it read.
Check(req) ==
  /\ ~req.checked
  /\ IF status[req.grant] = Needs(req.verb)
       THEN inflight' = (inflight \ {req}) \cup {[req EXCEPT !.checked = TRUE]} /\ call' = call
       ELSE inflight' = inflight \ {req} /\ Answer(req.by, "no")
  /\ UNCHANGED <<status, order, before, latest, faults>> /\ ServerKeepsRest

\* The update without its condition on the status.
TakesUnguarded(req) == TRUE

Takes(req) == status[req.grant] = Needs(req.verb)

\* The grant is listed a second time.
TouchTwice(g) == Append(order, g)

\* updated_at = NOW()
Touch(g) ==
  LET i == CHOOSE j \in DOMAIN order : order[j] = g IN Append(RemoveAt(order, i), g)

Created == {k \in Packages : packages[k].step # "none"}

\* UPDATE ... WHERE status = ..., then the audit row, which may fail: the
\* grant has moved and the farmer is answered 500.
Apply(req) ==
  /\ req.checked /\ Takes(req)
  /\ inflight' = inflight \ {req}
  /\ status' = [status EXCEPT ![req.grant] = Outcome[req.verb]]
  /\ order' = Touch(req.grant)
  /\ before' = IF req.verb = "revoke" THEN [before EXCEPT ![req.grant] = Created \ recent]
               ELSE before
  /\ latest' = req.verb
  /\ \/ Answer(req.by, "yes") /\ faults' = faults
     \/ Answer(req.by, "no") /\ Fault
  /\ ServerKeepsRest

\* The update finds no row any more.
Overtaken(req) ==
  /\ req.checked /\ ~Takes(req)
  /\ inflight' = inflight \ {req} /\ Answer(req.by, "no")
  /\ UNCHANGED <<status, order, before, latest, faults>> /\ ServerKeepsRest

\* The server fails in between, or cannot tell who calls (no_token).
ServerFails(req) ==
  /\ Fault
  /\ inflight' = inflight \ {req} /\ Answer(req.by, "no")
  /\ UNCHANGED <<status, order, before, latest>> /\ ServerKeepsRest

Serve(c) == \E req \in inflight : req.by = c /\ (Check(req) \/ Apply(req) \/ Overtaken(req))

-----------------------------------------------------------------------------
(* The phone                                                               *)

PhoneStep == UNCHANGED <<serverVars, asking, overlapped>>

Send(c, verb, g, rows) ==
  /\ inflight' = inflight \cup {[by |-> c, verb |-> verb, grant |-> g, checked |-> FALSE]}
  /\ call' = [call EXCEPT ![c] = [pc |-> "waiting", rows |-> rows]]

\* A connection breaks: the request never arrives, goes on unheard, or its
\* answer is lost.
ConnectionBreaks(c) ==
  /\ Fault
  /\ \/ /\ call[c].pc = "waiting"
        /\ \E req \in inflight :
             /\ req.by = c
             /\ \E rest \in {{}, {[req EXCEPT !.by = "nobody"]}} :
                  inflight' = (inflight \ {req}) \cup rest
     \/ call[c].pc \in {"yes", "no"} /\ inflight' = inflight
  /\ call' = [call EXCEPT ![c].pc = "lost"]
  /\ UNCHANGED <<queue, lastId, shown>> /\ PhoneStep

\* enqueuePendingSync under the key `verb:grant`: a row there already stays.
Enqueue(verb, g) ==
  IF \E row \in queue : row.verb = verb /\ row.grant = g
    THEN UNCHANGED <<queue, lastId>>
    ELSE /\ lastId < MaxRows /\ lastId' = lastId + 1
         /\ queue' = queue \cup {[id |-> lastId + 1, verb |-> verb, grant |-> g]}

\* performConsentAction, from a card of the screen.
Tap ==
  /\ call["tap"].pc = "idle"
  /\ \E g \in Grants, verb \in Verbs :
       /\ shown[g] = Needs(verb)
       /\ \/ /\ Enqueue(verb, g)         \* offline
             /\ shown' = [shown EXCEPT ![g] = Outcome[verb]]
             /\ UNCHANGED <<call, inflight>>
          \/ /\ Send("tap", verb, g, {[id |-> 1, verb |-> verb, grant |-> g]})
             /\ UNCHANGED <<queue, lastId, shown>>
  /\ UNCHANGED faults /\ PhoneStep

\* Answered, or failed with a message that is not about the network.
TapEnds ==
  /\ call["tap"].pc \in {"yes", "no", "lost"}
  /\ call' = [call EXCEPT !["tap"] = Idle]
  /\ UNCHANGED <<queue, lastId, shown, inflight, faults>> /\ PhoneStep

\* A message with "Network" or "fetch": queued as if offline.
TapQueued ==
  /\ call["tap"].pc = "lost"
  /\ \E d \in call["tap"].rows :
       Enqueue(d.verb, d.grant) /\ shown' = [shown EXCEPT ![d.grant] = Outcome[d.verb]]
  /\ call' = [call EXCEPT !["tap"] = Idle]
  /\ UNCHANGED <<inflight, faults>> /\ PhoneStep

\* processPendingConsentQueue, from the screen or from a sync pipeline.
Start(c) ==
  /\ call[c].pc = "idle"
  /\ call' = [call EXCEPT ![c] = [pc |-> "run", rows |-> queue]]
  /\ UNCHANGED <<queue, lastId, shown, inflight, faults>> /\ PhoneStep

\* The row a run is at: the oldest of those it loaded and has not tried yet.
Current(c) == {row \in call[c].rows : \A r \in call[c].rows : row.id <= r.id}

SendRow(c) ==
  /\ call[c].pc = "run"
  /\ \E row \in Current(c) : Send(c, row.verb, row.grant, call[c].rows)
  /\ UNCHANGED <<queue, lastId, shown, faults>> /\ PhoneStep

NextRow(c) == call' = [call EXCEPT ![c] = [pc |-> "run", rows |-> call[c].rows \ Current(c)]]

RowDone(c) ==
  /\ call[c].pc = "yes" /\ NextRow(c)
  /\ queue' = {row \in queue : \A r \in Current(c) : row.id # r.id}
  /\ UNCHANGED <<lastId, shown, inflight, faults>> /\ PhoneStep

\* The first failure ends the run.
RowFailedStops(c) ==
  /\ call[c].pc \in {"no", "lost"}
  /\ call' = [call EXCEPT ![c] = [pc |-> "run", rows |-> {}]]
  /\ UNCHANGED <<queue, lastId, shown, inflight, faults>> /\ PhoneStep

\* The row is marked, whatever the reason, and the next one is tried.
RowFailed(c) ==
  /\ call[c].pc \in {"no", "lost"} /\ NextRow(c)
  /\ UNCHANGED <<queue, lastId, shown, inflight, faults>> /\ PhoneStep

RunEnds(c) ==
  /\ call[c].pc = "run" /\ call[c].rows = {}
  /\ call' = [call EXCEPT ![c].pc = IF c = "screen" THEN "list" ELSE "idle"]
  /\ UNCHANGED <<queue, lastId, shown, inflight, faults>> /\ PhoneStep

\* fetchMyConsentGrants; when it fails the screen shows nothing.
List ==
  /\ "screen" \in Processors /\ call["screen"].pc = "list"
  /\ call' = [call EXCEPT !["screen"] = Idle]
  /\ \/ shown' = status /\ faults' = faults
     \/ shown' = [g \in Grants |-> "none"] /\ Fault
  /\ UNCHANGED <<queue, lastId, inflight>> /\ PhoneStep

Kill ==
  /\ Fault
  /\ call' = [c \in Callers |-> Idle]
  /\ inflight' = {[req EXCEPT !.by = "nobody"] : req \in inflight}
  /\ shown' = [g \in Grants |-> "none"]
  /\ UNCHANGED <<queue, lastId>> /\ PhoneStep

-----------------------------------------------------------------------------
Ask(r) == SelectPending(r) \/ SelectActive(r) \/ InsertGrant(r)
Sell == ClockTicks \/ \E k \in Packages : InsertPackage(k) \/ LinkVouchers(k)
Run(c) == Start(c) \/ SendRow(c) \/ RowDone(c) \/ RowFailed(c) \/ RunEnds(c)

Next ==
  \/ Sell \/ Tap \/ TapEnds \/ TapQueued \/ List \/ Kill
  \/ \E r \in Requesters : Ask(r)
  \/ \E req \in inflight : ServerFails(req)
  \/ \E c \in Callers \cup {"nobody"} : Serve(c)
  \/ \E c \in Callers : ConnectionBreaks(c)
  \/ \E c \in Processors : Run(c)

Fairness ==
  /\ WF_vars(List)
  /\ \A c \in Callers : WF_vars(Serve(c))
  /\ \A c \in Processors : WF_vars(Run(c))

Spec == Init /\ [][Next]_vars
FairSpec == Spec /\ Fairness

-----------------------------------------------------------------------------
(* Properties                                                              *)

(* A grant moves from pending to active or denied and from active to       *)
(* revoked, and never back, however often a decision is replayed and       *)
(* whichever two decisions overlap on the server.                          *)
NoDecisionUndone ==
  [][\A g \in Grants : status'[g] # status[g] =>
       <<status[g], status'[g]>> \in
         {<<"none", "pending">>, <<"pending", "active">>, <<"pending", "denied">>,
          <<"active", "revoked">>}]_status

(* The organisation reads new data under consent only while the farmer's   *)
(* last effective decision is an approval: revoking closes the gate until  *)
(* a later approval, even if two grants are open.                          *)
GateFollowsFarmer == Gate = "active" => latest = "approve"

(* Asking again gives the open grant back: a farmer and an organisation    *)
(* have two open grants, and the gate and the delivery check disagree,     *)
(* only after two requests ran at the same time.                           *)
OneOpenGrant ==
  ~overlapped => /\ \A g, h \in WithStatus("pending") \cup WithStatus("active") : g = h
                 /\ CanDeliverTo = (Gate = "active")

(* A voucher that was sold in a package filed under the farmer, and that   *)
(* the organisation may read, stays readable when the farmer denies or     *)
(* revokes, whichever of several grants, however the package was created   *)
(* and linked around the decision: only a new request hides it, or a       *)
(* revocation in the very millisecond in which the package was created.    *)
(* Packages filed under another farmer promise nothing.                    *)
SoldStaysReadable ==
  [][\A v \in VouchersOf(Filed \ recent) :
       CanReadVoucher(v) /\ ~CanReadVoucher(v)' /\ Member => Gate' = "pending"]_vars

(* "Will sync when you are back online": whatever is queued is decided on  *)
(* the server in the end, though one decision fails for ever: no row waits *)
(* for a grant that its decision could still move.                         *)
QueuedIsDecided ==
  \A g \in Grants, verb \in Verbs :
    (\E row \in queue : row.grant = g /\ row.verb = verb) ~> status[g] # Needs(verb)
=============================================================================
