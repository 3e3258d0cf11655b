----------------------------- MODULE AuditCalls -----------------------------
(***************************************************************************)
(* How a document of the farmer (a declaration, the preferences, a draft)  *)
(* reaches the server's audit_log: queueFieldCloudAuditSync.ts and         *)
(* queueDeclarationAuditSync.ts clear the marker of its kind, queue the    *)
(* event, post it, and then take the row out again and set the marker; a   *)
(* drain (processPendingSyncQueue.ts) posts the rows that stayed.  No      *)
(* lock, and a step at every await.  Used by DeclarationSync and           *)
(* MappingDraft, which say who calls.                                      *)
(***************************************************************************)
EXTENDS PendingSyncTable, Sequences, SequencesExt

CONSTANTS
  Kinds,          \* event types: an audit_sync row's key is its kind
  Marked,         \* kinds whose marker the model keeps: nobody reads the others
  Screens,        \* calls made from screens, beside the pipeline's
  MaxVersions,    \* bound of the model: versions of each kind
  MaxRows,        \* bound of the model: ids in use
  MaxFaults       \* bound of the model: lost answers, failures and kills

ASSUME BoundsAssumption ==
  /\ MaxVersions \in [Kinds -> Nat] /\ {MaxRows, MaxFaults} \subseteq Nat
  /\ "pipeline" \notin Screens /\ Marked \subseteq Kinds

Callers == Screens \cup {"pipeline"}
Event == UNION {[kind : {k}, body : 1..MaxVersions[k]] : k \in Kinds}

VARIABLES
  rows,      \* the audit_sync rows of pending_sync
  marker,    \* kinds with their audit_..._synced setting
  call,      \* the call each caller is in
  drain,     \* the pipeline's pass over the queue
  log,       \* audit_log: each event where it was last appended
  faults

callVars == <<rows, marker, call, drain, log, faults>>

Row == [id : 1..MaxRows, key : Kinds, at : 1..MaxRows, attempts : 0..MaxFaults, body : Nat]
Idle == [pc |-> "idle"]

CallsTypeOK ==
  /\ rows \subseteq Row /\ \A r, s \in rows : r.id = s.id => r = s
  /\ marker \subseteq Marked
  /\ DOMAIN call = Callers
  /\ \A c \in Callers :
       call[c].pc # "idle" => /\ call[c].pc \in {"lookup", "insert", "update", "post", "find", "delete", "mark"}
                              /\ [kind |-> call[c].kind, body |-> call[c].body] \in Event
  /\ drain.pc \in {"idle", "send", "sent", "marked", "failed"}
  /\ log \in Seq(Event) /\ \A i, j \in DOMAIN log : log[i] = log[j] => i = j
  /\ faults \in 0..MaxFaults

CallsInit ==
  /\ rows = {} /\ marker = {} /\ log = <<>> /\ faults = 0
  /\ call = [c \in Callers |-> Idle] /\ drain = Idle

Fault == faults < MaxFaults /\ faults' = faults + 1

-----------------------------------------------------------------------------
(* The server                                                              *)

Logged(k) == {log[i].body : i \in {j \in DOMAIN log : log[j].kind = k}}

\* ORDER BY timestamp DESC, the first row of the kind; 0 for none.
Latest(k) ==
  LET ofKind == {i \in DOMAIN log : log[i].kind = k}
  IN IF ofKind = {} THEN 0 ELSE log[Max(ofKind)].body

\* audit.controller.ts create: INSERT, whatever was logged before.
AppendEvent(k, v) ==
  LET e == [kind |-> k, body |-> v]
      i == CHOOSE j \in DOMAIN log : log[j] = e
  IN Append(IF e \in ToSet(log) THEN RemoveAt(log, i) ELSE log, e)

-----------------------------------------------------------------------------
(* queueFieldCloudAuditSync, queueDeclarationAuditSync                     *)

Becomes(c, next) == call' = [call EXCEPT ![c] = next]
At(c, pc) == call[c].pc = pc
Goes(c, pc) == Becomes(c, [call[c] EXCEPT !.pc = pc, !.id = 0])

Begin(c, k, v) ==
  /\ At(c, "idle")
  /\ marker' = marker \ {k}
  /\ Becomes(c, [pc |-> "lookup", kind |-> k, body |-> v, id |-> 0, retry |-> FALSE])
  /\ UNCHANGED <<rows, drain, log>>

\* enqueuePendingSync: rows.find, then UPDATE or INSERT.
LookUp(c) ==
  /\ At(c, "lookup")
  /\ IF FirstMatch(rows, call[c].kind) = {}
       THEN Goes(c, "insert")
       ELSE \E r \in FirstMatch(rows, call[c].kind) :
              Becomes(c, [call[c] EXCEPT !.pc = "update", !.id = r.id])
  /\ UNCHANGED <<rows, marker, drain, log, faults>>

\* AUTOINCREMENT: above every id that is still in the table or remembered.
UsedIds ==
  {0} \cup {r.id : r \in rows}
  \cup {call[c].id : c \in {d \in Callers : ~At(d, "idle")}}
  \cup (IF drain.pc = "idle" THEN {} ELSE {r.id : r \in drain.todo})
  \cup (IF drain.pc \in {"sent", "marked", "failed"} THEN {drain.row.id} ELSE {})

NewId == 1 + CHOOSE i \in UsedIds : \A j \in UsedIds : j <= i

Enqueued(c) == IF call[c].retry THEN Becomes(c, Idle) ELSE Goes(c, "post")

\* Only the payload changes: the row keeps its place in the queue.  The row
\* may be gone by now, and then nothing is stored.
Update(c) ==
  /\ At(c, "update") /\ Enqueued(c)
  /\ rows' = {IF r.id = call[c].id THEN [r EXCEPT !.body = call[c].body] ELSE r : r \in rows}
  /\ UNCHANGED <<marker, drain, log, faults>>

Insert(c) ==
  /\ At(c, "insert") /\ Enqueued(c)
  /\ LET new == NewId
     IN /\ new <= MaxRows
        /\ rows' = rows \cup {[id |-> new, key |-> call[c].kind, at |-> new,
                               attempts |-> 0, body |-> call[c].body]}
  /\ UNCHANGED <<marker, drain, log, faults>>

\* A screen may be offline at any time; a pipeline has checked.
Offline(c) == IF c \in Screens THEN UNCHANGED faults ELSE Fault

NoSession(c) ==
  /\ At(c, "post") /\ Offline(c) /\ Becomes(c, Idle)
  /\ UNCHANGED <<rows, marker, drain, log>>

PostSucceeds(c) ==
  /\ At(c, "post") /\ Goes(c, "find")
  /\ log' = AppendEvent(call[c].kind, call[c].body)
  /\ UNCHANGED <<rows, marker, drain, faults>>

\* A failure taken for a success.
PostFailsUnnoticed(c) ==
  /\ At(c, "post") /\ Goes(c, "find")
  /\ \/ Offline(c) /\ log' = log
     \/ Fault /\ log' = AppendEvent(call[c].kind, call[c].body)
  /\ UNCHANGED <<rows, marker, drain>>

\* Refused, unreachable, or recorded with the answer lost: queued again.
PostFails(c) ==
  /\ At(c, "post")
  /\ Becomes(c, [call[c] EXCEPT !.pc = "lookup", !.retry = TRUE])
  /\ \/ Offline(c) /\ log' = log
     \/ Fault /\ log' = AppendEvent(call[c].kind, call[c].body)
  /\ UNCHANGED <<rows, marker, drain>>

\* deletePendingSyncByDedupKey: the row of the key, whatever it holds now.
Find(c) ==
  /\ At(c, "find")
  /\ IF FirstMatch(rows, call[c].kind) = {}
       THEN Goes(c, "mark")
       ELSE \E r \in FirstMatch(rows, call[c].kind) :
              Becomes(c, [call[c] EXCEPT !.pc = "delete", !.id = r.id])
  /\ UNCHANGED <<rows, marker, drain, log, faults>>

Delete(c) ==
  /\ At(c, "delete") /\ Goes(c, "mark")
  /\ rows' = WithoutIds(rows, {call[c].id})
  /\ UNCHANGED <<marker, drain, log, faults>>

Mark(c) ==
  /\ At(c, "mark") /\ Becomes(c, Idle)
  /\ marker' = marker \cup ({call[c].kind} \cap Marked)
  /\ UNCHANGED <<rows, drain, log, faults>>

CallStep(c) ==
  LookUp(c) \/ Update(c) \/ Insert(c) \/ PostSucceeds(c) \/ Find(c) \/ Delete(c) \/ Mark(c)
CallFails(c) == NoSession(c) \/ PostFails(c)

-----------------------------------------------------------------------------
(* A drain: compact, load, then post, mark and delete row by row           *)

DrainKeepsRest == UNCHANGED call

Load ==
  /\ drain.pc = "idle"
  /\ rows' = rows \ DeleteRows(rows)
  /\ drain' = [pc |-> "send", todo |-> rows']
  /\ UNCHANGED <<marker, log, faults>> /\ DrainKeepsRest

DrainRow(pc) ==
  \E r \in NextInLine(drain.todo) : drain' = [pc |-> pc, todo |-> drain.todo \ {r}, row |-> r]

\* The payload of the snapshot.
SendRow ==
  /\ drain.pc = "send" /\ drain.todo # {} /\ DrainRow("sent")
  /\ log' = AppendEvent(drain'.row.key, drain'.row.body)
  /\ UNCHANGED <<rows, marker, faults>> /\ DrainKeepsRest

SendRowFails ==
  /\ drain.pc = "send" /\ drain.todo # {} /\ DrainRow("failed") /\ Fault
  /\ log' \in {log, AppendEvent(drain'.row.key, drain'.row.body)}
  /\ UNCHANGED <<rows, marker>> /\ DrainKeepsRest

\* markDeclarationAuditSynced, markFieldCloudAuditSynced
MarkRow ==
  /\ drain.pc = "sent"
  /\ marker' = marker \cup ({drain.row.key} \cap Marked)
  /\ drain' = [drain EXCEPT !.pc = "marked"]
  /\ UNCHANGED <<rows, log, faults>> /\ DrainKeepsRest

\* By id, whatever the row holds now.
DeleteRow ==
  /\ drain.pc = "marked"
  /\ rows' = WithoutIds(rows, {drain.row.id})
  /\ drain' = [drain EXCEPT !.pc = "send"]
  /\ UNCHANGED <<marker, log, faults>> /\ DrainKeepsRest

\* Counted by the caller and by the statement.
RowFailedTwice ==
  /\ drain.pc = "failed"
  /\ rows' = MarkAttempt(rows, drain.row.id, drain.row.attempts + 2)
  /\ drain' = [drain EXCEPT !.pc = "send"]
  /\ UNCHANGED <<marker, log, faults>> /\ DrainKeepsRest

RowFailed ==
  /\ drain.pc = "failed"
  /\ rows' = MarkAttempt(rows, drain.row.id, drain.row.attempts + 1)
  /\ drain' = [drain EXCEPT !.pc = "send"]
  /\ UNCHANGED <<marker, log, faults>> /\ DrainKeepsRest

DrainDone == drain.pc = "send" /\ drain.todo = {}

DrainStep == SendRow \/ MarkRow \/ DeleteRow \/ RowFailed

CallsDie == call' = [c \in Callers |-> Idle] /\ drain' = Idle /\ UNCHANGED <<rows, marker, log>>
=============================================================================
