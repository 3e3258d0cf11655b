-------------------------- MODULE PendingSyncQueue --------------------------
(***************************************************************************)
(* The callers of the pending_sync table, with an interleaving point at    *)
(* every await between two statements: enqueuePendingSync (look up, then   *)
(* update or insert, then evict what exceeds the cap),                     *)
(* compactDuplicatePendingSyncActions (load and plan, then delete row by   *)
(* row), and a pass of processPendingSyncQueue (compact, load, then send,  *)
(* delete or mark row by row).                                             *)
(*                                                                         *)
(* SQLite runs one statement at a time but nothing wraps these sequences   *)
(* in a transaction.  Enqueueing takes no lock at all, and neither do the  *)
(* screens that compact the table when they count what is pending          *)
(* (measureTotalSyncPending.ts, autoBackupPolicy.ts, hasLocalSyncWork.ts,  *)
(* settings.tsx); a second drain runs next to the first when the sync lock *)
(* was taken from it (SyncQueueMutex).                                     *)
(***************************************************************************)
EXTENDS PendingSyncTable

CONSTANTS
  Keys,       \* dedup keys: the logical uploads
  Savers,     \* concurrent callers of enqueuePendingSync
  Screens,    \* callers of compactDuplicatePendingSyncActions outside the lock
  Drains,     \* concurrent runs of processPendingSyncQueue
  Stamps,     \* values of createdAt
  Cap,        \* MAX_PENDING_SYNC_ACTIONS
  MaxRows,    \* bound of the model: rows ever inserted
  MaxFaults   \* bound of the model: failed uploads and kills of the app

Actors == Savers \cup Screens \cup Drains

ASSUME ActorsAssumption ==
  /\ IsFiniteSet(Savers)
  /\ Savers \cap (Screens \cup Drains) = {} /\ Screens \cap Drains = {}
ASSUME BoundsAssumption ==
  Stamps \subseteq Nat /\ Cap \in Nat \ {0} /\ MaxRows \in Nat /\ MaxFaults \in Nat

VARIABLES
  rows,       \* the table
  nextId,     \* AUTOINCREMENT
  op,         \* what each actor is doing, and what it remembers of the table
  delivered,  \* the keys whose upload the server has accepted
  accepted,   \* history: the keys enqueuePendingSync has returned for
  evicted,    \* history: the keys that lost a row to the cap
  faults

vars == <<rows, nextId, op, delivered, accepted, evicted, faults>>

Row == [id : Nat, key : Keys, at : Stamps, attempts : Nat]

Idle == [pc |-> "idle"]

(* Beside pc: the key (and createdAt) being enqueued; `todo`, the rows     *)
(* selected for eviction, planned for deletion or left of the snapshot;    *)
(* `row`, the snapshot row the drain has come to.                          *)
Pcs == {"idle", "update", "insert", "cap", "evict", "compact", "send", "remove", "mark"}

TypeOK ==
  /\ rows \subseteq Row
  /\ \A r, s \in rows : r.id = s.id => r = s
  /\ nextId \in 1..(MaxRows + 1) /\ \A r \in rows : r.id < nextId
  /\ DOMAIN op = Actors
  /\ \A a \in Actors :
       /\ op[a].pc \in Pcs
       /\ op[a].pc \in {"update", "insert", "cap", "evict"} => op[a].key \in Keys
       /\ op[a].pc \in {"evict", "compact", "send", "remove", "mark"} =>
            op[a].todo \subseteq Row /\ \A r \in op[a].todo : r.id < nextId
       /\ op[a].pc \in {"remove", "mark"} => op[a].row \in Row
  /\ delivered \subseteq Keys /\ accepted \subseteq Keys /\ evicted \subseteq Keys
  /\ faults \in 0..MaxFaults

Init ==
  /\ rows = {}
  /\ nextId = 1
  /\ op = [a \in Actors |-> Idle]
  /\ delivered = {}
  /\ accepted = {}
  /\ evicted = {}
  /\ faults = 0

Becomes(a, next) == op' = [op EXCEPT ![a] = next]

-----------------------------------------------------------------------------
(* enqueuePendingSync                                                      *)

\* Coalescing dropped: every enqueue inserts.
LookUpNothing(c, key, at) ==
  /\ op[c].pc = "idle"
  /\ Becomes(c, [pc |-> "insert", key |-> key, at |-> at])
  /\ UNCHANGED <<rows, nextId, delivered, accepted, evicted, faults>>

LookUp(c, key, at) ==
  /\ op[c].pc = "idle"
  /\ Becomes(c, IF FirstMatch(rows, key) # {}
                  THEN [pc |-> "update", key |-> key]
                  ELSE [pc |-> "insert", key |-> key, at |-> at])
  /\ UNCHANGED <<rows, nextId, delivered, accepted, evicted, faults>>

\* UPDATE payloadJson: the key stays, so the row as modelled does; the row
\* may also be gone by now, and then nothing is updated either.
Update(c) ==
  /\ op[c].pc = "update"
  /\ accepted' = accepted \cup {op[c].key}
  /\ Becomes(c, Idle)
  /\ UNCHANGED <<rows, nextId, delivered, evicted, faults>>

\* A rowid handed out twice.
InsertReusingId(c) ==
  /\ op[c].pc = "insert"
  /\ nextId <= MaxRows
  /\ rows' = rows \cup
       {[id |-> nextId, key |-> op[c].key, at |-> op[c].at, attempts |-> 0]}
  /\ Becomes(c, [pc |-> "cap", key |-> op[c].key])
  /\ UNCHANGED <<nextId, delivered, accepted, evicted, faults>>

Insert(c) ==
  /\ op[c].pc = "insert"
  /\ nextId <= MaxRows
  /\ rows' = rows \cup
       {[id |-> nextId, key |-> op[c].key, at |-> op[c].at, attempts |-> 0]}
  /\ nextId' = nextId + 1
  /\ Becomes(c, [pc |-> "cap", key |-> op[c].key])
  /\ UNCHANGED <<delivered, accepted, evicted, faults>>

\* One row at a time: what a killed call left behind stays.
SelectOldestOnly(c) ==
  /\ op[c].pc = "cap"
  /\ LET surplus == {r \in OverflowRows(rows, Cap) : \A s \in rows : s = r \/ Older(r, s)}
         done == surplus = {}
     IN /\ Becomes(c, IF done THEN Idle
                      ELSE [pc |-> "evict", key |-> op[c].key, todo |-> surplus])
        /\ accepted' = IF done THEN accepted \cup {op[c].key} ELSE accepted
  /\ UNCHANGED <<rows, nextId, delivered, evicted, faults>>

SelectOverflow(c) ==
  /\ op[c].pc = "cap"
  /\ LET surplus == OverflowRows(rows, Cap)
         done == surplus = {}
     IN /\ Becomes(c, IF done THEN Idle
                      ELSE [pc |-> "evict", key |-> op[c].key, todo |-> surplus])
        /\ accepted' = IF done THEN accepted \cup {op[c].key} ELSE accepted
  /\ UNCHANGED <<rows, nextId, delivered, evicted, faults>>

Evict(c) ==
  /\ op[c].pc = "evict"
  /\ LET gone == {r \in rows : \E s \in op[c].todo : r.id = s.id}
     IN /\ rows' = rows \ gone
        /\ evicted' = evicted \cup {r.key : r \in gone}
  /\ accepted' = accepted \cup {op[c].key}
  /\ Becomes(c, Idle)
  /\ UNCHANGED <<nextId, delivered, faults>>

-----------------------------------------------------------------------------
(* compactDuplicatePendingSyncActions                                      *)

PlanCompaction(c) ==
  /\ op[c].pc = "idle"
  /\ Becomes(c, [pc |-> "compact", todo |-> DeleteRows(rows)])
  /\ UNCHANGED <<rows, nextId, delivered, accepted, evicted, faults>>

CompactDelete(c) ==
  /\ op[c].pc = "compact"
  /\ \E r \in op[c].todo :
       /\ \A s \in op[c].todo : s = r \/ Older(r, s)
       /\ rows' = WithoutIds(rows, {r.id})
       /\ Becomes(c, [pc |-> "compact", todo |-> op[c].todo \ {r}])
  /\ UNCHANGED <<nextId, delivered, accepted, evicted, faults>>

CompactionDone(c) ==
  /\ c \in Screens
  /\ op[c].pc = "compact" /\ op[c].todo = {}
  /\ Becomes(c, Idle)
  /\ UNCHANGED <<rows, nextId, delivered, accepted, evicted, faults>>

-----------------------------------------------------------------------------
(* processPendingSyncQueue, after its compaction                           *)

\* A snapshot that spares the rows that have failed before.
LoadFirstAttempts(d) ==
  /\ d \in Drains
  /\ op[d].pc = "compact" /\ op[d].todo = {}
  /\ Becomes(d, [pc |-> "send", todo |-> {r \in rows : r.attempts = 0}])
  /\ UNCHANGED <<rows, nextId, delivered, accepted, evicted, faults>>

LoadSnapshot(d) ==
  /\ d \in Drains
  /\ op[d].pc = "compact" /\ op[d].todo = {}
  /\ Becomes(d, [pc |-> "send", todo |-> rows])
  /\ UNCHANGED <<rows, nextId, delivered, accepted, evicted, faults>>

SendSucceeds(d) ==
  /\ op[d].pc = "send"
  /\ \E r \in NextInLine(op[d].todo) :
       /\ delivered' = delivered \cup {r.key}
       /\ Becomes(d, [pc |-> "remove", row |-> r, todo |-> op[d].todo \ {r}])
  /\ UNCHANGED <<rows, nextId, accepted, evicted, faults>>

SendFails(d) ==
  /\ op[d].pc = "send" /\ faults < MaxFaults
  /\ \E r \in NextInLine(op[d].todo) :
       Becomes(d, [pc |-> "mark", row |-> r, todo |-> op[d].todo \ {r}])
  /\ faults' = faults + 1
  /\ UNCHANGED <<rows, nextId, delivered, accepted, evicted>>

Remove(d) ==
  /\ op[d].pc = "remove"
  /\ rows' = WithoutIds(rows, {op[d].row.id})
  /\ Becomes(d, [pc |-> "send", todo |-> op[d].todo])
  /\ UNCHANGED <<nextId, delivered, accepted, evicted, faults>>

\* A failed row taken for a finished one.
MarkRemovesRow(d) ==
  /\ op[d].pc = "mark"
  /\ rows' = WithoutIds(rows, {op[d].row.id})
  /\ Becomes(d, [pc |-> "send", todo |-> op[d].todo])
  /\ UNCHANGED <<nextId, delivered, accepted, evicted, faults>>

Mark(d) ==
  /\ op[d].pc = "mark"
  /\ rows' = MarkAttempt(rows, op[d].row.id, op[d].row.attempts + 1)
  /\ Becomes(d, [pc |-> "send", todo |-> op[d].todo])
  /\ UNCHANGED <<nextId, delivered, accepted, evicted, faults>>

PassDone(d) ==
  /\ op[d].pc = "send" /\ op[d].todo = {}
  /\ Becomes(d, Idle)
  /\ UNCHANGED <<rows, nextId, delivered, accepted, evicted, faults>>

\* The app is killed: the table is all that survives.
Kill ==
  /\ faults < MaxFaults
  /\ faults' = faults + 1
  /\ \E a \in Actors : op[a] # Idle
  /\ op' = [a \in Actors |-> Idle]
  /\ UNCHANGED <<rows, nextId, delivered, accepted, evicted>>

-----------------------------------------------------------------------------
SaverStep(c) ==
  \/ Update(c) \/ Insert(c) \/ SelectOverflow(c) \/ Evict(c)

DrainStep(d) ==
  \/ PlanCompaction(d) \/ CompactDelete(d) \/ LoadSnapshot(d)
  \/ SendSucceeds(d) \/ Remove(d) \/ Mark(d) \/ PassDone(d)

Next ==
  \/ \E c \in Savers : \/ \E key \in Keys, at \in Stamps : LookUp(c, key, at)
                       \/ SaverStep(c)
  \/ \E c \in Screens : PlanCompaction(c) \/ CompactDelete(c) \/ CompactionDone(c)
  \/ \E d \in Drains : DrainStep(d) \/ SendFails(d)
  \/ Kill

Spec == Init /\ [][Next]_vars

(* Drains are started again and again (connectivity, app state and "Sync   *)
(* now" all trigger one), a started call runs on unless the app is killed, *)
(* and uploads fail only MaxFaults times.                                  *)
Fairness == \A d \in Drains : WF_vars(DrainStep(d))

FairSpec == Spec /\ Fairness

-----------------------------------------------------------------------------
(* Properties                                                              *)

Queued == {r.key : r \in rows}

(* "Enforce the cap by dropping the oldest rows"                           *)
(* (persistence.native.ts:922): a call that inserted a row returns only    *)
(* when the table is back within the cap, but for the insertions whose own *)
(* eviction is still to come, whatever earlier calls left behind when the  *)
(* app was killed between their insertion and their eviction.              *)
Capping(state) == {c \in Savers : state[c].pc \in {"cap", "evict"}}

CapRestored ==
  [][\A c \in Savers :
       c \in Capping(op) /\ op'[c] = Idle /\ faults' = faults
       => Cardinality(rows') <= Cap + Cardinality(Capping(op'))]_vars

(* "Stable key so one logical upload does not spawn hundreds of queue      *)
(* rows" (pendingSyncDedup.ts:3): a key has at most one row per caller     *)
(* that may have looked it up before any of them inserted it.              *)
DuplicatesBounded ==
  \A key \in Keys : Cardinality({r \in rows : r.key = key}) <= Cardinality(Savers)

(* What enqueuePendingSync has accepted is uploaded, or still queued, or   *)
(* was given up to the cap: no interleaving of enqueueing, compacting,     *)
(* draining and dying loses it otherwise.                                  *)
KeyNotForgotten == accepted \subseteq delivered \cup Queued \cup evicted

(* Everything accepted is uploaded in the end, or given up to the cap,     *)
(* once uploads stop failing.                                              *)
AcceptedIsDelivered ==
  \A key \in Keys : key \in accepted ~> key \in delivered \cup evicted
=============================================================================
