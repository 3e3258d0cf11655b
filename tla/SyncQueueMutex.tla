--------------------------- MODULE SyncQueueMutex ---------------------------
(***************************************************************************)
(* The in-process lock of the field app's sync engine                      *)
(* (features/sync/syncQueueMutex.ts), together with the operation budget   *)
(* its two callers put around the work they run under it                   *)
(* (features/sync/syncOperationLimits.ts; runAutoBackup.ts and "Sync now"  *)
(* in settings.tsx).                                                       *)
(*                                                                         *)
(* A call is one invocation of withSyncQueueLock.  It waits for the lock,  *)
(* runs its work while it holds it, and releases it in a `finally`.  Two   *)
(* clocks can overtake it: the operation budget, which settles the call    *)
(* while the work itself keeps running, and the maximum hold time, after   *)
(* which the next caller to arrive takes the lock away from a holder that  *)
(* never released.  The fencing token currentHolderId is what keeps such a *)
(* displaced holder from releasing somebody else's lock.                   *)
(*                                                                         *)
(* JavaScript runs each handler to completion, so every action is one      *)
(* synchronous stretch of the code.  Timers fire at or after their delay,  *)
(* never at an exact instant: Tick does not wait for them.                 *)
(***************************************************************************)
EXTENDS Naturals, Sequences, FiniteSets

CONSTANTS
  Calls,        \* the invocations of withSyncQueueLock, in any order
  PatientCalls, \* the calls made with waitMs = 'never'
  WaitMs,       \* how long the other calls wait for the lock
  OpMs,         \* budget of withSyncOperationTimeout around the work
  MaxHoldMs,    \* MAX_LOCK_HOLD_MS
  WorkPhases    \* the phases a pipeline reports through setSyncQueuePhase

Nobody == "nobody"

ASSUME CallsAssumption ==
  /\ IsFiniteSet(Calls) /\ PatientCalls \subseteq Calls
  /\ Nobody \notin Calls
ASSUME BudgetAssumption ==
  /\ WaitMs \in Nat /\ OpMs \in Nat /\ MaxHoldMs \in Nat
  /\ OpMs < MaxHoldMs
ASSUME PhaseAssumption == "idle" \notin WorkPhases /\ "preparing" \notin WorkPhases

VARIABLES
  locked,
  currentHolderId,   \* fencing token of the holder; NoHolder is null
  holderIdCounter,
  lockAge,           \* Date.now() - lockStartedAt, saturating at MaxHoldMs
  phase,
  waitQueue,         \* the calls queued for the lock, dead entries included
  waiting,           \* waitingSince # null
  waiterCount,
  call,              \* how far each call has come
  holderId,          \* the token each call was granted (0: none yet)
  elapsed            \* age of each call's running timer, saturating

lockVars == <<locked, currentHolderId, holderIdCounter, lockAge, phase,
              waitQueue, waiting, waiterCount>>
vars == <<lockVars, call, holderId, elapsed>>

NoHolder == 0

(* "new": not made yet.  "waiting": its promise is unsettled.  "holding":  *)
(* between grant and finally.  "abandoned": the call has settled with      *)
(* SyncOperationTimeoutError and its work still runs.                      *)
CallStates == {"new", "waiting", "holding", "abandoned", "done", "timedOut"}

IsWaiting(c) == call[c] = "waiting"
Waiters == {c \in Calls : IsWaiting(c)}
Queued == {waitQueue[i] : i \in DOMAIN waitQueue}
Working(c) == call[c] \in {"holding", "abandoned"}

TypeOK ==
  /\ locked \in BOOLEAN
  /\ currentHolderId \in Nat
  /\ holderIdCounter \in Nat
  /\ lockAge \in 0..MaxHoldMs
  /\ phase \in {"idle", "preparing"} \cup WorkPhases
  /\ waitQueue \in Seq(Calls)
  /\ waiting \in BOOLEAN
  /\ waiterCount \in Nat
  /\ call \in [Calls -> CallStates]
  /\ holderId \in [Calls -> Nat]
  /\ elapsed \in [Calls -> 0..MaxHoldMs]

Init ==
  /\ locked = FALSE
  /\ currentHolderId = NoHolder
  /\ holderIdCounter = 0
  /\ lockAge = 0
  /\ phase = "idle"
  /\ waitQueue = <<>>
  /\ waiting = FALSE
  /\ waiterCount = 0
  /\ call = [c \in Calls |-> "new"]
  /\ holderId = [c \in Calls |-> 0]
  /\ elapsed = [c \in Calls |-> 0]

-----------------------------------------------------------------------------
(* Granting and giving up the lock                                         *)

\* assignHolderLock() and the settling of the promise of `c`.
AssignHolderLock(c) ==
  /\ locked' = TRUE
  /\ holderIdCounter' = holderIdCounter + 1
  /\ currentHolderId' = holderIdCounter + 1
  /\ lockAge' = 0
  /\ phase' = "preparing"
  /\ holderId' = [holderId EXCEPT ![c] = holderIdCounter + 1]

\* The assignments that clear the lock when nobody takes over.
ClearLock ==
  /\ locked' = FALSE
  /\ currentHolderId' = NoHolder
  /\ lockAge' = 0
  /\ phase' = "idle"
  /\ waiting' = FALSE

WaiterGoneTwice ==
  /\ waiterCount' = waiterCount - 2
  /\ waiting' = (waiting /\ waiterCount > 2)

\* One waiter less: its timer fired, or it was granted the lock.
WaiterGone ==
  /\ waiterCount' = IF waiterCount > 0 THEN waiterCount - 1 ELSE 0
  /\ waiting' = (waiting /\ waiterCount > 1)

\* A settled waiter answers FALSE to its grant: the queue entry is dead.
FirstLive(i) ==
  /\ i \in DOMAIN waitQueue
  /\ IsWaiting(waitQueue[i])
  /\ \A j \in 1..(i - 1) : ~IsWaiting(waitQueue[j])

\* handoffOrRelease(), run by call c which settles with `outcome`.
HandOff(c, outcome) ==
  \E i \in DOMAIN waitQueue :
    /\ FirstLive(i)
    /\ AssignHolderLock(waitQueue[i])
    /\ WaiterGone
    /\ waitQueue' = SubSeq(waitQueue, i + 1, Len(waitQueue))
    /\ call' = [call EXCEPT ![c] = outcome, ![waitQueue[i]] = "holding"]
    /\ elapsed' = [elapsed EXCEPT ![c] = 0, ![waitQueue[i]] = 0]

Release(c, outcome) ==
  /\ \A i \in DOMAIN waitQueue : ~IsWaiting(waitQueue[i])
  /\ ClearLock
  /\ waitQueue' = <<>>
  /\ call' = [call EXCEPT ![c] = outcome]
  /\ elapsed' = [elapsed EXCEPT ![c] = 0]
  /\ UNCHANGED <<holderIdCounter, waiterCount, holderId>>

ReleaseWithoutHandoff(c, outcome) ==
  /\ ClearLock
  /\ call' = [call EXCEPT ![c] = outcome]
  /\ elapsed' = [elapsed EXCEPT ![c] = 0]
  /\ UNCHANGED <<waitQueue, holderIdCounter, waiterCount, holderId>>

HandoffOrRelease(c, outcome) == HandOff(c, outcome) \/ Release(c, outcome)

UnfencedFinally(c, outcome) == HandoffOrRelease(c, outcome)

\* The finally block of withSyncQueueLock: only the current holder releases.
Finally(c, outcome) ==
  \/ currentHolderId = holderId[c] /\ HandoffOrRelease(c, outcome)
  \/ /\ currentHolderId # holderId[c]
     /\ call' = [call EXCEPT ![c] = outcome]
     /\ elapsed' = [elapsed EXCEPT ![c] = 0]
     /\ UNCHANGED <<lockVars, holderId>>

-----------------------------------------------------------------------------
(* waitForSyncQueueLock                                                    *)

AcquireFree(c) ==
  /\ call[c] = "new"
  /\ ~locked
  /\ AssignHolderLock(c)
  /\ call' = [call EXCEPT ![c] = "holding"]
  /\ elapsed' = [elapsed EXCEPT ![c] = 0]
  /\ UNCHANGED <<waitQueue, waiting, waiterCount>>

\* releaseStaleSyncQueueLockIfNeeded() found a holder past MAX_LOCK_HOLD_MS:
\* the queue is emptied, but neither the waiters nor waiterCount are settled.
TakeOverStale(c) ==
  /\ call[c] = "new"
  /\ locked /\ lockAge >= MaxHoldMs
  /\ AssignHolderLock(c)
  /\ waitQueue' = <<>>
  /\ waiting' = FALSE
  /\ call' = [call EXCEPT ![c] = "holding"]
  /\ elapsed' = [elapsed EXCEPT ![c] = 0]
  /\ UNCHANGED waiterCount

EnqueueWithoutCount(c) ==
  /\ call[c] = "new"
  /\ locked /\ lockAge < MaxHoldMs
  /\ waiterCount' = waiterCount
  /\ waiting' = TRUE
  /\ waitQueue' = Append(waitQueue, c)
  /\ call' = [call EXCEPT ![c] = "waiting"]
  /\ UNCHANGED <<locked, currentHolderId, holderIdCounter, lockAge, phase,
                 holderId, elapsed>>

EnqueueInFront(c) ==
  /\ call[c] = "new"
  /\ locked /\ lockAge < MaxHoldMs
  /\ waiterCount' = waiterCount + 1
  /\ waiting' = TRUE
  /\ waitQueue' = <<c>> \o waitQueue
  /\ call' = [call EXCEPT ![c] = "waiting"]
  /\ UNCHANGED <<locked, currentHolderId, holderIdCounter, lockAge, phase,
                 holderId, elapsed>>

Enqueue(c) ==
  /\ call[c] = "new"
  /\ locked /\ lockAge < MaxHoldMs
  /\ waiterCount' = waiterCount + 1
  /\ waiting' = TRUE
  /\ waitQueue' = Append(waitQueue, c)
  /\ call' = [call EXCEPT ![c] = "waiting"]
  /\ UNCHANGED <<locked, currentHolderId, holderIdCounter, lockAge, phase,
                 holderId, elapsed>>

\* onTimeout: the caller gets SyncQueueLockTimeoutError, its entry stays queued.
WaitTimeout(c) ==
  /\ IsWaiting(c)
  /\ c \notin PatientCalls
  /\ elapsed[c] >= WaitMs
  /\ WaiterGone
  /\ call' = [call EXCEPT ![c] = "timedOut"]
  /\ elapsed' = [elapsed EXCEPT ![c] = 0]
  /\ UNCHANGED <<locked, currentHolderId, holderIdCounter, lockAge, phase,
                 waitQueue, holderId>>

-----------------------------------------------------------------------------
(* The work under the lock                                                 *)

\* The work settled, with a result or an exception, before its budget did.
FinishWork(c) ==
  /\ call[c] = "holding"
  /\ Finally(c, "done")

\* withSyncOperationTimeout rejects: the lock goes, the work stays.
OperationTimeout(c) ==
  /\ call[c] = "holding"
  /\ elapsed[c] >= OpMs
  /\ Finally(c, "abandoned")

\* Nobody awaits abandoned work any more; it settles without effect on the lock.
AbandonedWorkEnds(c) ==
  /\ call[c] = "abandoned"
  /\ call' = [call EXCEPT ![c] = "done"]
  /\ UNCHANGED <<lockVars, holderId, elapsed>>

\* onPhase of the pipeline c runs: any work still running may report a phase.
SetSyncQueuePhase(c, next) ==
  /\ Working(c)
  /\ locked
  /\ phase' = next
  /\ UNCHANGED <<locked, currentHolderId, holderIdCounter, lockAge, waitQueue,
                 waiting, waiterCount, call, holderId, elapsed>>

AgeBy1(age) == IF age < MaxHoldMs THEN age + 1 ELSE MaxHoldMs

Tick ==
  /\ locked \/ \E c \in Calls : IsWaiting(c)
  /\ lockAge' = IF locked THEN AgeBy1(lockAge) ELSE 0
  /\ elapsed' = [c \in Calls |->
       IF call[c] \in {"waiting", "holding"} THEN AgeBy1(elapsed[c]) ELSE 0]
  /\ UNCHANGED <<locked, currentHolderId, holderIdCounter, phase,
                 waitQueue, waiting, waiterCount, call, holderId>>

-----------------------------------------------------------------------------
CallStep(c) ==
  \/ AcquireFree(c)
  \/ TakeOverStale(c)
  \/ Enqueue(c)
  \/ WaitTimeout(c)
  \/ FinishWork(c)
  \/ OperationTimeout(c)
  \/ AbandonedWorkEnds(c)
  \/ \E next \in WorkPhases : SetSyncQueuePhase(c, next)

Next == Tick \/ \E c \in Calls : CallStep(c)

Spec == Init /\ [][Next]_vars

(* Time passes and timers fire.  Work need never settle: a hung request is *)
(* what the two budgets are for, so FinishWork has no fairness.            *)
Fairness ==
  /\ WF_vars(Tick)
  /\ \A c \in Calls : WF_vars(WaitTimeout(c)) /\ WF_vars(OperationTimeout(c))

FairSpec == Spec /\ Fairness

-----------------------------------------------------------------------------
(* Properties                                                              *)

(* The lock is never leaked and never shared: while it is locked the call  *)
(* whose token is currentHolderId is between grant and finally, and the    *)
(* call granted last keeps the lock until its own finally.  A release by a *)
(* displaced holder, or a grant to a waiter that already gave up, would    *)
(* break it.                                                               *)
HolderIsLive ==
  /\ locked => \E c \in Calls : call[c] = "holding" /\ holderId[c] = currentHolderId
  /\ ~locked => currentHolderId = NoHolder
  /\ \A c \in Calls :
       call[c] = "holding" /\ holderId[c] = holderIdCounter
         => holderId[c] = currentHolderId
  /\ \A c, d \in Calls : holderId[c] = holderId[d] /\ holderId[c] # 0 => c = d

(* No lost wakeup: as long as a waiter that has not given up is queued the *)
(* lock is held, so some finally is still to come that serves the queue.   *)
NoLostWakeup == (\E c \in Queued : IsWaiting(c)) => locked

(* The snapshot the sync screen shows is consistent: waiterCount counts    *)
(* the unsettled waiters, a wait is in progress only if there is one, and  *)
(* the phase is idle exactly when nobody holds the lock.                   *)
SnapshotConsistent ==
  /\ waiterCount = Cardinality(Waiters)
  /\ waiting => waiterCount > 0
  /\ phase = "idle" <=> ~locked

(* Calls overlap only through a timer: two calls are between grant and     *)
(* finally only if all but one have outlived the maximum hold time.        *)
OverlapOnlyAfterMaxHold ==
  \A c, d \in Calls :
    call[c] = "holding" /\ call[d] = "holding" /\ c # d
      => elapsed[c] >= MaxHoldMs \/ elapsed[d] >= MaxHoldMs

(* First come, first served: a waiter that is granted the lock has waited  *)
(* at least as long as every live waiter still queued.  Only a newcomer's  *)
(* stale takeover, which throws the queue away, overtakes anybody.         *)
FifoGrants ==
  [][\A c, d \in Calls :
       /\ call[c] # "holding" /\ call'[c] = "holding"
       /\ d # c /\ d \in Queued /\ IsWaiting(d)
       => \/ call[c] = "waiting" /\ elapsed[d] <= elapsed[c]
          \/ call[c] = "new" /\ lockAge >= MaxHoldMs]_vars

(* Every call queued behind the lock settles or, when a stale takeover     *)
(* empties the queue, is dropped from it: the budgets alone move the queue *)
(* on, even if no work ever finishes.                                      *)
QueueDrains ==
  \A c \in Calls : (IsWaiting(c) /\ c \in Queued) ~> ~(IsWaiting(c) /\ c \in Queued)

(* The abstract lock FencedLock as it shows in the tokens.                 *)
Holder == IF locked THEN CHOOSE c \in Calls : holderId[c] = currentHolderId
                    ELSE Nobody
Past == {c \in Calls : holderId[c] # 0 /\ holderId[c] # currentHolderId}
Holding == {c \in Calls : call[c] = "holding"}

Lock == INSTANCE FencedLock
          WITH None <- Nobody, holder <- Holder, past <- Past, running <- Holding

(* The queue, the tokens and the timers implement a lock that is granted   *)
(* to each call at most once, and that the end of a displaced call leaves  *)
(* alone, whoever holds it or waits for it by then.                        *)
ImplementsFencedLock == Lock!Spec
=============================================================================
