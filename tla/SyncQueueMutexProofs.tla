------------------------ MODULE SyncQueueMutexProofs ------------------------
(***************************************************************************)
(* Theorems about SyncQueueMutex, for any finite set of calls and any      *)
(* waiting time, operation budget and maximum hold time.                   *)
(***************************************************************************)
EXTENDS SyncQueueMutex, FiniteSetTheorems, TLAPS

(* How tokens and calls relate: what HolderIsLive needs to be inductive.   *)
TokensInv ==
  /\ currentHolderId <= holderIdCounter
  /\ \A c \in Calls : holderId[c] <= holderIdCounter
  /\ \A c \in Calls :
       holderId[c] = 0 <=> call[c] \in {"new", "waiting", "timedOut"}
  /\ locked => currentHolderId # NoHolder

(* A holder that was displaced had held the lock for MaxHoldMs; the timer  *)
(* of one that was not displaced runs in step with the lock's own.         *)
AgesInv ==
  \A c \in Calls :
    call[c] = "holding" =>
      IF holderId[c] = currentHolderId THEN elapsed[c] = lockAge
                                       ELSE elapsed[c] >= MaxHoldMs

IInv ==
  /\ TypeOK
  /\ TokensInv
  /\ HolderIsLive
  /\ NoLostWakeup
  /\ SnapshotConsistent
  /\ AgesInv
-----------------------------------------------------------------------------
(* A waiter that comes or goes changes the number of waiters by one.       *)
LEMMA WaiterAdded ==
  ASSUME NEW c \in Calls, ~IsWaiting(c), Waiters' = Waiters \cup {c}
  PROVE  Cardinality(Waiters') = Cardinality(Waiters) + 1
  <1>1. IsFiniteSet(Waiters)
    BY CallsAssumption, FS_Subset DEF Waiters
  <1>2. c \notin Waiters
    BY DEF Waiters
  <1>. QED
    BY <1>1, <1>2, FS_AddElement

LEMMA WaiterRemoved ==
  ASSUME NEW c \in Calls, IsWaiting(c), Waiters' = Waiters \ {c}
  PROVE  /\ Cardinality(Waiters') = Cardinality(Waiters) - 1
         /\ Cardinality(Waiters) \in Nat \ {0}
         /\ Cardinality(Waiters') \in Nat
  <1>1. IsFiniteSet(Waiters)
    BY CallsAssumption, FS_Subset DEF Waiters
  <1>2. c \in Waiters
    BY DEF Waiters
  <1>3. IsFiniteSet(Waiters') /\ Cardinality(Waiters') = Cardinality(Waiters) - 1
    BY <1>1, <1>2, FS_RemoveElement
  <1>4. Cardinality(Waiters) \in Nat /\ Cardinality(Waiters') \in Nat
    BY <1>1, <1>3, FS_CardinalityType
  <1>. QED
    BY <1>3, <1>4

LEMMA InitIInv == Init => IInv
  <1>. SUFFICES ASSUME Init PROVE IInv
    OBVIOUS
  <1>1. TypeOK
    <2>1. waitQueue \in Seq(Calls)
      BY DEF Init
    <2>2. call \in [Calls -> CallStates] /\ holderId \in [Calls -> Nat]
      BY DEF Init, CallStates
    <2>3. elapsed \in [Calls -> 0..MaxHoldMs] /\ lockAge \in 0..MaxHoldMs
      BY BudgetAssumption DEF Init
    <2>4. phase \in {"idle", "preparing"} \cup WorkPhases
      BY DEF Init
    <2>. QED
      BY <2>1, <2>2, <2>3, <2>4 DEF Init, TypeOK, NoHolder
  <1>2. Waiters = {}
    BY DEF Init, Waiters, IsWaiting
  <1>3. SnapshotConsistent
    BY <1>2, FS_EmptySet DEF Init, SnapshotConsistent
  <1>4. TokensInv /\ HolderIsLive /\ AgesInv
    BY DEF Init, TokensInv, HolderIsLive, AgesInv, NoHolder
  <1>5. NoLostWakeup
    BY DEF Init, NoLostWakeup, Queued, IsWaiting
  <1>. QED
    BY <1>1, <1>3, <1>4, <1>5 DEF IInv

-----------------------------------------------------------------------------
(* The three ways a finally block ends.                                    *)

LEMMA HandOffIInv ==
  ASSUME IInv, NEW c \in Calls, NEW outcome \in {"done", "abandoned"},
         call[c] = "holding", currentHolderId = holderId[c], HandOff(c, outcome)
  PROVE  IInv'
  <1>. USE DEF IInv
  <1>1. PICK i \in DOMAIN waitQueue :
          /\ FirstLive(i)
          /\ AssignHolderLock(waitQueue[i])
          /\ WaiterGone
          /\ waitQueue' = SubSeq(waitQueue, i + 1, Len(waitQueue))
          /\ call' = [call EXCEPT ![c] = outcome, ![waitQueue[i]] = "holding"]
          /\ elapsed' = [elapsed EXCEPT ![c] = 0, ![waitQueue[i]] = 0]
    BY DEF HandOff
  <1>2. PICK d \in Calls : d = waitQueue[i] /\ call[d] = "waiting" /\ d # c
    BY <1>1 DEF FirstLive, IsWaiting, TypeOK
  <1>3. /\ call' = [call EXCEPT ![c] = outcome, ![d] = "holding"]
        /\ elapsed' = [elapsed EXCEPT ![c] = 0, ![d] = 0]
        /\ AssignHolderLock(d)
    BY <1>1, <1>2
  <1>4. /\ call'[d] = "holding" /\ call'[c] = outcome
        /\ \A e \in Calls : e # c /\ e # d => call'[e] = call[e]
    BY <1>2, <1>3 DEF TypeOK
  <1>5. /\ elapsed'[d] = 0
        /\ \A e \in Calls : e # c /\ e # d => elapsed'[e] = elapsed[e]
    BY <1>2, <1>3 DEF TypeOK
  <1>6. /\ holderId'[d] = holderIdCounter + 1
        /\ \A e \in Calls : e # d => holderId'[e] = holderId[e]
    BY <1>2, <1>3 DEF TypeOK, AssignHolderLock
  <1>7. TypeOK'
    <2>1. waitQueue' \in Seq(Calls)
      BY <1>1 DEF TypeOK
    <2>2. call' \in [Calls -> CallStates]
      BY <1>2, <1>3 DEF TypeOK, CallStates
    <2>3. elapsed' \in [Calls -> 0..MaxHoldMs]
      <3>1. 0 \in 0..MaxHoldMs
        BY BudgetAssumption
      <3>. QED
        BY <1>3, <3>1, Zenon DEF TypeOK
    <2>4. /\ holderId' \in [Calls -> Nat] /\ holderIdCounter' \in Nat
          /\ currentHolderId' \in Nat
      BY <1>2, <1>3 DEF TypeOK, AssignHolderLock
    <2>5. locked' \in BOOLEAN /\ waiting' \in BOOLEAN
      BY <1>1, <1>3, Zenon DEF AssignHolderLock, WaiterGone
    <2>6. waiterCount' \in Nat /\ lockAge' \in 0..MaxHoldMs
      BY <1>1, <1>3, BudgetAssumption DEF TypeOK, AssignHolderLock, WaiterGone
    <2>7. phase' \in {"idle", "preparing"} \cup WorkPhases
      BY <1>2, <1>3, Zenon DEF AssignHolderLock
    <2>. QED
      BY <2>1, <2>2, <2>3, <2>4, <2>5, <2>6, <2>7, Zenon DEF TypeOK
  <1>8. TokensInv'
    <2>1. /\ holderIdCounter' = holderIdCounter + 1 /\ currentHolderId' = holderIdCounter + 1
      BY <1>3 DEF AssignHolderLock
    <2>2. \A e \in Calls : holderId'[e] <= holderIdCounter'
      <3>1. ASSUME NEW e \in Calls PROVE holderId'[e] <= holderIdCounter + 1
        <4>1. holderId[e] \in Nat /\ holderIdCounter \in Nat
              /\ holderId[e] <= holderIdCounter
          BY DEF TypeOK, TokensInv
        <4>2. holderId'[e] = holderId[e] \/ holderId'[e] = holderIdCounter + 1
          BY <1>6
        <4>. QED
          BY <4>1, <4>2
      <3>. QED
        BY <2>1, <3>1
    <2>3. \A e \in Calls :
            holderId'[e] = 0 <=> call'[e] \in {"new", "waiting", "timedOut"}
      <3>1. holderId[c] # 0
        BY DEF TokensInv
      <3>2. ASSUME NEW e \in Calls, e # c, e # d
            PROVE  holderId'[e] = 0 <=> call'[e] \in {"new", "waiting", "timedOut"}
        BY <3>2, <1>4, <1>6, Zenon DEF TokensInv
      <3>3. holderId'[c] # 0 /\ call'[c] \notin {"new", "waiting", "timedOut"}
        BY <3>1, <1>2, <1>4, <1>6
      <3>4. holderId'[d] # 0 /\ call'[d] \notin {"new", "waiting", "timedOut"}
        BY <1>4, <1>6 DEF TypeOK
      <3>. QED
        BY <3>2, <3>3, <3>4
    <2>. QED
      BY <2>1, <2>2, <2>3 DEF TypeOK, TokensInv, NoHolder
  <1>9. HolderIsLive'
    <2>1. locked' /\ call'[d] = "holding" /\ holderId'[d] = currentHolderId'
      BY <1>2, <1>3, <1>4, <1>6 DEF AssignHolderLock
    <2>2. ASSUME NEW e \in Calls, NEW f \in Calls,
                 holderId'[e] = holderId'[f], holderId'[e] # 0
          PROVE  e = f
      <3>1. \A g \in Calls : holderId[g] # holderIdCounter + 1
        BY DEF TypeOK, TokensInv
      <3>2. \A g, h \in Calls : holderId[g] = holderId[h] /\ holderId[g] # 0 => g = h
        BY DEF HolderIsLive
      <3>. QED
        BY <2>2, <3>1, <3>2, <1>6
    <2>3. holderIdCounter' = currentHolderId'
      BY <1>3 DEF AssignHolderLock
    <2>. QED
      BY <2>1, <2>2, <2>3, <1>2 DEF HolderIsLive
  <1>10. NoLostWakeup'
    BY <1>3 DEF NoLostWakeup, AssignHolderLock
  <1>11. SnapshotConsistent'
    <2>1. Waiters' = Waiters \ {d}
      BY <1>2, <1>4 DEF Waiters, IsWaiting
    <2>2. /\ Cardinality(Waiters') = Cardinality(Waiters) - 1
          /\ Cardinality(Waiters) \in Nat \ {0}
      BY <2>1, <1>2, WaiterRemoved DEF IsWaiting
    <2>3. waiting' => waiterCount > 1
      BY <1>1, Zenon DEF WaiterGone
    <2>4. waiterCount' = Cardinality(Waiters') /\ (waiting' => waiterCount' > 0)
      BY <1>1, <2>2, <2>3 DEF SnapshotConsistent, WaiterGone, TypeOK
    <2>5. phase' = "idle" <=> ~locked'
      BY <1>3 DEF AssignHolderLock
    <2>. QED
      BY <2>4, <2>5 DEF SnapshotConsistent
  <1>12. AgesInv'
    <2>1. currentHolderId' = holderIdCounter + 1 /\ lockAge' = 0
      BY <1>3 DEF AssignHolderLock
    <2>2. SUFFICES ASSUME NEW e \in Calls, e # c, e # d, call[e] = "holding"
                   PROVE  /\ holderId[e] # holderIdCounter + 1
                          /\ elapsed[e] >= MaxHoldMs
      BY <2>1, <1>2, <1>4, <1>5, <1>6 DEF AgesInv, TypeOK
    <2>3. holderId[e] # currentHolderId
      BY <2>2 DEF HolderIsLive, TokensInv, TypeOK
    <2>. QED
      BY <2>2, <2>3 DEF AgesInv, TokensInv, TypeOK
  <1>. QED
    BY <1>7, <1>8, <1>9, <1>10, <1>11, <1>12

LEMMA ReleaseIInv ==
  ASSUME IInv, NEW c \in Calls, NEW outcome \in {"done", "abandoned"},
         call[c] = "holding", currentHolderId = holderId[c], Release(c, outcome)
  PROVE  IInv'
  <1>. USE DEF IInv
  <1>1. /\ call'[c] = outcome
        /\ \A e \in Calls : e # c => call'[e] = call[e] /\ elapsed'[e] = elapsed[e]
    BY DEF Release, TypeOK
  <1>2. TypeOK'
    <2>1. waitQueue' \in Seq(Calls)
      BY DEF Release
    <2>2. call' \in [Calls -> CallStates] /\ elapsed' \in [Calls -> 0..MaxHoldMs]
      BY BudgetAssumption DEF Release, TypeOK, CallStates
    <2>3. /\ lockAge' \in 0..MaxHoldMs /\ currentHolderId' \in Nat
          /\ holderIdCounter' \in Nat /\ waiterCount' \in Nat
          /\ holderId' \in [Calls -> Nat]
      BY BudgetAssumption DEF Release, ClearLock, TypeOK, NoHolder
    <2>4. /\ locked' \in BOOLEAN /\ waiting' \in BOOLEAN
          /\ phase' \in {"idle", "preparing"} \cup WorkPhases
      BY Zenon DEF Release, ClearLock
    <2>. QED
      BY <2>1, <2>2, <2>3, <2>4, Zenon DEF TypeOK
  <1>3. TokensInv' /\ HolderIsLive'
    BY <1>1 DEF Release, ClearLock, TypeOK, TokensInv, HolderIsLive, NoHolder
  <1>4. NoLostWakeup'
    BY DEF Release, NoLostWakeup, Queued
  <1>5. SnapshotConsistent'
    <2>1. Waiters' = Waiters
      BY <1>1 DEF Waiters, IsWaiting
    <2>. QED
      BY <2>1 DEF Release, ClearLock, SnapshotConsistent
  <1>6. AgesInv'
    BY <1>1 DEF Release, ClearLock, AgesInv, TypeOK, TokensInv, HolderIsLive, NoHolder
  <1>. QED
    BY <1>2, <1>3, <1>4, <1>5, <1>6

LEMMA FinallyIInv ==
  ASSUME IInv, NEW c \in Calls, NEW outcome \in {"done", "abandoned"},
         call[c] = "holding", Finally(c, outcome)
  PROVE  IInv'
  <1>1. CASE currentHolderId = holderId[c] /\ HandoffOrRelease(c, outcome)
    BY <1>1, HandOffIInv, ReleaseIInv DEF HandoffOrRelease
  <1>2. CASE /\ currentHolderId # holderId[c]
             /\ call' = [call EXCEPT ![c] = outcome]
             /\ elapsed' = [elapsed EXCEPT ![c] = 0]
             /\ UNCHANGED <<lockVars, holderId>>
    <2>. USE <1>2 DEF IInv, lockVars
    <2>1. /\ call'[c] = outcome
          /\ \A e \in Calls : e # c => call'[e] = call[e] /\ elapsed'[e] = elapsed[e]
      BY DEF TypeOK
    <2>2. TypeOK'
      BY BudgetAssumption DEF TypeOK, CallStates
    <2>3. TokensInv' /\ HolderIsLive'
      BY <2>1 DEF TypeOK, TokensInv, HolderIsLive, NoHolder
    <2>4. Waiters' = Waiters
      BY <2>1 DEF Waiters, IsWaiting
    <2>5. NoLostWakeup'
      BY <2>1 DEF TypeOK, NoLostWakeup, Queued, IsWaiting
    <2>6. SnapshotConsistent'
      BY <2>4 DEF SnapshotConsistent
    <2>7. AgesInv'
      BY <2>1 DEF AgesInv, TypeOK
    <2>. QED
      BY <2>2, <2>3, <2>5, <2>6, <2>7
  <1>. QED
    BY <1>1, <1>2 DEF Finally

-----------------------------------------------------------------------------
(* A call that takes the lock when it arrives: the lock was free, or its   *)
(* holder had outlived MaxHoldMs and the queue is thrown away.             *)
LEMMA AcquireIInv ==
  ASSUME IInv, NEW c \in Calls, call[c] = "new", AssignHolderLock(c),
         call' = [call EXCEPT ![c] = "holding"],
         elapsed' = [elapsed EXCEPT ![c] = 0],
         waiterCount' = waiterCount, waitQueue' \in Seq(Calls),
         waiting' \in BOOLEAN, waiting' => waiting,
         locked => lockAge >= MaxHoldMs
  PROVE  IInv'
  <1>. USE DEF IInv
  <1>1. /\ call'[c] = "holding" /\ elapsed'[c] = 0
        /\ \A e \in Calls : e # c => call'[e] = call[e] /\ elapsed'[e] = elapsed[e]
    BY DEF TypeOK
  <1>2. /\ holderId'[c] = holderIdCounter + 1
        /\ \A e \in Calls : e # c => holderId'[e] = holderId[e]
        /\ holderIdCounter' = holderIdCounter + 1
        /\ currentHolderId' = holderIdCounter + 1
        /\ lockAge' = 0 /\ locked' /\ phase' = "preparing"
    BY DEF TypeOK, AssignHolderLock
  <1>3. /\ holderIdCounter \in Nat
        /\ \A e \in Calls : holderId[e] \in Nat /\ holderId[e] <= holderIdCounter
    BY DEF TypeOK, TokensInv
  <1>4. TypeOK'
    <2>1. call' \in [Calls -> CallStates] /\ elapsed' \in [Calls -> 0..MaxHoldMs]
      BY BudgetAssumption DEF TypeOK, CallStates
    <2>2. holderId' \in [Calls -> Nat] /\ currentHolderId' \in Nat
      BY <1>2, <1>3 DEF TypeOK, AssignHolderLock
    <2>3. lockAge' \in 0..MaxHoldMs /\ waiterCount' \in Nat /\ holderIdCounter' \in Nat
      BY <1>2, <1>3, BudgetAssumption DEF TypeOK
    <2>4. /\ locked' \in BOOLEAN
          /\ phase' \in {"idle", "preparing"} \cup WorkPhases
      BY Zenon DEF AssignHolderLock
    <2>. QED
      BY <2>1, <2>2, <2>3, <2>4, Zenon DEF TypeOK
  <1>5. TokensInv'
    <2>1. \A e \in Calls : holderId'[e] <= holderIdCounter'
      <3>1. ASSUME NEW e \in Calls PROVE holderId'[e] <= holderIdCounter + 1
        BY <1>2, <1>3
      <3>. QED
        BY <3>1, <1>2
    <2>2. ASSUME NEW e \in Calls, e # c
          PROVE  holderId'[e] = 0 <=> call'[e] \in {"new", "waiting", "timedOut"}
      BY <2>2, <1>1, <1>2, Zenon DEF TokensInv
    <2>3. holderId'[c] # 0 /\ call'[c] \notin {"new", "waiting", "timedOut"}
      BY <1>1, <1>2, <1>3
    <2>4. currentHolderId' <= holderIdCounter' /\ currentHolderId' # NoHolder
      BY <1>2, <1>3 DEF NoHolder
    <2>. QED
      BY <2>1, <2>2, <2>3, <2>4 DEF TokensInv
  <1>6. HolderIsLive'
    <2>1. ASSUME NEW e \in Calls, NEW f \in Calls,
                 holderId'[e] = holderId'[f], holderId'[e] # 0
          PROVE  e = f
      BY <2>1, <1>2, <1>3 DEF HolderIsLive
    <2>. QED
      BY <2>1, <1>1, <1>2 DEF HolderIsLive
  <1>7. NoLostWakeup'
    BY <1>2 DEF NoLostWakeup
  <1>8. SnapshotConsistent'
    <2>1. Waiters' = Waiters
      BY <1>1 DEF Waiters, IsWaiting
    <2>. QED
      BY <2>1, <1>2 DEF SnapshotConsistent
  <1>9. AgesInv'
    <2>. SUFFICES ASSUME NEW e \in Calls, e # c, call[e] = "holding"
                  PROVE  /\ holderId[e] # holderIdCounter + 1
                         /\ elapsed[e] >= MaxHoldMs
      BY <1>1, <1>2 DEF AgesInv, TypeOK
    <2>1. elapsed[e] \in Nat /\ MaxHoldMs \in Nat /\ lockAge \in Nat
      BY BudgetAssumption DEF TypeOK
    <2>2. CASE holderId[e] = currentHolderId
      <3>1. holderId[e] # 0
        BY DEF TokensInv
      <3>2. locked
        BY <2>2, <3>1 DEF HolderIsLive, NoHolder
      <3>. QED
        BY <2>1, <2>2, <3>2, <1>3 DEF AgesInv
    <2>3. CASE holderId[e] # currentHolderId
      BY <2>3, <1>3 DEF AgesInv
    <2>. QED
      BY <2>2, <2>3
  <1>. QED
    BY <1>4, <1>5, <1>6, <1>7, <1>8, <1>9

(* The actions that leave the lock itself, its tokens and the timers of    *)
(* the holders alone and only move a call between other states.            *)
LEMMA QueueStepIInv ==
  ASSUME IInv, NEW c \in Calls, Enqueue(c) \/ WaitTimeout(c) \/ AbandonedWorkEnds(c)
  PROVE  IInv'
  <1>. USE DEF IInv
  <1>1. PICK s \in {"waiting", "timedOut", "done"} : call' = [call EXCEPT ![c] = s]
    BY DEF Enqueue, WaitTimeout, AbandonedWorkEnds
  <1>2. /\ call'[c] = s
        /\ \A e \in Calls : e # c => call'[e] = call[e] /\ elapsed'[e] = elapsed[e]
    BY <1>1 DEF TypeOK, Enqueue, WaitTimeout, AbandonedWorkEnds
  <1>3. UNCHANGED <<locked, currentHolderId, holderIdCounter, lockAge, phase,
                    holderId>>
    BY DEF Enqueue, WaitTimeout, AbandonedWorkEnds, lockVars
  <1>4. call[c] # "holding"
    BY DEF Enqueue, WaitTimeout, AbandonedWorkEnds, IsWaiting
  <1>5. s = "done" <=> call[c] = "abandoned"
    BY <1>2 DEF Enqueue, WaitTimeout, AbandonedWorkEnds, IsWaiting, TypeOK
  <1>6. call[c] = "abandoned" \/ call[c] \in {"new", "waiting"}
    BY DEF Enqueue, WaitTimeout, AbandonedWorkEnds, IsWaiting
  <1>7. TypeOK'
    <2>1. call' \in [Calls -> CallStates]
      BY <1>1 DEF TypeOK, CallStates
    <2>2. waitQueue' \in Seq(Calls)
      <3>1. CASE waitQueue' = Append(waitQueue, c)
        BY <3>1 DEF TypeOK
      <3>2. CASE waitQueue' = waitQueue
        BY <3>2 DEF TypeOK
      <3>. QED
        BY <3>1, <3>2 DEF Enqueue, WaitTimeout, AbandonedWorkEnds, lockVars
    <2>3. elapsed' \in [Calls -> 0..MaxHoldMs]
      <3>1. 0 \in 0..MaxHoldMs
        BY BudgetAssumption
      <3>. QED
        BY <3>1 DEF TypeOK, Enqueue, WaitTimeout, AbandonedWorkEnds
    <2>4. waiting' \in BOOLEAN
      BY Zenon DEF TypeOK, Enqueue, WaitTimeout, WaiterGone, AbandonedWorkEnds, lockVars
    <2>5. waiterCount' \in Nat
      BY DEF TypeOK, Enqueue, WaitTimeout, WaiterGone, AbandonedWorkEnds, lockVars
    <2>. QED
      BY <1>3, <2>1, <2>2, <2>3, <2>4, <2>5, Zenon DEF TypeOK
  <1>8. TokensInv'
    <2>1. holderId[c] = 0 <=> s \in {"new", "waiting", "timedOut"}
      BY <1>5, <1>6 DEF TokensInv
    <2>2. ASSUME NEW e \in Calls
          PROVE  holderId[e] = 0 <=> call'[e] \in {"new", "waiting", "timedOut"}
      BY <2>1, <1>2 DEF TokensInv
    <2>. QED
      BY <2>2, <1>3 DEF TokensInv
  <1>9. HolderIsLive'
    BY <1>2, <1>3, <1>4 DEF HolderIsLive
  <1>10. AgesInv'
    BY <1>2, <1>3 DEF AgesInv
  <1>11. CASE Enqueue(c)
    <2>1. locked'
      BY <1>11 DEF Enqueue
    <2>2. Waiters' = Waiters \cup {c}
      BY <1>11, <1>2 DEF Enqueue, Waiters, IsWaiting, TypeOK
    <2>3. Cardinality(Waiters') = Cardinality(Waiters) + 1
      BY <2>2, <1>11, WaiterAdded DEF Enqueue, IsWaiting
    <2>4. SnapshotConsistent'
      BY <1>11, <2>3 DEF Enqueue, SnapshotConsistent, TypeOK
    <2>. QED
      BY <1>7, <1>8, <1>9, <1>10, <2>1, <2>4 DEF NoLostWakeup
  <1>12. CASE WaitTimeout(c)
    <2>1. Waiters' = Waiters \ {c}
      BY <1>12, <1>2 DEF WaitTimeout, Waiters, IsWaiting, TypeOK
    <2>2. /\ Cardinality(Waiters') = Cardinality(Waiters) - 1
          /\ Cardinality(Waiters) \in Nat \ {0}
      BY <2>1, <1>12, WaiterRemoved DEF WaitTimeout
    <2>3. waiting' => waiterCount > 1
      BY <1>12, Zenon DEF WaitTimeout, WaiterGone
    <2>4. waiterCount' = Cardinality(Waiters') /\ (waiting' => waiterCount' > 0)
      BY <1>12, <2>2, <2>3 DEF SnapshotConsistent, WaitTimeout, WaiterGone, TypeOK
    <2>5. SnapshotConsistent'
      BY <2>4, <1>3 DEF SnapshotConsistent
    <2>6. NoLostWakeup'
      BY <1>12, <1>2, <1>3 DEF WaitTimeout, NoLostWakeup, Queued, IsWaiting, TypeOK
    <2>. QED
      BY <1>7, <1>8, <1>9, <1>10, <2>5, <2>6
  <1>13. CASE AbandonedWorkEnds(c)
    <2>1. Waiters' = Waiters
      BY <1>13, <1>2 DEF AbandonedWorkEnds, Waiters, IsWaiting, TypeOK
    <2>2. SnapshotConsistent'
      BY <1>13, <2>1 DEF AbandonedWorkEnds, SnapshotConsistent, lockVars
    <2>3. NoLostWakeup'
      BY <1>13, <1>2 DEF AbandonedWorkEnds, NoLostWakeup, Queued, IsWaiting, TypeOK, lockVars
    <2>. QED
      BY <1>7, <1>8, <1>9, <1>10, <2>2, <2>3
  <1>. QED
    BY <1>11, <1>12, <1>13

LEMMA SetPhaseIInv ==
  ASSUME IInv, NEW c \in Calls, NEW next \in WorkPhases, SetSyncQueuePhase(c, next)
  PROVE  IInv'
  <1>. USE DEF IInv, SetSyncQueuePhase
  <1>1. TypeOK'
    BY DEF TypeOK
  <1>2. SnapshotConsistent'
    BY PhaseAssumption DEF SnapshotConsistent, Waiters, IsWaiting
  <1>3. TokensInv' /\ HolderIsLive' /\ NoLostWakeup' /\ AgesInv'
    BY DEF TokensInv, HolderIsLive, NoLostWakeup, Queued, IsWaiting, AgesInv
  <1>. QED
    BY <1>1, <1>2, <1>3

LEMMA TickIInv == IInv /\ Tick => IInv'
  <1>. SUFFICES ASSUME IInv, Tick PROVE IInv'
    OBVIOUS
  <1>. USE DEF IInv
  <1>1. \A a \in 0..MaxHoldMs : AgeBy1(a) \in 0..MaxHoldMs
    BY BudgetAssumption DEF AgeBy1
  <1>2. \A a \in 0..MaxHoldMs : a >= MaxHoldMs => AgeBy1(a) >= MaxHoldMs
    BY BudgetAssumption DEF AgeBy1
  <1>3. TypeOK'
    <2>1. 0 \in 0..MaxHoldMs
      BY BudgetAssumption
    <2>2. lockAge' \in 0..MaxHoldMs
      BY <1>1, <2>1 DEF Tick, TypeOK
    <2>3. elapsed' \in [Calls -> 0..MaxHoldMs]
      BY <1>1, <2>1 DEF Tick, TypeOK
    <2>. QED
      BY <2>2, <2>3, Zenon DEF Tick, TypeOK
  <1>4. TokensInv' /\ HolderIsLive' /\ NoLostWakeup'
    BY DEF Tick, TokensInv, HolderIsLive, NoLostWakeup, Queued, IsWaiting
  <1>5. SnapshotConsistent'
    BY DEF Tick, SnapshotConsistent, Waiters, IsWaiting
  <1>6. AgesInv'
    <2>. SUFFICES ASSUME NEW e \in Calls, call[e] = "holding"
                  PROVE  IF holderId[e] = currentHolderId
                           THEN elapsed'[e] = lockAge' ELSE elapsed'[e] >= MaxHoldMs
      BY DEF Tick, AgesInv
    <2>1. elapsed'[e] = AgeBy1(elapsed[e])
      BY DEF Tick
    <2>2. CASE holderId[e] = currentHolderId
      <3>1. holderId[e] # 0
        BY DEF TokensInv
      <3>2. locked
        BY <2>2, <3>1 DEF HolderIsLive, NoHolder
      <3>. QED
        BY <2>1, <2>2, <3>2 DEF Tick, AgesInv
    <2>3. CASE holderId[e] # currentHolderId
      BY <1>2, <2>1, <2>3 DEF AgesInv, TypeOK
    <2>. QED
      BY <2>2, <2>3
  <1>. QED
    BY <1>3, <1>4, <1>5, <1>6

-----------------------------------------------------------------------------
LEMMA NextIInv == IInv /\ [Next]_vars => IInv'
  <1>. SUFFICES ASSUME IInv, [Next]_vars PROVE IInv'
    OBVIOUS
  <1>1. CASE Tick
    BY <1>1, TickIInv
  <1>2. ASSUME NEW c \in Calls, CallStep(c) PROVE IInv'
    <2>1. CASE AcquireFree(c)
      BY <2>1, AcquireIInv DEF AcquireFree, IInv, TypeOK
    <2>2. CASE TakeOverStale(c)
      <3>1. waitQueue' \in Seq(Calls)
        BY <2>2 DEF TakeOverStale
      <3>2. waiting' \in BOOLEAN /\ (waiting' => waiting)
        BY <2>2, Zenon DEF TakeOverStale
      <3>. QED
        BY <2>2, <3>1, <3>2, AcquireIInv DEF TakeOverStale
    <2>3. CASE Enqueue(c) \/ WaitTimeout(c) \/ AbandonedWorkEnds(c)
      BY <2>3, QueueStepIInv
    <2>4. CASE FinishWork(c)
      BY <2>4, FinallyIInv DEF FinishWork
    <2>5. CASE OperationTimeout(c)
      BY <2>5, FinallyIInv DEF OperationTimeout
    <2>6. CASE \E next \in WorkPhases : SetSyncQueuePhase(c, next)
      BY <2>6, SetPhaseIInv
    <2>. QED
      BY <1>2, <2>1, <2>2, <2>3, <2>4, <2>5, <2>6 DEF CallStep
  <1>3. CASE UNCHANGED vars
    <2>. USE <1>3 DEF vars, lockVars, IInv
    <2>1. TypeOK'
      BY Zenon DEF TypeOK
    <2>2. Waiters' = Waiters
      BY DEF Waiters, IsWaiting
    <2>3. SnapshotConsistent'
      BY <2>2 DEF SnapshotConsistent
    <2>4. TokensInv' /\ HolderIsLive' /\ AgesInv'
      BY DEF TokensInv, HolderIsLive, AgesInv
    <2>5. NoLostWakeup'
      BY DEF NoLostWakeup, Queued, IsWaiting
    <2>. QED
      BY <2>1, <2>3, <2>4, <2>5
  <1>. QED
    BY <1>1, <1>2, <1>3 DEF Next

(* The inductive invariant holds in every reachable state.                 *)
THEOREM InductiveInvariant == Spec => []IInv
  <1>. QED
    BY InitIInv, NextIInv, PTL DEF Spec

(* Every variable keeps its type, waiterCount never below zero.            *)
THEOREM TypeCorrect == Spec => []TypeOK
  <1>1. IInv => TypeOK
    BY DEF IInv
  <1>. QED
    BY <1>1, InductiveInvariant, PTL

(* The lock is never leaked or shared, whichever timers fire: tokens of    *)
(* withSyncQueueLock calls are unique and a locked lock has a live holder. *)
THEOREM LockNeverLeaked == Spec => []HolderIsLive
  <1>1. IInv => HolderIsLive
    BY DEF IInv
  <1>. QED
    BY <1>1, InductiveInvariant, PTL

(* A waiter that has not given up is never queued behind a free lock.      *)
THEOREM WakeupsNotLost == Spec => []NoLostWakeup
  <1>1. IInv => NoLostWakeup
    BY DEF IInv
  <1>. QED
    BY <1>1, InductiveInvariant, PTL

(* The lock snapshot is consistent: waiterCount is exact although timeouts,*)
(* grants and stale takeovers each adjust it in a place of their own.      *)
THEOREM SnapshotAlwaysConsistent == Spec => []SnapshotConsistent
  <1>1. IInv => SnapshotConsistent
    BY DEF IInv
  <1>. QED
    BY <1>1, InductiveInvariant, PTL

(* Two calls are inside the lock at once only if one of them has outlived  *)
(* the maximum hold time.                                                  *)
THEOREM OverlapNeedsExpiredHold == Spec => []OverlapOnlyAfterMaxHold
  <1>1. IInv => OverlapOnlyAfterMaxHold
    BY DEF IInv, AgesInv, HolderIsLive, TokensInv, OverlapOnlyAfterMaxHold
  <1>. QED
    BY <1>1, InductiveInvariant, PTL

-----------------------------------------------------------------------------
(* Refinement                                                              *)

LEMMA HolderByToken ==
  ASSUME IInv, NEW c \in Calls, locked, holderId[c] = currentHolderId
  PROVE  Holder = c
  <1>1. holderId[c] # 0
    BY DEF IInv, TokensInv, NoHolder
  <1>2. \A e \in Calls : holderId[e] = currentHolderId => e = c
    BY <1>1 DEF IInv, HolderIsLive
  <1>. QED
    BY <1>2 DEF Holder

\* Tokens and lock unchanged: the abstract lock does not move.
LEMMA HolderStutters ==
  ASSUME UNCHANGED <<locked, currentHolderId, holderId>>
  PROVE  UNCHANGED <<Holder, Past>>
  BY DEF Holder, Past

\* A grant to d, of a free lock or of one that the current holder loses.
LEMMA GrantMovesHolder ==
  ASSUME IInv, IInv', NEW d \in Calls, holderId[d] = 0, AssignHolderLock(d)
  PROVE  /\ Holder' = d /\ d \notin Past
         /\ ~locked => Holder = Nobody /\ Past' = Past
         /\ locked => Holder \notin {d, Nobody} /\ Past' = Past \cup {Holder}
  <1>1. /\ holderId'[d] = holderIdCounter + 1
        /\ \A e \in Calls : e # d => holderId'[e] = holderId[e]
        /\ currentHolderId' = holderIdCounter + 1 /\ locked'
    BY DEF IInv, TypeOK, AssignHolderLock
  <1>2. \A e \in Calls : holderId[e] # holderIdCounter + 1
    BY DEF IInv, TypeOK, TokensInv
  <1>3. Holder' = d
    <2>1. holderId'[d] # 0 /\ holderId'[d] = currentHolderId'
      BY <1>1 DEF IInv, TypeOK
    <2>2. \A e \in Calls : holderId'[e] = currentHolderId' => e = d
      BY <2>1 DEF IInv, HolderIsLive
    <2>. QED
      BY <1>1, <2>1, <2>2 DEF Holder
  <1>4. Past' = {e \in Calls : holderId[e] # 0}
    BY <1>1, <1>2 DEF Past
  <1>5. d # Nobody /\ d \notin Past
    BY CallsAssumption DEF Past
  <1>6. CASE ~locked
    <2>1. Holder = Nobody /\ currentHolderId = 0
      BY <1>6 DEF Holder, IInv, HolderIsLive, NoHolder
    <2>2. Past' = Past
      BY <2>1, <1>4 DEF Past
    <2>. QED
      BY <1>3, <1>5, <1>6, <2>1, <2>2
  <1>7. CASE locked
    <2>1. PICK c \in Calls : holderId[c] = currentHolderId
      BY <1>7 DEF IInv, HolderIsLive
    <2>2. Holder = c
      BY <1>7, <2>1, HolderByToken
    <2>3. holderId[c] # 0
      BY <1>7, <2>1 DEF IInv, TokensInv, NoHolder
    <2>4. \A e \in Calls : holderId[e] = currentHolderId => e = c
      BY <2>1, <2>3 DEF IInv, HolderIsLive
    <2>5. Past' = Past \cup {c}
      BY <1>4, <2>1, <2>3, <2>4 DEF Past
    <2>6. c # Nobody /\ c # d
      BY <2>3, CallsAssumption
    <2>. QED
      BY <1>3, <1>5, <1>7, <2>2, <2>5, <2>6
  <1>. QED
    BY <1>6, <1>7

LEMMA FinallyRefines ==
  ASSUME IInv, IInv', NEW c \in Calls, NEW outcome \in {"done", "abandoned"},
         call[c] = "holding", Finally(c, outcome)
  PROVE  Lock!Next
  <1>1. c \in Holding /\ holderId[c] # 0
    BY DEF Holding, IInv, TokensInv
  <1>2. CASE /\ currentHolderId # holderId[c]
             /\ call' = [call EXCEPT ![c] = outcome]
             /\ UNCHANGED <<lockVars, holderId>>
    <2>1. UNCHANGED <<Holder, Past>>
      BY <1>2, HolderStutters DEF lockVars
    <2>2. Holding' = Holding \ {c}
      BY <1>2 DEF Holding, IInv, TypeOK
    <2>3. c # Holder
      BY <1>2, CallsAssumption DEF Holder, IInv, HolderIsLive
    <2>. QED
      BY <1>1, <2>1, <2>2, <2>3 DEF Lock!Next, Lock!DisplacedEnds
  <1>3. ASSUME currentHolderId = holderId[c]
        PROVE  locked /\ Holder = c /\ c # Nobody
    <2>1. locked
      BY <1>1, <1>3 DEF IInv, HolderIsLive, NoHolder
    <2>. QED
      BY <1>3, <2>1, HolderByToken, CallsAssumption
  <1>4. CASE currentHolderId = holderId[c] /\ HandOff(c, outcome)
    <2>1. PICK i \in DOMAIN waitQueue :
            /\ FirstLive(i) /\ AssignHolderLock(waitQueue[i])
            /\ call' = [call EXCEPT ![c] = outcome, ![waitQueue[i]] = "holding"]
      BY <1>4 DEF HandOff
    <2>2. PICK d \in Calls : d = waitQueue[i] /\ call[d] = "waiting"
      BY <2>1 DEF FirstLive, IsWaiting, IInv, TypeOK
    <2>3. holderId[d] = 0 /\ AssignHolderLock(d)
      BY <2>1, <2>2 DEF IInv, TokensInv
    <2>4. /\ Holder' = d /\ d \notin Past
          /\ Holder \notin {d, Nobody} /\ Past' = Past \cup {Holder}
      BY <1>3, <1>4, <2>3, GrantMovesHolder
    <2>5. Holding' = (Holding \ {c}) \cup {d}
      BY <2>1, <2>2 DEF Holding, IInv, TypeOK
    <2>6. Lock!HandOver(d)
      BY <1>1, <1>3, <1>4, <2>4, <2>5 DEF Lock!HandOver
    <2>. QED
      BY <2>6 DEF Lock!Next
  <1>5. CASE currentHolderId = holderId[c] /\ Release(c, outcome)
    <2>1. Holder' = Nobody
      BY <1>5 DEF Release, ClearLock, Holder
    <2>2. \A e \in Calls : holderId[e] = currentHolderId => e = c
      BY <1>1, <1>5 DEF IInv, HolderIsLive
    <2>3. Past' = Past \cup {c}
      BY <1>1, <1>5, <2>2 DEF Release, ClearLock, Past, NoHolder
    <2>4. Holding' = Holding \ {c}
      BY <1>5 DEF Release, Holding, IInv, TypeOK
    <2>. QED
      BY <1>1, <1>3, <1>5, <2>1, <2>3, <2>4 DEF Lock!Next, Lock!Release
  <1>. QED
    BY <1>2, <1>4, <1>5 DEF Finally, HandoffOrRelease

LEMMA StepRefines ==
  ASSUME IInv, IInv', [Next]_vars
  PROVE  [Lock!Next]_(Lock!vars)
  <1>1. CASE Tick \/ UNCHANGED vars
    <2>1. UNCHANGED <<Holder, Past>>
      BY <1>1, HolderStutters DEF Tick, vars, lockVars
    <2>2. Holding' = Holding
      BY <1>1 DEF Tick, vars, Holding
    <2>. QED
      BY <2>1, <2>2 DEF Lock!vars
  <1>2. ASSUME NEW c \in Calls, CallStep(c) PROVE [Lock!Next]_(Lock!vars)
    <2>1. CASE AcquireFree(c) \/ TakeOverStale(c)
      <3>1. /\ holderId[c] = 0 /\ AssignHolderLock(c)
            /\ call' = [call EXCEPT ![c] = "holding"]
        BY <2>1 DEF AcquireFree, TakeOverStale, IInv, TokensInv
      <3>2. Holding' = Holding \cup {c}
        BY <3>1 DEF Holding, IInv, TypeOK
      <3>3. /\ Holder' = c /\ c \notin Past
            /\ ~locked => Holder = Nobody /\ Past' = Past
            /\ locked => Holder \notin {c, Nobody} /\ Past' = Past \cup {Holder}
        BY <3>1, GrantMovesHolder
      <3>4. Lock!Grant(c) \/ Lock!Displace(c)
        BY <3>2, <3>3 DEF Lock!Grant, Lock!Displace
      <3>. QED
        BY <3>4 DEF Lock!Next
    <2>2. CASE \/ Enqueue(c) \/ WaitTimeout(c) \/ AbandonedWorkEnds(c)
               \/ \E next \in WorkPhases : SetSyncQueuePhase(c, next)
      <3>1. UNCHANGED <<Holder, Past>>
        BY <2>2, HolderStutters
        DEF Enqueue, WaitTimeout, AbandonedWorkEnds, SetSyncQueuePhase, lockVars
      <3>2. Holding' = Holding
        BY <2>2 DEF Enqueue, WaitTimeout, AbandonedWorkEnds, SetSyncQueuePhase,
                    IsWaiting, Holding, IInv, TypeOK
      <3>. QED
        BY <3>1, <3>2 DEF Lock!vars
    <2>3. CASE FinishWork(c)
      BY <2>3, FinallyRefines DEF FinishWork
    <2>4. CASE OperationTimeout(c)
      BY <2>4, FinallyRefines DEF OperationTimeout
    <2>. QED
      BY <1>2, <2>1, <2>2, <2>3, <2>4 DEF CallStep
  <1>. QED
    BY <1>1, <1>2 DEF Next

(* The lock of syncQueueMutex.ts implements FencedLock: each call holds it *)
(* at most once, and the end of a displaced call leaves the lock alone.    *)
THEOREM FencedLockImplemented == Spec => ImplementsFencedLock
  <1>1. Init => Lock!Init
    BY DEF Init, Lock!Init, Holder, Past, Holding
  <1>2. IInv /\ IInv' /\ [Next]_vars => [Lock!Next]_(Lock!vars)
    BY StepRefines
  <1>. QED
    BY <1>1, <1>2, InductiveInvariant, PTL DEF Spec, Lock!Spec, ImplementsFencedLock

-----------------------------------------------------------------------------
(* First come, first served                                                *)

(* Of two waiters that have not given up, the one ahead has waited longer; *)
(* no call is queued before it is made, and its timer starts at zero.      *)
Ahead(queue, state, age) ==
  \A i, j \in DOMAIN queue :
    i < j /\ state[queue[i]] = "waiting" /\ state[queue[j]] = "waiting"
      => age[queue[j]] <= age[queue[i]]

QueueInv ==
  /\ Ahead(waitQueue, call, elapsed)
  /\ \A i \in DOMAIN waitQueue : call[waitQueue[i]] # "new"
  /\ \A c \in Calls : call[c] = "new" => elapsed[c] = 0

(* A step that queues nobody: who still waits waited before, and as long.  *)
LEMMA QueueShortens ==
  ASSUME IInv, QueueInv, NEW m \in Nat, waitQueue' \in Seq(Calls),
         \A k \in DOMAIN waitQueue' : k + m \in DOMAIN waitQueue /\ waitQueue'[k] = waitQueue[k + m],
         \A e \in Calls : call'[e] \in {"new", "waiting"} =>
                            call[e] = call'[e] /\ elapsed'[e] = elapsed[e]
  PROVE  QueueInv'
  <1>1. \A k \in DOMAIN waitQueue' : waitQueue'[k] \in Calls /\ k \in Nat
    OBVIOUS
  <1>2. Ahead(waitQueue', call', elapsed')
    <2>. SUFFICES ASSUME NEW i \in DOMAIN waitQueue', NEW j \in DOMAIN waitQueue', i < j,
                         call'[waitQueue'[i]] = "waiting", call'[waitQueue'[j]] = "waiting"
                  PROVE  elapsed'[waitQueue'[j]] <= elapsed'[waitQueue'[i]]
      BY DEF Ahead
    <2>1. i + m < j + m /\ i + m \in DOMAIN waitQueue /\ j + m \in DOMAIN waitQueue
      BY <1>1
    <2>2. call[waitQueue'[i]] = "waiting" /\ call[waitQueue'[j]] = "waiting"
      BY <1>1
    <2>3. elapsed[waitQueue'[j]] <= elapsed[waitQueue'[i]]
      BY <2>1, <2>2 DEF QueueInv, Ahead
    <2>. QED
      BY <1>1, <2>3
  <1>. QED
    BY <1>1, <1>2 DEF QueueInv

LEMMA QueueKeptOrEmptied ==
  ASSUME IInv, QueueInv, waitQueue' \in {waitQueue, <<>>},
         \A e \in Calls : call'[e] \in {"new", "waiting"} =>
                            call[e] = call'[e] /\ elapsed'[e] = elapsed[e]
  PROVE  QueueInv'
  <1>1. CASE waitQueue' = <<>>
    <2>1. waitQueue' \in Seq(Calls) /\ DOMAIN waitQueue' = {}
      BY <1>1
    <2>. QED
      BY <2>1, QueueShortens
  <1>2. CASE waitQueue' = waitQueue
    <2>1. waitQueue \in Seq(Calls)
      BY DEF IInv, TypeOK
    <2>2. \A k \in DOMAIN waitQueue : k + 0 = k
      BY <2>1
    <2>. QED
      BY <1>2, <2>1, <2>2, QueueShortens
  <1>. QED
    BY <1>1, <1>2

LEMMA HandOffQueue ==
  ASSUME IInv, QueueInv, NEW c \in Calls, NEW outcome \in {"done", "abandoned"},
         call[c] = "holding", HandOff(c, outcome)
  PROVE  QueueInv'
  <1>1. PICK i \in DOMAIN waitQueue :
          /\ waitQueue' = SubSeq(waitQueue, i + 1, Len(waitQueue))
          /\ call' = [call EXCEPT ![c] = outcome, ![waitQueue[i]] = "holding"]
          /\ elapsed' = [elapsed EXCEPT ![c] = 0, ![waitQueue[i]] = 0]
    BY DEF HandOff
  <1>2. waitQueue \in Seq(Calls) /\ i \in 1..Len(waitQueue) /\ waitQueue[i] \in Calls
    BY DEF IInv, TypeOK
  <1>3. /\ waitQueue' \in Seq(Calls)
        /\ \A k \in DOMAIN waitQueue' : k + i \in DOMAIN waitQueue /\ waitQueue'[k] = waitQueue[k + i]
    BY <1>1, <1>2
  <1>4. \A e \in Calls : call'[e] \in {"new", "waiting"} => call[e] = call'[e] /\ elapsed'[e] = elapsed[e]
    BY <1>1, <1>2 DEF IInv, TypeOK
  <1>. QED
    BY <1>2, <1>3, <1>4, QueueShortens

LEMMA FinallyQueue ==
  ASSUME IInv, QueueInv, NEW c \in Calls, NEW outcome \in {"done", "abandoned"},
         call[c] = "holding", Finally(c, outcome)
  PROVE  QueueInv'
  <1>1. CASE HandOff(c, outcome)
    BY <1>1, HandOffQueue
  <1>2. CASE ~HandOff(c, outcome)
    <2>1. /\ call' = [call EXCEPT ![c] = outcome]
          /\ elapsed' = [elapsed EXCEPT ![c] = 0]
          /\ waitQueue' \in {waitQueue, <<>>}
      BY <1>2 DEF Finally, HandoffOrRelease, Release, lockVars
    <2>2. \A e \in Calls : call'[e] \in {"new", "waiting"} => call[e] = call'[e] /\ elapsed'[e] = elapsed[e]
      BY <2>1 DEF IInv, TypeOK
    <2>. QED
      BY <2>1, <2>2, QueueKeptOrEmptied
  <1>. QED
    BY <1>1, <1>2

LEMMA EnqueueQueue ==
  ASSUME IInv, QueueInv, NEW c \in Calls, Enqueue(c)
  PROVE  QueueInv'
  <1>1. /\ waitQueue' = Append(waitQueue, c) /\ call' = [call EXCEPT ![c] = "waiting"]
        /\ call[c] = "new" /\ elapsed' = elapsed /\ elapsed[c] = 0
    BY DEF Enqueue, QueueInv
  <1>2. waitQueue \in Seq(Calls) /\ \A e \in Calls : elapsed[e] >= 0
    BY DEF IInv, TypeOK
  <1>3. /\ waitQueue' \in Seq(Calls)
        /\ \A k \in DOMAIN waitQueue' : \/ k \in DOMAIN waitQueue /\ waitQueue'[k] = waitQueue[k]
                                        \/ k = Len(waitQueue) + 1 /\ waitQueue'[k] = c
    BY <1>1, <1>2
  <1>4. \A e \in Calls : call'[e] = IF e = c THEN "waiting" ELSE call[e]
    BY <1>1 DEF IInv, TypeOK
  <1>5. Ahead(waitQueue', call', elapsed')
    <2>. SUFFICES ASSUME NEW i \in DOMAIN waitQueue', NEW j \in DOMAIN waitQueue', i < j,
                         call'[waitQueue'[i]] = "waiting", call'[waitQueue'[j]] = "waiting"
                  PROVE  elapsed'[waitQueue'[j]] <= elapsed'[waitQueue'[i]]
      BY DEF Ahead
    <2>1. waitQueue'[i] \in Calls /\ waitQueue'[j] \in Calls
      BY <1>3
    <2>2. CASE j = Len(waitQueue) + 1
      BY <1>1, <1>2, <1>3, <2>1, <2>2
    <2>3. CASE j # Len(waitQueue) + 1
      <3>1. i \in DOMAIN waitQueue /\ j \in DOMAIN waitQueue
            /\ waitQueue'[i] = waitQueue[i] /\ waitQueue'[j] = waitQueue[j]
        BY <1>2, <1>3, <2>3
      <3>2. call[waitQueue[i]] = "waiting" /\ call[waitQueue[j]] = "waiting"
        BY <1>1, <1>4, <2>1, <3>1 DEF QueueInv
      <3>. QED
        BY <1>1, <3>1, <3>2 DEF QueueInv, Ahead
    <2>. QED
      BY <2>2, <2>3
  <1>6. \A i \in DOMAIN waitQueue' : call'[waitQueue'[i]] # "new"
    BY <1>3, <1>4 DEF QueueInv
  <1>. QED
    BY <1>1, <1>4, <1>5, <1>6 DEF QueueInv

LEMMA TickQueue ==
  ASSUME IInv, QueueInv, Tick
  PROVE  QueueInv'
  <1>1. /\ waitQueue' = waitQueue /\ call' = call /\ waitQueue \in Seq(Calls)
        /\ \A c \in Calls : elapsed'[c] = IF call[c] \in {"waiting", "holding"}
                                            THEN AgeBy1(elapsed[c]) ELSE 0
    BY DEF Tick, IInv, TypeOK
  <1>2. \A c, d \in Calls : elapsed[c] <= elapsed[d] => AgeBy1(elapsed[c]) <= AgeBy1(elapsed[d])
    BY BudgetAssumption DEF IInv, TypeOK, AgeBy1
  <1>3. Ahead(waitQueue', call', elapsed')
    BY <1>1, <1>2 DEF QueueInv, Ahead
  <1>. QED
    BY <1>1, <1>3 DEF QueueInv

LEMMA NextQueue ==
  ASSUME IInv, QueueInv, [Next]_vars
  PROVE  QueueInv'
  <1>1. CASE UNCHANGED vars
    BY <1>1 DEF vars, lockVars, QueueInv
  <1>2. ASSUME NEW c \in Calls, FinishWork(c) \/ OperationTimeout(c) PROVE QueueInv'
    BY <1>2, FinallyQueue DEF FinishWork, OperationTimeout
  <1>3. ASSUME NEW c \in Calls,
               \/ AcquireFree(c) \/ TakeOverStale(c) \/ WaitTimeout(c) \/ AbandonedWorkEnds(c)
               \/ \E next \in WorkPhases : SetSyncQueuePhase(c, next)
        PROVE  QueueInv'
    <2>1. waitQueue' \in {waitQueue, <<>>}
      BY <1>3 DEF AcquireFree, TakeOverStale, WaitTimeout, AbandonedWorkEnds, SetSyncQueuePhase, lockVars
    <2>2. \A e \in Calls : call'[e] \in {"new", "waiting"} => call[e] = call'[e] /\ elapsed'[e] = elapsed[e]
      BY <1>3 DEF AcquireFree, TakeOverStale, WaitTimeout, AbandonedWorkEnds, SetSyncQueuePhase,
        IInv, TypeOK
    <2>. QED
      BY <2>1, <2>2, QueueKeptOrEmptied
  <1>. QED
    BY <1>1, <1>2, <1>3, TickQueue, EnqueueQueue DEF Next, CallStep

(* The call that gets the lock in a step.                                  *)
GrantsInOrder ==
  \A c, d \in Calls :
    /\ call[c] # "holding" /\ call'[c] = "holding"
    /\ d # c /\ d \in Queued /\ IsWaiting(d)
    => \/ call[c] = "waiting" /\ elapsed[d] <= elapsed[c]
       \/ call[c] = "new" /\ lockAge >= MaxHoldMs

LEMMA StepGrantsInOrder ==
  ASSUME IInv, QueueInv, [Next]_vars
  PROVE  GrantsInOrder
  <1>. SUFFICES ASSUME NEW c \in Calls, NEW d \in Calls, call[c] # "holding", call'[c] = "holding",
                       d # c, d \in Queued, IsWaiting(d)
                PROVE  \/ call[c] = "waiting" /\ elapsed[d] <= elapsed[c]
                       \/ call[c] = "new" /\ lockAge >= MaxHoldMs
    BY DEF GrantsInOrder
  <1>1. locked
    BY DEF IInv, NoLostWakeup
  <1>2. ASSUME NEW e \in Calls, NEW outcome \in {"done", "abandoned"}, HandOff(e, outcome)
        PROVE  call[c] = "waiting" /\ elapsed[d] <= elapsed[c]
    <2>1. PICK i \in DOMAIN waitQueue :
            /\ FirstLive(i)
            /\ call' = [call EXCEPT ![e] = outcome, ![waitQueue[i]] = "holding"]
      BY <1>2 DEF HandOff
    <2>2. c = waitQueue[i] /\ call[c] = "waiting"
      BY <2>1 DEF IInv, TypeOK, FirstLive, IsWaiting
    <2>3. PICK j \in DOMAIN waitQueue : d = waitQueue[j]
      BY DEF Queued
    <2>4. i \in 1..Len(waitQueue) /\ j \in 1..Len(waitQueue) /\ Len(waitQueue) \in Nat
      BY DEF IInv, TypeOK
    <2>5. ~(j < i)
      BY <2>1, <2>3, <2>4 DEF FirstLive
    <2>6. i < j
      BY <2>2, <2>3, <2>4, <2>5
    <2>. QED
      BY <2>2, <2>3, <2>6 DEF QueueInv, Ahead, IsWaiting
  <1>3. ASSUME NEW e \in Calls, NEW outcome \in {"done", "abandoned"}, Finally(e, outcome)
        PROVE  call[c] = "waiting" /\ elapsed[d] <= elapsed[c]
    <2>1. CASE HandOff(e, outcome)
      BY <1>2, <2>1
    <2>2. CASE call' = [call EXCEPT ![e] = outcome]
      BY <2>2 DEF IInv, TypeOK
    <2>. QED
      BY <1>3, <2>1, <2>2 DEF Finally, HandoffOrRelease, Release
  <1>4. ASSUME NEW e \in Calls, FinishWork(e) \/ OperationTimeout(e)
        PROVE  call[c] = "waiting" /\ elapsed[d] <= elapsed[c]
    BY <1>3, <1>4 DEF FinishWork, OperationTimeout
  <1>5. ASSUME NEW e \in Calls, AcquireFree(e) \/ TakeOverStale(e)
        PROVE  call[c] = "new" /\ lockAge >= MaxHoldMs
    BY <1>1, <1>5 DEF AcquireFree, TakeOverStale, IInv, TypeOK
  <1>6. ASSUME NEW e \in Calls,
               \/ Enqueue(e) \/ WaitTimeout(e) \/ AbandonedWorkEnds(e)
               \/ \E next \in WorkPhases : SetSyncQueuePhase(e, next)
        PROVE  FALSE
    BY <1>6 DEF Enqueue, WaitTimeout, AbandonedWorkEnds, SetSyncQueuePhase, IInv, TypeOK
  <1>7. CASE Tick \/ UNCHANGED vars
    BY <1>7 DEF Tick, vars
  <1>. QED
    BY <1>4, <1>5, <1>6, <1>7 DEF Next, CallStep

(* First come, first served, whichever timers fire: a waiter that is       *)
(* granted the lock has waited at least as long as every live waiter still *)
(* queued, and only a newcomer's stale takeover overtakes anybody.         *)
THEOREM FirstComeFirstServed == Spec => FifoGrants
  <1>1. Init => QueueInv
    BY DEF Init, QueueInv, Ahead
  <1>2. IInv /\ QueueInv /\ [Next]_vars => QueueInv'
    BY NextQueue
  <1>3. IInv /\ QueueInv /\ [Next]_vars => GrantsInOrder
    BY StepGrantsInOrder
  <1>. QED
    BY <1>1, <1>2, <1>3, InductiveInvariant, PTL DEF Spec, FifoGrants, GrantsInOrder
=============================================================================
