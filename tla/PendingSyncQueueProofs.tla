----------------------- MODULE PendingSyncQueueProofs -----------------------
(***************************************************************************)
(* That the queue keeps what it accepted, bounds its duplicates and comes  *)
(* back within its cap, for any keys, callers, rows and faults.            *)
(***************************************************************************)
EXTENDS PendingSyncQueue, FiniteSetTheorems, TLAPS

(* What an actor may remember: rows that are or once were in the table; an *)
(* id is never given to another key.                                       *)
Remembered == {r \in Row : r.id < nextId /\ \A s \in rows : s.id = r.id => s.key = r.key}

Updates == [pc : {"update", "cap"}, key : Keys]
Inserts == [pc : {"insert"}, key : Keys, at : Stamps]
Evictions == [pc : {"evict"}, key : Keys, todo : SUBSET Remembered]
Plans == [pc : {"compact", "send"}, todo : SUBSET Remembered]
Handlings == [pc : {"remove", "mark"}, row : Remembered, todo : SUBSET Remembered]

SaverStages == {Idle} \cup Updates \cup Inserts \cup Evictions
CompactorStages == {Idle} \cup Plans \cup Handlings
Stages(a) == IF a \in Savers THEN SaverStages ELSE CompactorStages

OpInv == op = [a \in Actors |-> op[a]] /\ \A a \in Actors : op[a] \in Stages(a)

RowsInv ==
  /\ rows \subseteq Remembered
  /\ \A r, s \in rows : r.id = s.id => r = s
  /\ nextId \in 1..(MaxRows + 1)

RestInv ==
  /\ delivered \subseteq Keys /\ accepted \subseteq Keys /\ evicted \subseteq Keys
  /\ faults \in 0..MaxFaults

IInv == OpInv /\ RowsInv /\ RestInv

(* One row, or one insertion to come, per caller.                          *)
OfKey(key) == {r \in rows : r.key = key}
Inserters(key) == {c \in Savers : op[c].pc = "insert" /\ op[c].key = key}
DuplicatesInv ==
  \A key \in Keys :
    Cardinality(OfKey(key)) + Cardinality(Inserters(key)) <= Cardinality(Savers)

(* What is left when the rows selected for eviction are gone exceeds the   *)
(* cap by no more than the calls that inserted since.                      *)
Left(todo) == {r \in rows : \A s \in todo : s.id # r.id}
LateFor(late) ==
  \A c \in Savers : op[c].pc = "evict" =>
    /\ late[c] \subseteq Capping(op) \ {c}
    /\ Cardinality(Left(op[c].todo)) <= Cap + Cardinality(late[c])
    /\ \A d \in late[c] : op[d].pc = "evict" => late[d] \subseteq late[c]
CapInv == \E late \in [Savers -> SUBSET Savers] : LateFor(late)

(* A key is where KeyNotForgotten wants it, with the rows of a plan gone.  *)
Known(key, todo) ==
  \/ key \in delivered \cup evicted
  \/ \E r \in rows : r.key = key /\ \A s \in todo : s.id # r.id

KeptInv ==
  /\ \A key \in accepted : Known(key, {})
  /\ \A c \in Savers : op[c].pc \in {"update", "cap", "evict"} => Known(op[c].key, {})
  /\ \A d \in Drains : op[d].pc = "remove" => op[d].row.key \in delivered
  /\ \A a \in Screens \cup Drains : op[a].pc = "compact" =>
       \A r \in op[a].todo : Known(r.key, op[a].todo)

(* Two compactions may delete each other's keepers.                        *)
Compacting(a) == op[a].pc = "compact"
OneCompaction == \A a, b \in Screens \cup Drains : Compacting(a) /\ Compacting(b) => a = b

-----------------------------------------------------------------------------
(* Finite sets                                                             *)

(* In a finite set a transitive, irreflexive relation has a first element. *)
LEMMA FirstElement ==
  ASSUME NEW S, IsFiniteSet(S), S # {}, NEW R,
         \A x \in S : <<x, x>> \notin R,
         \A x, y, z \in S : <<x, y>> \in R /\ <<y, z>> \in R => <<x, z>> \in R
  PROVE  \E m \in S : \A x \in S : <<x, m>> \notin R
  <1>. DEFINE Before(y) == {x \in S : <<x, y>> \in R}
              T == {Before(y) : y \in S}
  <1>1. T \subseteq FiniteSubsetsOf(S) /\ T # {}
    <2>1. FiniteSubsetsOf(S) = SUBSET S
      BY FS_FiniteSubsetsOfFinite
    <2>2. T \subseteq SUBSET S
      OBVIOUS
    <2>3. T # {}
      <3>1. PICK y \in S : TRUE
        OBVIOUS
      <3>2. Before(y) \in T
        OBVIOUS
      <3>. QED
        BY <3>2
    <2>. QED
      BY <2>1, <2>2, <2>3
  <1>2. PICK B \in T : \A C \in T : <<C, B>> \notin StrictSubsetOrdering(S)
    BY <1>1, FS_StrictSubsetOrderingWellFounded, WFMin
  <1>3. PICK m \in S : B = Before(m)
    OBVIOUS
  <1>4. ASSUME NEW x \in S, <<x, m>> \in R PROVE FALSE
    <2>1. Before(x) \subseteq Before(m) /\ x \in Before(m) /\ x \notin Before(x)
      BY <1>4
    <2>2. <<Before(x), Before(m)>> \in StrictSubsetOrdering(S)
      BY <2>1 DEF StrictSubsetOrdering
    <2>. QED
      BY <1>2, <1>3, <2>2
  <1>. QED
    BY <1>4

(* As many rows as ids, at most.                                           *)
LEMMA FewerIds ==
  ASSUME NEW A, NEW B, IsFiniteSet(B), \A r, s \in A : r.id = s.id => r = s,
         \A r \in A : \E s \in B : s.id = r.id
  PROVE  IsFiniteSet(A) /\ Cardinality(A) <= Cardinality(B)
  <1>. DEFINE f == [r \in A |-> CHOOSE s \in B : s.id = r.id]
  <1>1. \A r \in A : f[r] \in B /\ f[r].id = r.id
    OBVIOUS
  <1>2. f \in Injection(A, B)
    <2>1. f \in [A -> B] /\ \A r, s \in A : f[r] = f[s] => r = s
      BY <1>1
    <2>. QED
      BY <2>1 DEF Injection, IsInjective
  <1>. QED
    BY <1>2, FS_Injection

LEMMA FewIds ==
  ASSUME NEW T, NEW n \in Nat, \A r \in T : r.id \in 0..n, \A r, s \in T : r.id = s.id => r = s
  PROVE  IsFiniteSet(T)
  <1>. DEFINE f == [r \in T |-> r.id]
  <1>1. f \in [T -> 0..n] /\ \A r, s \in T : f[r] = f[s] => r = s
    OBVIOUS
  <1>2. f \in Injection(T, 0..n)
    BY <1>1 DEF Injection, IsInjective
  <1>. QED
    BY <1>2, FS_Interval, FS_Injection

LEMMA RowsFinite ==
  ASSUME RowsInv
  PROVE  IsFiniteSet(rows)
  <1>1. nextId \in Nat /\ \A r \in rows : r.id \in 0..nextId
    BY DEF RowsInv, Remembered, Row
  <1>. QED
    BY <1>1, FewIds DEF RowsInv

-----------------------------------------------------------------------------
(* The table                                                               *)

(* createdAt, then id, orders the rows.                                    *)
LEMMA OldestFirst ==
  ASSUME RowsInv, NEW S \in SUBSET rows, S # {}
  PROVE  \E m \in S : \A r \in S : r = m \/ Older(m, r)
  <1>. DEFINE R == {p \in rows \X rows : Older(p[1], p[2])}
  <1>1. \A r \in rows : r.id \in Nat /\ r.at \in Nat
    BY BoundsAssumption DEF RowsInv, Remembered, Row
  <1>2. IsFiniteSet(S)
    BY RowsFinite, FS_Subset
  <1>3. /\ \A x \in S : <<x, x>> \notin R
        /\ \A x, y, z \in S : <<x, y>> \in R /\ <<y, z>> \in R => <<x, z>> \in R
    BY <1>1 DEF Older
  <1>. HIDE DEF R
  <1>4. PICK m \in S : \A x \in S : <<x, m>> \notin R
    BY <1>2, <1>3, FirstElement
  <1>5. ASSUME NEW r \in S, r # m PROVE Older(m, r)
    <2>1. ~Older(r, m) /\ r.id # m.id
      BY <1>4, <1>5 DEF R, RowsInv
    <2>. QED
      BY <1>1, <2>1 DEF Older
  <1>. QED
    BY <1>5

(* A compaction leaves every key a row.                                    *)
LEMMA KeeperStays ==
  ASSUME RowsInv, NEW r \in rows
  PROVE  \E k \in rows : k.key = r.key /\ \A s \in DeleteRows(rows) : s.id # k.id
  <1>. DEFINE S == {s \in rows : s.key = r.key}
              R == {p \in rows \X rows : Keeps(p[1], p[2])}
  <1>1. \A s \in rows : s.id \in Nat /\ s.at \in Nat /\ s.attempts \in Nat
    BY BoundsAssumption DEF RowsInv, Remembered, Row
  <1>2. IsFiniteSet(S) /\ S # {}
    BY RowsFinite, FS_Subset
  <1>3. /\ \A x \in S : <<x, x>> \notin R
        /\ \A x, y, z \in S : <<x, y>> \in R /\ <<y, z>> \in R => <<x, z>> \in R
    BY <1>1 DEF Keeps, Older
  <1>. HIDE DEF R
  <1>4. PICK k \in S : \A x \in S : <<x, k>> \notin R
    BY <1>2, <1>3, FirstElement
  <1>5. k \notin DeleteRows(rows)
    BY <1>4 DEF DeleteRows, R
  <1>. QED
    BY <1>5 DEF DeleteRows, RowsInv

(* Without the overflow no more than `cap` rows are left.                  *)
LEMMA OverflowLeaves ==
  ASSUME RowsInv
  PROVE  /\ IsFiniteSet(Left(OverflowRows(rows, Cap)))
         /\ Cardinality(Left(OverflowRows(rows, Cap))) <= Cap
  <1>. DEFINE T == Left(OverflowRows(rows, Cap))
              Upto(m) == {s \in rows : s = m \/ Older(m, s)}
  <1>1. T \subseteq rows /\ \A r \in T : r \notin OverflowRows(rows, Cap)
    BY DEF Left
  <1>2. IsFiniteSet(rows) /\ IsFiniteSet(T) /\ Cardinality(T) \in Nat
    BY <1>1, RowsFinite, FS_Subset, FS_CardinalityType
  <1>3. CASE T = {}
    BY <1>2, <1>3, FS_EmptySet, BoundsAssumption
  <1>4. CASE T # {}
    <2>1. PICK m \in T : \A r \in T : r = m \/ Older(m, r)
      BY <1>1, <1>4, OldestFirst
    <2>2. T \subseteq Upto(m) /\ Upto(m) \subseteq rows
      BY <1>1, <2>1
    <2>3. IsFiniteSet(Upto(m)) /\ Cardinality(Upto(m)) \in Nat
      BY <1>2, <2>2, FS_Subset, FS_CardinalityType
    <2>4. Cardinality(T) <= Cardinality(Upto(m))
      BY <2>2, <2>3, FS_Subset
    <2>5. ~(Cardinality(Upto(m)) > Cap)
      BY <1>1, <2>1 DEF OverflowRows
    <2>6. Cardinality(T) <= Cap
      <3>. HIDE DEF T, Upto
      <3>. QED
        BY <1>2, <2>3, <2>4, <2>5, BoundsAssumption
    <2>. QED
      BY <1>2, <2>6
  <1>. QED
    BY <1>2, <1>3, <1>4

-----------------------------------------------------------------------------
(* One actor goes on.                                                      *)

(* No row is new, no row has a new key.                                    *)
Shrinks == \A r \in rows' : \E s \in rows : s.id = r.id /\ s.key = r.key

LEMMA RememberedGrows ==
  ASSUME nextId \in Nat, nextId' \in Nat, nextId <= nextId',
         \A r \in rows' : (\E s \in rows : s.id = r.id /\ s.key = r.key) \/ r.id = nextId
  PROVE  Remembered \subseteq Remembered'
  <1>1. ASSUME NEW r \in Remembered PROVE r \in Remembered'
    <2>1. r \in Row /\ r.id \in Nat /\ r.id < nextId
      BY DEF Remembered, Row
    <2>2. \A s \in rows' : s.id = r.id => s.key = r.key
      BY <2>1 DEF Remembered
    <2>. QED
      BY <2>1, <2>2 DEF Remembered
  <1>. QED
    BY <1>1

LEMMA StagesGrow ==
  ASSUME Remembered \subseteq Remembered'
  PROVE  \A a : Stages(a) \subseteq Stages(a)'
  <1>1. Evictions \subseteq Evictions' /\ Plans \subseteq Plans' /\ Handlings \subseteq Handlings'
    BY DEF Evictions, Plans, Handlings
  <1>. QED
    BY <1>1 DEF Stages, SaverStages, CompactorStages, Updates, Inserts

LEMMA Moved ==
  ASSUME OpInv, NEW a \in Actors, NEW next \in Stages(a)', Becomes(a, next),
         Remembered \subseteq Remembered'
  PROVE  OpInv' /\ \A b \in Actors : op'[b] = IF b = a THEN next ELSE op[b]
  <1>1. \A b \in Actors : op'[b] = IF b = a THEN next ELSE op[b]
    BY DEF OpInv, Becomes
  <1>2. op' = [b \in Actors |-> op'[b]]
    BY DEF OpInv, Becomes
  <1>3. \A b \in Actors : op'[b] \in Stages(b)'
    BY <1>1, StagesGrow DEF OpInv
  <1>. QED
    BY <1>1, <1>2, <1>3 DEF OpInv

LEMMA SaverShape ==
  ASSUME OpInv, NEW c \in Savers
  PROVE  /\ c \in Actors /\ c \notin Screens \cup Drains
         /\ Stages(c) = SaverStages /\ op[c] \in SaverStages
         /\ op[c].pc \in {"idle", "update", "cap", "insert", "evict"}
         /\ op[c].pc \in {"update", "cap"} => op[c] \in Updates
         /\ op[c].pc = "insert" => op[c] \in Inserts
         /\ op[c].pc = "evict" => op[c] \in Evictions
  <1>1. c \in Actors /\ c \notin Screens \cup Drains /\ op[c] \in SaverStages /\ Stages(c) = SaverStages
    BY ActorsAssumption DEF OpInv, Stages, Actors
  <1>. QED
    BY <1>1 DEF SaverStages, Idle, Updates, Inserts, Evictions

LEMMA CompactorShape ==
  ASSUME OpInv, NEW a \in Screens \cup Drains
  PROVE  /\ a \in Actors /\ a \notin Savers
         /\ Stages(a) = CompactorStages /\ op[a] \in CompactorStages
         /\ op[a].pc \in {"idle", "compact", "send", "remove", "mark"}
         /\ op[a].pc \in {"compact", "send"} => op[a] \in Plans
         /\ op[a].pc \in {"remove", "mark"} => op[a] \in Handlings
  <1>1. a \in Actors /\ a \notin Savers /\ op[a] \in CompactorStages /\ Stages(a) = CompactorStages
    BY ActorsAssumption DEF OpInv, Stages, Actors
  <1>. QED
    BY <1>1 DEF CompactorStages, Idle, Plans, Handlings

(* A step that inserts no row.                                             *)
LEMMA ShrinkingStep ==
  ASSUME IInv, NEW a \in Actors, NEW next \in Stages(a), Becomes(a, next),
         Shrinks, rows' \subseteq Row, \A r, s \in rows' : r.id = s.id => r = s,
         nextId' = nextId, RestInv'
  PROVE  IInv'
  <1>1. nextId \in Nat
    BY DEF IInv, RowsInv
  <1>2. Remembered \subseteq Remembered'
    BY <1>1, RememberedGrows DEF Shrinks
  <1>3. OpInv'
    BY <1>2, StagesGrow, Moved DEF IInv
  <1>4. rows' \subseteq Remembered'
    BY DEF Shrinks, Remembered, IInv, RowsInv
  <1>. QED
    BY <1>3, <1>4 DEF IInv, RowsInv

LEMMA QuietStep ==
  ASSUME IInv, NEW a \in Actors, NEW next \in Stages(a), Becomes(a, next),
         UNCHANGED <<rows, nextId>>, RestInv'
  PROVE  IInv'
  BY ShrinkingStep DEF Shrinks, IInv, RowsInv, Remembered

-----------------------------------------------------------------------------
(* enqueuePendingSync                                                      *)

LEMMA LookUpKeeps ==
  ASSUME IInv, NEW c \in Savers, NEW key \in Keys, NEW at \in Stamps, LookUp(c, key, at)
  PROVE  IInv'
  <1>1. PICK next \in {[pc |-> "update", key |-> key], [pc |-> "insert", key |-> key, at |-> at]} :
          Becomes(c, next)
    BY DEF LookUp
  <1>2. next \in Updates \cup Inserts
    BY <1>1 DEF Updates, Inserts
  <1>3. c \in Actors /\ next \in Stages(c)
    BY <1>2, SaverShape DEF IInv, SaverStages
  <1>. QED
    BY <1>1, <1>3, QuietStep DEF LookUp, IInv, RestInv

LEMMA UpdateKeeps ==
  ASSUME IInv, NEW c \in Savers, Update(c)
  PROVE  IInv'
  <1>1. c \in Actors /\ Idle \in Stages(c) /\ op[c].key \in Keys
    BY SaverShape DEF IInv, SaverStages, Update, Updates
  <1>2. RestInv'
    BY <1>1 DEF Update, IInv, RestInv
  <1>. QED
    BY <1>1, <1>2, QuietStep DEF Update

LEMMA InsertShape ==
  ASSUME IInv, NEW c \in Savers, Insert(c)
  PROVE  \E new \in Row :
           /\ new.id = nextId /\ new.key = op[c].key /\ new \notin rows
           /\ rows' = rows \cup {new} /\ nextId' = nextId + 1
           /\ op[c].key \in Keys /\ nextId \in Nat /\ \A r \in rows : r.id < nextId /\ r.id \in Nat
  <1>1. op[c] \in Inserts
    BY SaverShape DEF IInv, Insert
  <1>2. PICK new : new = [id |-> nextId, key |-> op[c].key, at |-> op[c].at, attempts |-> 0]
    OBVIOUS
  <1>3. nextId \in Nat /\ \A r \in rows : r.id < nextId /\ r.id \in Nat
    BY DEF IInv, RowsInv, Remembered, Row
  <1>4. new \in Row /\ new.id = nextId /\ new.key = op[c].key /\ op[c].key \in Keys
    BY <1>1, <1>2, <1>3 DEF Row, Inserts
  <1>5. new \notin rows
    BY <1>3, <1>4
  <1>. QED
    BY <1>2, <1>3, <1>4, <1>5 DEF Insert

LEMMA InsertKeeps ==
  ASSUME IInv, NEW c \in Savers, Insert(c)
  PROVE  IInv'
  <1>1. PICK new \in Row :
           /\ new.id = nextId /\ new.key = op[c].key /\ new \notin rows
           /\ rows' = rows \cup {new} /\ nextId' = nextId + 1
           /\ op[c].key \in Keys /\ nextId \in Nat /\ \A r \in rows : r.id < nextId /\ r.id \in Nat
    BY InsertShape
  <1>2. Remembered \subseteq Remembered'
    BY <1>1, RememberedGrows
  <1>3. PICK next : next = [pc |-> "cap", key |-> op[c].key]
    OBVIOUS
  <1>4. next \in Updates
    BY <1>1, <1>3 DEF Updates
  <1>5. c \in Actors /\ next \in Stages(c)' /\ Becomes(c, next)
    BY <1>3, <1>4, SaverShape, StagesGrow, <1>2 DEF IInv, SaverStages, Insert
  <1>6. OpInv'
    BY <1>2, <1>5, Moved DEF IInv
  <1>7. rows' \subseteq Remembered'
    BY <1>1, <1>2 DEF IInv, RowsInv, Remembered
  <1>8. nextId' \in 1..(MaxRows + 1)
    BY <1>1, BoundsAssumption DEF Insert, IInv, RowsInv
  <1>9. \A r, s \in rows' : r.id = s.id => r = s
    BY <1>1 DEF IInv, RowsInv
  <1>10. RestInv'
    BY DEF Insert, IInv, RestInv
  <1>. QED
    BY <1>6, <1>7, <1>8, <1>9, <1>10 DEF IInv, RowsInv

LEMMA SelectOverflowKeeps ==
  ASSUME IInv, NEW c \in Savers, SelectOverflow(c)
  PROVE  IInv'
  <1>1. op[c] \in Updates /\ c \in Actors
    BY SaverShape DEF IInv, SelectOverflow
  <1>2. PICK surplus \in SUBSET rows :
          /\ surplus = OverflowRows(rows, Cap)
          /\ Becomes(c, IF surplus = {} THEN Idle
                        ELSE [pc |-> "evict", key |-> op[c].key, todo |-> surplus])
    BY DEF SelectOverflow, OverflowRows
  <1>3. PICK next \in {Idle, [pc |-> "evict", key |-> op[c].key, todo |-> surplus]} : Becomes(c, next)
    BY <1>2
  <1>4. next \in {Idle} \cup Evictions
    BY <1>1, <1>3 DEF Updates, Evictions, IInv, RowsInv
  <1>5. next \in Stages(c)
    BY <1>4, SaverShape DEF IInv, SaverStages
  <1>6. RestInv'
    BY <1>1 DEF SelectOverflow, IInv, RestInv, Updates
  <1>. QED
    BY <1>1, <1>3, <1>5, <1>6, QuietStep DEF SelectOverflow

LEMMA EvictKeeps ==
  ASSUME IInv, NEW c \in Savers, Evict(c)
  PROVE  IInv'
  <1>1. op[c] \in Evictions /\ c \in Actors /\ Idle \in Stages(c)
    BY SaverShape DEF IInv, Evict, SaverStages
  <1>2. rows' \subseteq rows
    BY DEF Evict
  <1>3. RestInv'
    <2>1. evicted' \subseteq Keys
      BY DEF Evict, IInv, RestInv, RowsInv, Remembered, Row
    <2>. QED
      BY <1>1, <2>1 DEF Evict, IInv, RestInv, Evictions
  <1>. QED
    BY <1>1, <1>2, <1>3, ShrinkingStep DEF Evict, Shrinks, IInv, RowsInv, Remembered

-----------------------------------------------------------------------------
(* Compacting                                                              *)

LEMMA PlanKeeps ==
  ASSUME IInv, NEW a \in Screens \cup Drains, PlanCompaction(a)
  PROVE  IInv'
  <1>1. PICK next : next = [pc |-> "compact", todo |-> DeleteRows(rows)]
    OBVIOUS
  <1>2. next \in Plans
    BY <1>1 DEF Plans, DeleteRows, IInv, RowsInv
  <1>3. a \in Actors /\ next \in Stages(a)
    BY <1>2, CompactorShape DEF IInv, CompactorStages
  <1>. QED
    BY <1>1, <1>3, QuietStep DEF PlanCompaction, IInv, RestInv

LEMMA CompactDeleteKeeps ==
  ASSUME IInv, NEW a \in Screens \cup Drains, CompactDelete(a)
  PROVE  IInv'
  <1>1. PICK r \in op[a].todo :
          /\ rows' = WithoutIds(rows, {r.id})
          /\ Becomes(a, [pc |-> "compact", todo |-> op[a].todo \ {r}])
    BY DEF CompactDelete
  <1>2. PICK next : next = [pc |-> "compact", todo |-> op[a].todo \ {r}]
    OBVIOUS
  <1>3. next \in Plans
    BY <1>2, CompactorShape DEF IInv, CompactDelete, Plans
  <1>4. a \in Actors /\ next \in Stages(a)
    BY <1>3, CompactorShape DEF IInv, CompactorStages
  <1>5. rows' \subseteq rows
    BY <1>1 DEF WithoutIds
  <1>. QED
    BY <1>1, <1>2, <1>4, <1>5, ShrinkingStep
    DEF CompactDelete, Shrinks, IInv, RowsInv, Remembered, RestInv

LEMMA CompactionDoneKeeps ==
  ASSUME IInv, NEW a \in Screens, CompactionDone(a)
  PROVE  IInv'
  <1>1. a \in Actors /\ Idle \in Stages(a)
    BY CompactorShape DEF IInv, CompactorStages
  <1>. QED
    BY <1>1, QuietStep DEF CompactionDone, IInv, RestInv

-----------------------------------------------------------------------------
(* Draining                                                                *)

LEMMA LoadSnapshotKeeps ==
  ASSUME IInv, NEW d \in Drains, LoadSnapshot(d)
  PROVE  IInv'
  <1>1. PICK next : next = [pc |-> "send", todo |-> rows]
    OBVIOUS
  <1>2. next \in Plans
    BY <1>1 DEF Plans, IInv, RowsInv
  <1>3. d \in Actors /\ next \in Stages(d)
    BY <1>2, CompactorShape DEF IInv, CompactorStages
  <1>. QED
    BY <1>1, <1>3, QuietStep DEF LoadSnapshot, IInv, RestInv

LEMMA SendKeeps ==
  ASSUME IInv, NEW d \in Drains, SendSucceeds(d) \/ SendFails(d)
  PROVE  IInv'
  <1>1. PICK r \in op[d].todo, pc \in {"remove", "mark"} :
          /\ Becomes(d, [pc |-> pc, row |-> r, todo |-> op[d].todo \ {r}])
          /\ delivered' \subseteq delivered \cup {r.key}
    BY DEF SendSucceeds, SendFails, NextInLine
  <1>2. PICK next : next = [pc |-> pc, row |-> r, todo |-> op[d].todo \ {r}]
    OBVIOUS
  <1>3. op[d] \in Plans
    BY CompactorShape DEF IInv, SendSucceeds, SendFails
  <1>4. next \in Handlings /\ r.key \in Keys
    BY <1>2, <1>3 DEF Plans, Handlings, Remembered, Row
  <1>5. d \in Actors /\ next \in Stages(d)
    BY <1>4, CompactorShape DEF IInv, CompactorStages
  <1>6. RestInv'
    BY <1>1, <1>4, BoundsAssumption DEF SendSucceeds, SendFails, IInv, RestInv
  <1>. QED
    BY <1>1, <1>2, <1>5, <1>6, QuietStep DEF SendSucceeds, SendFails

LEMMA HandledStage ==
  ASSUME IInv, NEW d \in Drains, op[d].pc \in {"remove", "mark"},
         NEW next, next = [pc |-> "send", todo |-> op[d].todo]
  PROVE  d \in Actors /\ next \in Stages(d) /\ op[d].row \in Remembered
  <1>1. op[d] \in Handlings
    BY CompactorShape DEF IInv
  <1>2. next \in Plans
    BY <1>1 DEF Handlings, Plans
  <1>. QED
    BY <1>1, <1>2, CompactorShape DEF IInv, CompactorStages, Handlings

LEMMA RemoveKeeps ==
  ASSUME IInv, NEW d \in Drains, Remove(d)
  PROVE  IInv'
  <1>1. PICK next : next = [pc |-> "send", todo |-> op[d].todo]
    OBVIOUS
  <1>2. d \in Actors /\ next \in Stages(d) /\ Becomes(d, next)
    BY <1>1, HandledStage DEF Remove
  <1>3. rows' \subseteq rows
    BY DEF Remove, WithoutIds
  <1>. QED
    BY <1>2, <1>3, ShrinkingStep DEF Remove, Shrinks, IInv, RowsInv, Remembered, RestInv

LEMMA MarkedRows ==
  ASSUME RowsInv, NEW id, NEW n \in Nat, rows' = MarkAttempt(rows, id, n)
  PROVE  /\ Shrinks /\ rows' \subseteq Row /\ \A r, s \in rows' : r.id = s.id => r = s
         /\ \A s \in rows : \E r \in rows' : r.id = s.id /\ r.key = s.key
  <1>. DEFINE New(s) == IF s.id = id THEN [s EXCEPT !.attempts = n] ELSE s
  <1>1. rows' = {New(s) : s \in rows}
    BY DEF MarkAttempt
  <1>2. \A s \in rows : New(s) \in Row /\ New(s).id = s.id /\ New(s).key = s.key
    BY DEF RowsInv, Remembered, Row
  <1>. HIDE DEF New
  <1>3. \A r \in rows' : \E s \in rows : r = New(s) /\ s.id = r.id /\ s.key = r.key /\ r \in Row
    BY <1>1, <1>2
  <1>4. \A r, s \in rows' : r.id = s.id => r = s
    BY <1>3 DEF RowsInv
  <1>5. \A s \in rows : \E r \in rows' : r.id = s.id /\ r.key = s.key
    BY <1>1, <1>2
  <1>. QED
    BY <1>3, <1>4, <1>5 DEF Shrinks

LEMMA MarkKeeps ==
  ASSUME IInv, NEW d \in Drains, Mark(d)
  PROVE  IInv'
  <1>1. PICK next : next = [pc |-> "send", todo |-> op[d].todo]
    OBVIOUS
  <1>2. d \in Actors /\ next \in Stages(d) /\ Becomes(d, next) /\ op[d].row \in Remembered
    BY <1>1, HandledStage DEF Mark
  <1>3. op[d].row.attempts + 1 \in Nat
    BY <1>2 DEF Remembered, Row
  <1>4. Shrinks /\ rows' \subseteq Row /\ \A r, s \in rows' : r.id = s.id => r = s
    BY <1>3, MarkedRows DEF Mark, IInv
  <1>. QED
    BY <1>2, <1>4, ShrinkingStep DEF Mark, IInv, RestInv

LEMMA PassDoneKeeps ==
  ASSUME IInv, NEW d \in Drains, PassDone(d)
  PROVE  IInv'
  <1>1. d \in Actors /\ Idle \in Stages(d)
    BY CompactorShape DEF IInv, CompactorStages
  <1>. QED
    BY <1>1, QuietStep DEF PassDone, IInv, RestInv

LEMMA KillKeeps ==
  ASSUME IInv, Kill
  PROVE  IInv'
  <1>1. op' = [a \in Actors |-> Idle] /\ UNCHANGED <<rows, nextId>>
    BY DEF Kill
  <1>2. OpInv'
    <2>1. \A a : Idle \in Stages(a)'
      BY DEF Stages, SaverStages, CompactorStages
    <2>. QED
      BY <1>1, <2>1 DEF OpInv
  <1>3. RowsInv'
    BY <1>1 DEF IInv, RowsInv, Remembered
  <1>4. RestInv'
    BY BoundsAssumption DEF Kill, IInv, RestInv
  <1>. QED
    BY <1>2, <1>3, <1>4 DEF IInv

LEMMA NextKeeps ==
  ASSUME IInv, [Next]_vars
  PROVE  IInv'
  <1>1. CASE UNCHANGED vars
    <2>1. Remembered' = Remembered
      BY <1>1 DEF vars, Remembered
    <2>2. \A a : Stages(a) \subseteq Stages(a)'
      BY <2>1, StagesGrow
    <2>. QED
      BY <1>1, <2>1, <2>2 DEF vars, IInv, OpInv, RowsInv, RestInv
  <1>2. ASSUME NEW c \in Savers, NEW key \in Keys, NEW at \in Stamps,
               LookUp(c, key, at) \/ SaverStep(c)
        PROVE  IInv'
    BY <1>2, LookUpKeeps, UpdateKeeps, InsertKeeps, SelectOverflowKeeps, EvictKeeps DEF SaverStep
  <1>3. ASSUME NEW c \in Savers, SaverStep(c) PROVE IInv'
    BY <1>3, UpdateKeeps, InsertKeeps, SelectOverflowKeeps, EvictKeeps DEF SaverStep
  <1>4. ASSUME NEW c \in Screens, PlanCompaction(c) \/ CompactDelete(c) \/ CompactionDone(c)
        PROVE  IInv'
    BY <1>4, PlanKeeps, CompactDeleteKeeps, CompactionDoneKeeps
  <1>5. ASSUME NEW d \in Drains, DrainStep(d) \/ SendFails(d) PROVE IInv'
    BY <1>5, PlanKeeps, CompactDeleteKeeps, LoadSnapshotKeeps, SendKeeps, RemoveKeeps, MarkKeeps,
      PassDoneKeeps DEF DrainStep
  <1>. QED
    BY <1>1, <1>2, <1>3, <1>4, <1>5, KillKeeps DEF Next

LEMMA InitHolds ==
  ASSUME Init
  PROVE  IInv
  <1>1. OpInv
    BY DEF Init, OpInv, Stages, SaverStages, CompactorStages
  <1>. QED
    BY <1>1, BoundsAssumption DEF Init, IInv, RowsInv, RestInv

(* The table keeps its ids apart and every caller remembers rows that are, *)
(* or once were, in it: the invariant the results below rest on.           *)
THEOREM TableStaysOk == Spec => []IInv
  BY InitHolds, NextKeeps, PTL DEF Spec

(* The table and what its callers remember of it are of the declared types *)
(* however the calls interleave.                                           *)
THEOREM TypeCorrect == Spec => []TypeOK
  <1>1. ASSUME IInv PROVE TypeOK
    <2>1. \A r \in Remembered : r \in Row /\ r.id < nextId
      BY DEF Remembered
    <2>2. ASSUME NEW c \in Savers
          PROVE  /\ op[c].pc \in Pcs
                 /\ op[c].pc \in {"update", "insert", "cap", "evict"} => op[c].key \in Keys
                 /\ op[c].pc \in {"evict", "compact", "send", "remove", "mark"} =>
                      op[c].todo \subseteq Row /\ \A r \in op[c].todo : r.id < nextId
                 /\ op[c].pc \in {"remove", "mark"} => op[c].row \in Row
      BY <1>1, <2>1, SaverShape DEF IInv, Pcs, Updates, Inserts, Evictions
    <2>3. ASSUME NEW a \in Screens \cup Drains
          PROVE  /\ op[a].pc \in Pcs
                 /\ op[a].pc \in {"update", "insert", "cap", "evict"} => op[a].key \in Keys
                 /\ op[a].pc \in {"evict", "compact", "send", "remove", "mark"} =>
                      op[a].todo \subseteq Row /\ \A r \in op[a].todo : r.id < nextId
                 /\ op[a].pc \in {"remove", "mark"} => op[a].row \in Row
      BY <1>1, <2>1, CompactorShape DEF IInv, Pcs, Plans, Handlings
    <2>4. DOMAIN op = Actors
      BY <1>1 DEF IInv, OpInv
    <2>. QED
      BY <1>1, <2>1, <2>2, <2>3, <2>4 DEF TypeOK, Actors, IInv, RowsInv, RestInv
  <1>. QED
    BY <1>1, TableStaysOk, PTL

-----------------------------------------------------------------------------
(* How many rows a key has                                                 *)

(* Only an insertion adds a row.                                           *)
LEMMA NoNewRow ==
  ASSUME IInv, [Next]_vars, \A c \in Savers : ~Insert(c)
  PROVE  Shrinks
  <1>1. CASE rows' \subseteq rows
    BY <1>1 DEF Shrinks
  <1>2. ASSUME NEW d \in Drains, Mark(d) PROVE Shrinks
    <2>1. PICK next : next = [pc |-> "send", todo |-> op[d].todo]
      OBVIOUS
    <2>2. op[d].row.attempts + 1 \in Nat
      BY <1>2, <2>1, HandledStage DEF Mark, Remembered, Row
    <2>. QED
      BY <1>2, <2>2, MarkedRows DEF Mark, IInv
  <1>3. CASE UNCHANGED rows
    BY <1>3 DEF Shrinks
  <1>4. rows' \subseteq rows \/ UNCHANGED rows \/ \E d \in Drains : Mark(d)
    BY DEF Next, vars, SaverStep, DrainStep, LookUp, Update, SelectOverflow, Evict, PlanCompaction,
      CompactDelete, CompactionDone, LoadSnapshot, SendSucceeds, SendFails, Remove, PassDone, Kill,
      WithoutIds
  <1>. QED
    BY <1>1, <1>2, <1>3, <1>4

(* Only a look-up makes an inserter.                                       *)
LEMMA NoNewInserter ==
  ASSUME IInv, [Next]_vars, \A c \in Savers, key \in Keys, at \in Stamps : ~LookUp(c, key, at),
         NEW key \in Keys
  PROVE  Inserters(key)' \subseteq Inserters(key)
  <1>1. ASSUME NEW a \in Actors, NEW next, Becomes(a, next), next.pc # "insert"
        PROVE  Inserters(key)' \subseteq Inserters(key)
    BY <1>1 DEF Becomes, Inserters, IInv, OpInv, Actors
  <1>2. CASE UNCHANGED op
    BY <1>2 DEF Inserters
  <1>3. CASE Kill
    BY <1>3 DEF Kill, Inserters, Actors, Idle
  <1>4. ASSUME NEW c \in Savers, SaverStep(c)
        PROVE  \E next : Becomes(c, next) /\ next.pc # "insert"
    <2>1. CASE Update(c)
      BY <2>1 DEF Update, Idle
    <2>2. CASE Insert(c)
      BY <2>2 DEF Insert
    <2>3. CASE SelectOverflow(c)
      <3>1. PICK surplus : Becomes(c, IF surplus = {} THEN Idle
                             ELSE [pc |-> "evict", key |-> op[c].key, todo |-> surplus])
        BY <2>3 DEF SelectOverflow
      <3>2. CASE surplus = {}
        BY <3>1, <3>2 DEF Idle
      <3>3. CASE surplus # {}
        BY <3>1, <3>3
      <3>. QED
        BY <3>2, <3>3
    <2>4. CASE Evict(c)
      BY <2>4 DEF Evict, Idle
    <2>. QED
      BY <1>4, <2>1, <2>2, <2>3, <2>4 DEF SaverStep
  <1>5. ASSUME NEW a \in Screens, PlanCompaction(a) \/ CompactDelete(a) \/ CompactionDone(a)
        PROVE  \E next : Becomes(a, next) /\ next.pc # "insert"
    <2>1. CASE PlanCompaction(a)
      BY <2>1 DEF PlanCompaction
    <2>2. CASE CompactDelete(a)
      BY <2>2 DEF CompactDelete
    <2>3. CASE CompactionDone(a)
      BY <2>3 DEF CompactionDone, Idle
    <2>. QED
      BY <1>5, <2>1, <2>2, <2>3
  <1>6. ASSUME NEW d \in Drains, DrainStep(d) \/ SendFails(d)
        PROVE  \E next : Becomes(d, next) /\ next.pc # "insert"
    <2>1. CASE PlanCompaction(d)
      BY <2>1 DEF PlanCompaction
    <2>2. CASE CompactDelete(d)
      BY <2>2 DEF CompactDelete
    <2>3. CASE LoadSnapshot(d)
      BY <2>3 DEF LoadSnapshot
    <2>4. CASE SendSucceeds(d)
      BY <2>4 DEF SendSucceeds
    <2>5. CASE SendFails(d)
      BY <2>5 DEF SendFails
    <2>6. CASE Remove(d)
      BY <2>6 DEF Remove
    <2>7. CASE Mark(d)
      BY <2>7 DEF Mark
    <2>8. CASE PassDone(d)
      BY <2>8 DEF PassDone, Idle
    <2>. QED
      BY <1>6, <2>1, <2>2, <2>3, <2>4, <2>5, <2>6, <2>7, <2>8 DEF DrainStep
  <1>. QED
    BY <1>1, <1>2, <1>3, <1>4, <1>5, <1>6 DEF Next, vars, Actors

(* The counts are numbers.                                                 *)
LEMMA Counted ==
  ASSUME IInv, NEW key \in Keys
  PROVE  /\ IsFiniteSet(OfKey(key)) /\ Cardinality(OfKey(key)) \in Nat
         /\ IsFiniteSet(Inserters(key)) /\ Cardinality(Inserters(key)) \in Nat
         /\ Cardinality(Savers) \in Nat
  <1>1. IsFiniteSet(OfKey(key)) /\ IsFiniteSet(Inserters(key)) /\ IsFiniteSet(Savers)
    <2>1. OfKey(key) \subseteq rows /\ Inserters(key) \subseteq Savers
      BY DEF OfKey, Inserters
    <2>. QED
      BY <2>1, RowsFinite, FS_Subset, ActorsAssumption DEF IInv
  <1>. QED
    BY <1>1, FS_CardinalityType

LEMMA RowsFiniteNext ==
  ASSUME IInv'
  PROVE  IsFiniteSet(rows')
  <1>1. nextId' \in Nat /\ \A r \in rows' : r.id \in 0..nextId'
    BY DEF IInv, RowsInv, Remembered, Row
  <1>. QED
    BY <1>1, FewIds DEF IInv, RowsInv

LEMMA CountedNext ==
  ASSUME IInv', NEW key \in Keys
  PROVE  /\ IsFiniteSet(OfKey(key)') /\ Cardinality(OfKey(key)') \in Nat
         /\ IsFiniteSet(Inserters(key)') /\ Cardinality(Inserters(key)') \in Nat
  <1>1. OfKey(key)' \subseteq rows' /\ Inserters(key)' \subseteq Savers
    BY DEF OfKey, Inserters
  <1>. QED
    BY <1>1, RowsFiniteNext, FS_Subset, FS_CardinalityType, ActorsAssumption

LEMMA FewerOfKey ==
  ASSUME IInv, IInv', Shrinks, NEW key \in Keys
  PROVE  Cardinality(OfKey(key)') <= Cardinality(OfKey(key))
  <1>1. \A r \in OfKey(key)' : \E s \in OfKey(key) : s.id = r.id
    BY DEF Shrinks, OfKey
  <1>2. \A r, s \in OfKey(key)' : r.id = s.id => r = s
    BY DEF IInv, RowsInv, OfKey
  <1>. QED
    BY <1>1, <1>2, Counted, FewerIds

LEMMA LookUpCounts ==
  ASSUME IInv, IInv', NEW c \in Savers, NEW k \in Keys, NEW at \in Stamps, LookUp(c, k, at),
         DuplicatesInv, NEW key \in Keys
  PROVE  Cardinality(OfKey(key)') + Cardinality(Inserters(key)') <= Cardinality(Savers)
  <1>1. Shrinks
    BY DEF LookUp, Shrinks
  <1>2. Cardinality(OfKey(key)') <= Cardinality(OfKey(key))
    BY <1>1, FewerOfKey
  <1>3. CASE Inserters(key)' \subseteq Inserters(key)
    <2>1. Cardinality(Inserters(key)') <= Cardinality(Inserters(key))
      BY <1>3, Counted, FS_Subset
    <2>. QED
      BY <1>2, <2>1, Counted, CountedNext DEF DuplicatesInv
  <1>4. CASE ~(Inserters(key)' \subseteq Inserters(key))
    <2>1. FirstMatch(rows, k) = {} /\ key = k
      <3>1. \A b \in Savers : b # c => op'[b] = op[b]
        BY DEF LookUp, Becomes, IInv, OpInv
      <3>2. c \in Inserters(key)'
        BY <1>4, <3>1 DEF Inserters
      <3>3. op'[c] = IF FirstMatch(rows, k) # {}
                       THEN [pc |-> "update", key |-> k]
                       ELSE [pc |-> "insert", key |-> k, at |-> at]
        BY SaverShape DEF LookUp, Becomes, IInv, OpInv
      <3>. QED
        BY <3>2, <3>3 DEF Inserters
    <2>2. OfKey(key) = {}
      <3>1. OfKey(key) \in SUBSET rows
        BY DEF OfKey
      <3>2. ASSUME OfKey(key) # {} PROVE FALSE
        <4>1. PICK m \in OfKey(key) : \A r \in OfKey(key) : r = m \/ Older(m, r)
          BY <3>1, <3>2, OldestFirst DEF IInv
        <4>2. m \in FirstMatch(rows, key)
          BY <4>1 DEF FirstMatch, OfKey
        <4>. QED
          BY <2>1, <4>2
      <3>. QED
        BY <3>2
    <2>3. Cardinality(OfKey(key)') = 0
      <3>1. OfKey(key)' = {}
        BY <2>2 DEF LookUp, OfKey
      <3>. QED
        BY <3>1, FS_EmptySet
    <2>4. Cardinality(Inserters(key)') <= Cardinality(Savers)
      <3>1. Inserters(key)' \subseteq Savers
        BY DEF Inserters
      <3>. QED
        BY <3>1, FS_Subset, ActorsAssumption
    <2>. QED
      BY <2>3, <2>4, Counted, CountedNext
  <1>. QED
    BY <1>3, <1>4

LEMMA InsertCounts ==
  ASSUME IInv, IInv', NEW c \in Savers, Insert(c), DuplicatesInv, NEW key \in Keys
  PROVE  Cardinality(OfKey(key)') + Cardinality(Inserters(key)') <= Cardinality(Savers)
  <1>1. PICK new \in Row : new.key = op[c].key /\ new \notin rows /\ rows' = rows \cup {new}
    BY InsertShape
  <1>2. \A b \in Savers : op'[b] = IF b = c THEN [pc |-> "cap", key |-> op[c].key] ELSE op[b]
    BY SaverShape DEF Insert, Becomes, IInv, OpInv
  <1>3. CASE key # op[c].key
    <2>1. OfKey(key)' = OfKey(key)
      BY <1>1, <1>3 DEF OfKey
    <2>2. Inserters(key)' \subseteq Inserters(key)
      BY <1>2 DEF Inserters
    <2>3. Cardinality(Inserters(key)') <= Cardinality(Inserters(key))
      BY <2>2, Counted, FS_Subset
    <2>. QED
      BY <2>1, <2>3, Counted, CountedNext DEF DuplicatesInv
  <1>4. CASE key = op[c].key
    <2>1. OfKey(key)' = OfKey(key) \cup {new} /\ new \notin OfKey(key)
      BY <1>1, <1>4 DEF OfKey
    <2>2. Cardinality(OfKey(key)') = Cardinality(OfKey(key)) + 1
      BY <2>1, Counted, FS_AddElement
    <2>3. Inserters(key)' = Inserters(key) \ {c} /\ c \in Inserters(key)
      BY <1>2, <1>4 DEF Inserters, Insert
    <2>4. Cardinality(Inserters(key)') = Cardinality(Inserters(key)) - 1
      BY <2>3, Counted, FS_RemoveElement
    <2>. QED
      BY <2>2, <2>4, Counted DEF DuplicatesInv
  <1>. QED
    BY <1>3, <1>4

LEMMA DuplicatesKept ==
  ASSUME IInv, IInv', DuplicatesInv, [Next]_vars
  PROVE  DuplicatesInv'
  <1>. SUFFICES ASSUME NEW key \in Keys
                PROVE  Cardinality(OfKey(key)') + Cardinality(Inserters(key)') <= Cardinality(Savers)
    BY DEF DuplicatesInv
  <1>1. CASE \E c \in Savers, k \in Keys, at \in Stamps : LookUp(c, k, at)
    BY <1>1, LookUpCounts
  <1>2. CASE \E c \in Savers : Insert(c)
    BY <1>2, InsertCounts
  <1>3. CASE /\ \A c \in Savers, k \in Keys, at \in Stamps : ~LookUp(c, k, at)
             /\ \A c \in Savers : ~Insert(c)
    <2>1. Cardinality(OfKey(key)') <= Cardinality(OfKey(key))
      BY <1>3, NoNewRow, FewerOfKey
    <2>2. Inserters(key)' \subseteq Inserters(key)
      BY <1>3, NoNewInserter
    <2>3. Cardinality(Inserters(key)') <= Cardinality(Inserters(key))
      BY <2>2, Counted, FS_Subset
    <2>. QED
      BY <2>1, <2>3, Counted, CountedNext DEF DuplicatesInv
  <1>. QED
    BY <1>1, <1>2, <1>3

(* "Stable key so one logical upload does not spawn hundreds of queue      *)
(* rows" (pendingSyncDedup.ts:3), for any number of callers: a key never   *)
(* has more rows than there are callers that may have looked it up before  *)
(* any of them inserted it.                                                *)
THEOREM RowsPerKeyBounded == Spec => []DuplicatesBounded
  <1>1. ASSUME Init PROVE DuplicatesInv
    <2>. SUFFICES ASSUME NEW key \in Keys
                  PROVE  Cardinality(OfKey(key)) + Cardinality(Inserters(key)) <= Cardinality(Savers)
      BY DEF DuplicatesInv
    <2>1. OfKey(key) = {} /\ Inserters(key) = {}
      BY <1>1 DEF Init, OfKey, Inserters, Idle, Actors
    <2>2. Cardinality(OfKey(key)) = 0 /\ Cardinality(Inserters(key)) = 0
      BY <2>1, FS_EmptySet
    <2>3. Cardinality(Savers) \in Nat
      BY ActorsAssumption, FS_CardinalityType
    <2>. QED
      BY <2>2, <2>3
  <1>2. ASSUME IInv, DuplicatesInv PROVE DuplicatesBounded
    <2>. SUFFICES ASSUME NEW key \in Keys
                  PROVE  Cardinality(OfKey(key)) <= Cardinality(Savers)
      BY DEF DuplicatesBounded, OfKey
    <2>. QED
      BY <1>2, Counted DEF DuplicatesInv
  <1>. QED
    BY <1>1, <1>2, TableStaysOk, DuplicatesKept, InitHolds, NextKeeps, PTL DEF Spec

-----------------------------------------------------------------------------
(* Back within the cap                                                     *)

(* What an eviction has to go by is finite, and shrinks with the table.    *)
LEMMA LeftCounted ==
  ASSUME IInv, NEW todo
  PROVE  IsFiniteSet(Left(todo)) /\ Cardinality(Left(todo)) \in Nat
  <1>1. Left(todo) \subseteq rows
    BY DEF Left
  <1>. QED
    BY <1>1, RowsFinite, FS_Subset, FS_CardinalityType DEF IInv

LEMMA LessLeft ==
  ASSUME IInv, IInv', Shrinks, NEW todo
  PROVE  Cardinality({r \in rows' : \A s \in todo : s.id # r.id}) <= Cardinality(Left(todo))
  <1>. DEFINE A == {r \in rows' : \A s \in todo : s.id # r.id}
  <1>1. \A r \in A : \E s \in Left(todo) : s.id = r.id
    BY DEF Shrinks, Left
  <1>2. \A r, s \in A : r.id = s.id => r = s
    BY DEF IInv, RowsInv
  <1>. HIDE DEF A
  <1>3. Cardinality(A) <= Cardinality(Left(todo))
    BY <1>1, <1>2, LeftCounted, FewerIds
  <1>. QED
    BY <1>3 DEF A

(* The sets are finite, so that their sizes compare.                       *)
LEMMA SaversCounted ==
  ASSUME NEW S \in SUBSET Savers
  PROVE  IsFiniteSet(S) /\ Cardinality(S) \in Nat
  BY ActorsAssumption, FS_Subset, FS_CardinalityType

(* LateFor, one caller at a time, after a step.                            *)
LateNext(late, c) ==
  op'[c].pc = "evict" =>
    /\ late[c] \subseteq Capping(op') \ {c}
    /\ Cardinality({r \in rows' : \A s \in op'[c].todo : s.id # r.id}) <= Cap + Cardinality(late[c])
    /\ \A d \in late[c] : op'[d].pc = "evict" => late[d] \subseteq late[c]

LEMMA CapInvNext ==
  ASSUME NEW late \in [Savers -> SUBSET Savers], \A c \in Savers : LateNext(late, c)
  PROVE  CapInv'
  BY DEF CapInv, LateFor, LateNext, Left

(* Savers that have no rows to evict before or after a step.               *)
Apart(c) == op'[c] = op[c] \/ {op[c].pc, op'[c].pc} \subseteq {"idle", "update", "insert"}

LEMMA SaversApart ==
  ASSUME IInv, [Next]_vars, ~Kill,
         \A c \in Savers : ~Insert(c) /\ ~SelectOverflow(c) /\ ~Evict(c),
         NEW e \in Savers
  PROVE  Apart(e)
  <1>1. e \in Actors /\ \A a \in Actors : \A next : Becomes(a, next) => op'[e] = IF e = a THEN next ELSE op[e]
    BY DEF Becomes, IInv, OpInv, Actors
  <1>2. ASSUME NEW c \in Savers, NEW key \in Keys, NEW at \in Stamps, LookUp(c, key, at)
        PROVE  Apart(e)
    <2>1. PICK next : Becomes(c, next) /\ next.pc \in {"update", "insert"} /\ op[c].pc = "idle"
      BY <1>2 DEF LookUp
    <2>. QED
      BY <1>1, <2>1 DEF Apart, Actors
  <1>3. ASSUME NEW c \in Savers, Update(c) PROVE Apart(e)
    BY <1>1, <1>3 DEF Update, Apart, Actors, Idle
  <1>4. ASSUME NEW a \in Screens \cup Drains, NEW next, Becomes(a, next) PROVE Apart(e)
    <2>1. a \in Actors /\ a # e
      BY ActorsAssumption DEF Actors
    <2>. QED
      BY <1>1, <1>4, <2>1 DEF Apart
  <1>5. ASSUME NEW a \in Screens, PlanCompaction(a) \/ CompactDelete(a) \/ CompactionDone(a)
        PROVE  Apart(e)
    BY <1>4, <1>5 DEF PlanCompaction, CompactDelete, CompactionDone
  <1>6. ASSUME NEW d \in Drains, DrainStep(d) \/ SendFails(d)
        PROVE  Apart(e)
    BY <1>4, <1>6 DEF DrainStep, PlanCompaction, CompactDelete, LoadSnapshot, SendSucceeds, SendFails,
      Remove, Mark, PassDone
  <1>7. CASE UNCHANGED vars
    BY <1>7 DEF vars, Apart
  <1>. QED
    BY <1>2, <1>3, <1>5, <1>6, <1>7 DEF Next, SaverStep

LEMMA QuietCap ==
  ASSUME IInv, IInv', CapInv, Shrinks, \A c \in Savers : Apart(c)
  PROVE  CapInv'
  <1>1. PICK late \in [Savers -> SUBSET Savers] : LateFor(late)
    BY DEF CapInv
  <1>2. Capping(op') = Capping(op)
    BY DEF Capping, Apart
  <1>3. ASSUME NEW c \in Savers, op'[c].pc = "evict"
        PROVE  /\ late[c] \subseteq Capping(op') \ {c}
               /\ Cardinality({r \in rows' : \A s \in op'[c].todo : s.id # r.id}) <= Cap + Cardinality(late[c])
               /\ \A d \in late[c] : op'[d].pc = "evict" => late[d] \subseteq late[c]
    <2>1. op'[c] = op[c]
      BY <1>3 DEF Apart
    <2>2. late[c] \subseteq Capping(op') \ {c}
      BY <1>1, <1>2, <1>3, <2>1 DEF LateFor
    <2>3. Cardinality(Left(op[c].todo)) <= Cap + Cardinality(late[c])
      BY <1>1, <1>3, <2>1 DEF LateFor
    <2>4. \A d \in late[c] : op'[d].pc = "evict" => late[d] \subseteq late[c]
      BY <1>1, <1>3, <2>1 DEF LateFor, Apart
    <2>5. Cardinality({r \in rows' : \A s \in op[c].todo : s.id # r.id}) <= Cardinality(Left(op[c].todo))
      BY LessLeft
    <2>6. Cardinality({r \in rows' : \A s \in op[c].todo : s.id # r.id}) \in Nat
      <3>1. IsFiniteSet({r \in rows' : \A s \in op[c].todo : s.id # r.id})
        BY RowsFiniteNext, FS_Subset
      <3>. QED
        BY <3>1, FS_CardinalityType
    <2>7. Cardinality({r \in rows' : \A s \in op[c].todo : s.id # r.id}) <= Cap + Cardinality(late[c])
      <3>1. Cardinality(late[c]) \in Nat /\ Cap \in Nat
        BY SaversCounted, BoundsAssumption
      <3>. QED
        BY <2>3, <2>5, <2>6, <3>1, LeftCounted
    <2>. QED
      BY <2>1, <2>2, <2>4, <2>7
  <1>. QED
    BY <1>3, CapInvNext DEF LateNext

LEMMA InsertCap ==
  ASSUME IInv, IInv', CapInv, NEW c \in Savers, Insert(c)
  PROVE  CapInv'
  <1>1. PICK late \in [Savers -> SUBSET Savers] : LateFor(late)
    BY DEF CapInv
  <1>. DEFINE later == [e \in Savers |-> IF e = c THEN {} ELSE late[e] \cup {c}]
  <1>2. PICK new \in Row : new \notin rows /\ rows' = rows \cup {new}
    BY InsertShape
  <1>3. \A e \in Savers : op'[e] = IF e = c THEN [pc |-> "cap", key |-> op[c].key] ELSE op[e]
    BY SaverShape DEF Insert, Becomes, IInv, OpInv
  <1>4. Capping(op') = Capping(op) \cup {c} /\ c \notin Capping(op)
    BY <1>3 DEF Capping, Insert
  <1>5. ASSUME NEW e \in Savers, op'[e].pc = "evict"
        PROVE  /\ later[e] \subseteq Capping(op') \ {e}
               /\ Cardinality({r \in rows' : \A s \in op'[e].todo : s.id # r.id}) <= Cap + Cardinality(later[e])
               /\ \A d \in later[e] : op'[d].pc = "evict" => later[d] \subseteq later[e]
    <2>1. e # c /\ op'[e] = op[e] /\ op[e].pc = "evict"
      BY <1>3, <1>5
    <2>2. /\ late[e] \subseteq Capping(op) \ {e}
          /\ Cardinality(Left(op[e].todo)) <= Cap + Cardinality(late[e])
          /\ \A d \in late[e] : op[d].pc = "evict" => late[d] \subseteq late[e]
      BY <1>1, <2>1 DEF LateFor
    <2>3. later[e] \subseteq Capping(op') \ {e}
      BY <1>4, <2>1, <2>2
    <2>4. \A d \in later[e] : op'[d].pc = "evict" => later[d] \subseteq later[e]
      BY <1>3, <2>1, <2>2
    <2>5. Cardinality(later[e]) = Cardinality(late[e]) + 1 /\ Cardinality(late[e]) \in Nat
      <3>1. c \notin late[e] /\ late[e] \in SUBSET Savers
        BY <1>4, <2>2
      <3>. QED
        BY <2>1, <3>1, SaversCounted, FS_AddElement
    <2>6. Cardinality({r \in rows' : \A s \in op[e].todo : s.id # r.id}) <= Cardinality(Left(op[e].todo)) + 1
      <3>1. IsFiniteSet(Left(op[e].todo) \cup {new})
            /\ Cardinality(Left(op[e].todo) \cup {new}) = Cardinality(Left(op[e].todo)) + 1
        BY <1>2, LeftCounted, FS_AddElement DEF Left
      <3>2. {r \in rows' : \A s \in op[e].todo : s.id # r.id} \subseteq Left(op[e].todo) \cup {new}
        BY <1>2 DEF Left
      <3>. QED
        BY <3>1, <3>2, FS_Subset
    <2>7. Cardinality({r \in rows' : \A s \in op[e].todo : s.id # r.id}) \in Nat
      <3>1. IsFiniteSet({r \in rows' : \A s \in op[e].todo : s.id # r.id})
        BY RowsFiniteNext, FS_Subset
      <3>. QED
        BY <3>1, FS_CardinalityType
    <2>8. Cardinality({r \in rows' : \A s \in op[e].todo : s.id # r.id}) <= Cap + Cardinality(later[e])
      <3>. HIDE DEF later
      <3>. QED
        BY <2>2, <2>5, <2>6, <2>7, LeftCounted, BoundsAssumption
    <2>. QED
      BY <2>1, <2>3, <2>4, <2>8
  <1>6. later \in [Savers -> SUBSET Savers]
    OBVIOUS
  <1>. HIDE DEF later
  <1>. QED
    BY <1>5, <1>6, CapInvNext DEF LateNext

LEMMA SelectOverflowNext ==
  ASSUME IInv, NEW c \in Savers, SelectOverflow(c)
  PROVE  /\ \A e \in Savers : e # c => op'[e] = op[e]
         /\ rows' = rows
         /\ \/ op'[c] = Idle /\ OverflowRows(rows, Cap) = {}
            \/ op'[c].pc = "evict" /\ op'[c].todo = OverflowRows(rows, Cap)
  <1>1. PICK surplus :
          /\ surplus = OverflowRows(rows, Cap)
          /\ Becomes(c, IF surplus = {} THEN Idle
                        ELSE [pc |-> "evict", key |-> op[c].key, todo |-> surplus])
    BY DEF SelectOverflow
  <1>2. PICK next : next = [pc |-> "evict", key |-> op[c].key, todo |-> surplus]
    OBVIOUS
  <1>3. next.pc = "evict" /\ next.todo = surplus
    BY <1>2
  <1>4. /\ \A e \in Savers : e # c => op'[e] = op[e]
        /\ op'[c] = IF surplus = {} THEN Idle ELSE next
    BY <1>1, <1>2, SaverShape DEF Becomes, IInv, OpInv
  <1>5. rows' = rows
    BY DEF SelectOverflow
  <1>. QED
    BY <1>1, <1>3, <1>4, <1>5

(* Finding no overflow, the table is within the cap.                       *)
LEMMA WithinCap ==
  ASSUME IInv, OverflowRows(rows, Cap) = {}
  PROVE  Cardinality(rows) <= Cap
  <1>1. Left(OverflowRows(rows, Cap)) = rows
    BY DEF Left
  <1>. QED
    BY <1>1, OverflowLeaves DEF IInv

LEMMA SelectCap ==
  ASSUME IInv, IInv', CapInv, NEW c \in Savers, SelectOverflow(c)
  PROVE  CapInv'
  <1>1. PICK late \in [Savers -> SUBSET Savers] : LateFor(late)
    BY DEF CapInv
  <1>2. CASE op'[c] = Idle /\ OverflowRows(rows, Cap) = {}
    <2>. DEFINE later == [e \in Savers |-> {}]
    <2>1. ASSUME NEW e \in Savers
          PROVE  Cardinality({r \in rows' : \A s \in op'[e].todo : s.id # r.id}) <= Cap + Cardinality(later[e])
      <3>1. {r \in rows' : \A s \in op'[e].todo : s.id # r.id} \subseteq rows
        BY SelectOverflowNext
      <3>2. Cardinality({r \in rows' : \A s \in op'[e].todo : s.id # r.id}) <= Cardinality(rows)
            /\ Cardinality({r \in rows' : \A s \in op'[e].todo : s.id # r.id}) \in Nat
            /\ Cardinality(rows) \in Nat
        BY <3>1, RowsFinite, FS_Subset, FS_CardinalityType DEF IInv
      <3>3. Cardinality(later[e]) = 0
        BY FS_EmptySet
      <3>. QED
        BY <1>2, <3>2, <3>3, WithinCap, BoundsAssumption
    <2>2. later \in [Savers -> SUBSET Savers]
      OBVIOUS
    <2>3. \A e \in Savers : LateNext(later, e)
      BY <2>1 DEF LateNext
    <2>. QED
      BY <2>2, <2>3, CapInvNext
  <1>3. CASE op'[c].pc = "evict" /\ op'[c].todo = OverflowRows(rows, Cap)
    <2>. DEFINE later == [e \in Savers |-> IF e = c THEN {} ELSE late[e]]
    <2>1. Capping(op') = Capping(op)
      BY <1>3, SelectOverflowNext DEF Capping, SelectOverflow
    <2>2. ASSUME NEW e \in Savers, e # c PROVE LateNext(later, e)
      <3>. SUFFICES ASSUME op'[e].pc = "evict" PROVE LateNext(later, e)
        BY DEF LateNext
      <3>1. op'[e] = op[e] /\ rows' = rows
        BY <2>2, SelectOverflowNext
      <3>2. /\ late[e] \subseteq Capping(op) \ {e}
            /\ Cardinality(Left(op[e].todo)) <= Cap + Cardinality(late[e])
            /\ \A d \in late[e] : op[d].pc = "evict" => late[d] \subseteq late[e]
        BY <1>1, <2>2, <3>1 DEF LateFor
      <3>3. \A d \in late[e] : op'[d].pc = "evict" => later[d] \subseteq later[e]
        BY <2>2, <3>2, SelectOverflowNext
      <3>. QED
        BY <2>1, <2>2, <3>1, <3>2, <3>3 DEF LateNext, Left
    <2>3. LateNext(later, c)
      <3>1. Cardinality(later[c]) = 0 /\ later[c] = {}
        BY FS_EmptySet
      <3>2. Cardinality({r \in rows' : \A s \in op'[c].todo : s.id # r.id}) <= Cap
        <4>1. {r \in rows' : \A s \in op'[c].todo : s.id # r.id} = Left(OverflowRows(rows, Cap))
          BY <1>3, SelectOverflowNext DEF Left
        <4>. QED
          BY <4>1, OverflowLeaves DEF IInv
      <3>. HIDE DEF later
      <3>3. Cardinality({r \in rows' : \A s \in op'[c].todo : s.id # r.id}) <= Cap + Cardinality(later[c])
        BY <3>1, <3>2, BoundsAssumption
      <3>. QED
        BY <3>1, <3>3 DEF LateNext
    <2>4. later \in [Savers -> SUBSET Savers]
      OBVIOUS
    <2>. HIDE DEF later
    <2>. QED
      BY <2>2, <2>3, <2>4, CapInvNext
  <1>. QED
    BY <1>2, <1>3, SelectOverflowNext

LEMMA EvictNext ==
  ASSUME IInv, NEW c \in Savers, Evict(c)
  PROVE  /\ \A e \in Savers : e # c => op'[e] = op[e]
         /\ op'[c] = Idle /\ op[c].pc = "evict"
         /\ rows' = Left(op[c].todo)
  BY SaverShape DEF Evict, Becomes, IInv, OpInv, Left

LEMMA EvictCap ==
  ASSUME IInv, IInv', CapInv, NEW c \in Savers, Evict(c)
  PROVE  CapInv'
  <1>1. PICK late \in [Savers -> SUBSET Savers] : LateFor(late)
    BY DEF CapInv
  <1>. DEFINE later == [e \in Savers |-> IF c \in late[e] THEN late[c] ELSE late[e]]
  <1>2. later \in [Savers -> SUBSET Savers]
    OBVIOUS
  <1>3. Capping(op') = Capping(op) \ {c}
    BY EvictNext DEF Capping, Idle
  <1>4. /\ late[c] \subseteq Capping(op) \ {c}
        /\ Cardinality(Left(op[c].todo)) <= Cap + Cardinality(late[c])
        /\ \A d \in late[c] : op[d].pc = "evict" => late[d] \subseteq late[c]
    BY <1>1, EvictNext DEF LateFor
  <1>5. ASSUME NEW e \in Savers, op'[e].pc = "evict" PROVE LateNext(later, e)
    <2>1. e # c /\ op'[e] = op[e] /\ op[e].pc = "evict"
      BY <1>5, EvictNext DEF Idle
    <2>2. /\ late[e] \subseteq Capping(op) \ {e}
          /\ Cardinality(Left(op[e].todo)) <= Cap + Cardinality(late[e])
          /\ \A d \in late[e] : op[d].pc = "evict" => late[d] \subseteq late[e]
      BY <1>1, <2>1 DEF LateFor
    <2>3. later[e] \subseteq Capping(op') \ {e} /\ c \notin later[e]
      BY <1>3, <1>4, <2>2, EvictNext
    <2>4. \A d \in later[e] : op'[d].pc = "evict" => later[d] \subseteq later[e]
      <3>1. ASSUME NEW d \in later[e], op'[d].pc = "evict" PROVE later[d] \subseteq later[e]
        <4>1. d \in Savers /\ op[d].pc = "evict"
          BY <1>2, <2>3, <3>1, EvictNext
        <4>. QED
          BY <1>4, <2>2, <3>1, <4>1
      <3>. QED
        BY <3>1
    <2>5. Cardinality({r \in rows' : \A s \in op[e].todo : s.id # r.id}) <= Cap + Cardinality(later[e])
      <3>1. CASE c \in late[e]
        <4>1. {r \in rows' : \A s \in op[e].todo : s.id # r.id} \subseteq Left(op[c].todo)
          BY EvictNext
        <4>2. Cardinality({r \in rows' : \A s \in op[e].todo : s.id # r.id}) <= Cardinality(Left(op[c].todo))
              /\ Cardinality({r \in rows' : \A s \in op[e].todo : s.id # r.id}) \in Nat
          BY <4>1, LeftCounted, FS_Subset, FS_CardinalityType
        <4>3. later[e] = late[c] /\ Cardinality(late[c]) \in Nat
          BY <3>1, SaversCounted
        <4>. HIDE DEF later
        <4>. QED
          BY <1>4, <4>2, <4>3, LeftCounted, BoundsAssumption
      <3>2. CASE c \notin late[e]
        <4>1. {r \in rows' : \A s \in op[e].todo : s.id # r.id} \subseteq Left(op[e].todo)
          BY EvictNext DEF Left
        <4>2. Cardinality({r \in rows' : \A s \in op[e].todo : s.id # r.id}) <= Cardinality(Left(op[e].todo))
              /\ Cardinality({r \in rows' : \A s \in op[e].todo : s.id # r.id}) \in Nat
          BY <4>1, LeftCounted, FS_Subset, FS_CardinalityType
        <4>3. later[e] = late[e] /\ Cardinality(late[e]) \in Nat
          BY <3>2, SaversCounted
        <4>. HIDE DEF later
        <4>. QED
          BY <2>2, <4>2, <4>3, LeftCounted, BoundsAssumption
      <3>. QED
        BY <3>1, <3>2
    <2>. HIDE DEF later
    <2>. QED
      BY <2>1, <2>3, <2>4, <2>5 DEF LateNext
  <1>6. \A e \in Savers : LateNext(later, e)
    BY <1>5 DEF LateNext
  <1>. QED
    BY <1>2, <1>6, CapInvNext

LEMMA CapKept ==
  ASSUME IInv, IInv', CapInv, [Next]_vars
  PROVE  CapInv'
  <1>1. CASE \E c \in Savers : Insert(c) \/ SelectOverflow(c) \/ Evict(c)
    BY <1>1, InsertCap, SelectCap, EvictCap
  <1>2. CASE Kill
    <2>1. PICK late : late \in [Savers -> SUBSET Savers]
      <3>1. [e \in Savers |-> {}] \in [Savers -> SUBSET Savers]
        OBVIOUS
      <3>. QED
        BY <3>1
    <2>2. \A c \in Savers : op'[c].pc # "evict"
      BY <1>2 DEF Kill, Actors, Idle
    <2>. QED
      BY <2>1, <2>2, CapInvNext DEF LateNext
  <1>3. CASE ~Kill /\ \A c \in Savers : ~Insert(c) /\ ~SelectOverflow(c) /\ ~Evict(c)
    BY <1>3, NoNewRow, SaversApart, QuietCap
  <1>. QED
    BY <1>1, <1>2, <1>3

(* A caller that returns leaves the table within the cap, up to the        *)
(* insertions whose eviction is still to come.                             *)
Restores ==
  \A c \in Savers :
    c \in Capping(op) /\ op'[c] = Idle /\ faults' = faults
    => Cardinality(rows') <= Cap + Cardinality(Capping(op'))

LEMMA ReturningRestores ==
  ASSUME IInv, IInv', CapInv, [Next]_vars
  PROVE  Restores
  <1>. SUFFICES ASSUME NEW c \in Savers, c \in Capping(op), op'[c] = Idle, faults' = faults
                PROVE  Cardinality(rows') <= Cap + Cardinality(Capping(op'))
    BY DEF Restores
  <1>1. ~Kill
    BY DEF Kill, IInv, RestInv
  <1>2. op[c].pc \in {"cap", "evict"} /\ op'[c].pc = "idle"
    BY DEF Capping, Idle
  <1>3. Capping(op') \in SUBSET Savers
    BY DEF Capping
  <1>4. SelectOverflow(c) \/ Evict(c)
    <2>1. \A e \in Savers : e # c => ~Insert(e) /\ ~SelectOverflow(e) /\ ~Evict(e)
      <3>1. ASSUME NEW e \in Savers, e # c, NEW next, Becomes(e, next) PROVE FALSE
        BY <1>2, <3>1 DEF Becomes, IInv, OpInv, Actors
      <3>. QED
        BY <3>1 DEF Insert, SelectOverflow, Evict
    <2>2. ~Insert(c)
      BY <1>2 DEF Insert
    <2>. QED
      BY <1>1, <1>2, <2>1, <2>2, SaversApart DEF Apart
  <1>5. CASE SelectOverflow(c)
    <2>1. OverflowRows(rows, Cap) = {} /\ rows' = rows
      BY <1>2, <1>5, SelectOverflowNext
    <2>2. Cardinality(rows) <= Cap /\ Cardinality(rows) \in Nat
      BY <2>1, WithinCap, RowsFinite, FS_CardinalityType DEF IInv
    <2>. QED
      BY <1>3, <2>1, <2>2, SaversCounted, BoundsAssumption
  <1>6. CASE Evict(c)
    <2>1. PICK late \in [Savers -> SUBSET Savers] : LateFor(late)
      BY DEF CapInv
    <2>2. /\ late[c] \subseteq Capping(op) \ {c}
          /\ Cardinality(Left(op[c].todo)) <= Cap + Cardinality(late[c])
      BY <1>6, <2>1, EvictNext DEF LateFor
    <2>3. Capping(op') = Capping(op) \ {c}
      BY <1>6, EvictNext DEF Capping, Idle
    <2>4. Cardinality(late[c]) <= Cardinality(Capping(op'))
      BY <1>3, <2>2, <2>3, SaversCounted, FS_Subset
    <2>5. Cardinality(late[c]) \in Nat /\ Cardinality(Capping(op')) \in Nat
      BY <1>3, SaversCounted
    <2>. QED
      BY <1>6, <2>2, <2>4, <2>5, EvictNext, LeftCounted, BoundsAssumption
  <1>. QED
    BY <1>4, <1>5, <1>6

(* "Enforce the cap by dropping the oldest rows"                           *)
(* (persistence.native.ts:922), for any number of callers and any cap: a   *)
(* call that inserted a row returns only when the table is back within the *)
(* cap, but for the insertions whose own eviction is still to come.        *)
THEOREM CapIsRestored == Spec => CapRestored
  <1>1. ASSUME Init PROVE CapInv
    <2>1. [e \in Savers |-> {}] \in [Savers -> SUBSET Savers]
      OBVIOUS
    <2>2. \A c \in Savers : op[c].pc # "evict"
      BY <1>1 DEF Init, Actors, Idle
    <2>. QED
      BY <2>1, <2>2 DEF CapInv, LateFor
  <1>. QED
    BY <1>1, TableStaysOk, CapKept, ReturningRestores, InitHolds, NextKeeps, PTL
    DEF Spec, CapRestored, Restores

-----------------------------------------------------------------------------
(* Nothing accepted is lost                                                *)

(* Known and KeptInv, one actor at a time, after a step.                   *)
KnownNext(key, todo) ==
  \/ key \in delivered' \cup evicted'
  \/ \E r \in rows' : r.key = key /\ \A s \in todo : s.id # r.id

KeptNext(a, o) ==
  /\ a \in Savers /\ o.pc \in {"update", "cap", "evict"} => KnownNext(o.key, {})
  /\ a \in Drains /\ o.pc = "remove" => o.row.key \in delivered'
  /\ a \in Screens \cup Drains /\ o.pc = "compact" => \A r \in o.todo : KnownNext(r.key, o.todo)

LEMMA KeptInvNext ==
  ASSUME \A key \in accepted' : KnownNext(key, {}), \A a \in Actors : KeptNext(a, op'[a])
  PROVE  KeptInv'
  BY DEF KeptInv, KeptNext, Known, KnownNext, Compacting, Actors

(* A row goes only with its key uploaded or given up.                      *)
KeysStay ==
  /\ delivered \subseteq delivered' /\ evicted \subseteq evicted'
  /\ \A s \in rows :
       \/ s.key \in delivered' \cup evicted'
       \/ \E r \in rows' : r.id = s.id /\ r.key = s.key

LEMMA KnownStays ==
  ASSUME KeysStay, NEW key, NEW todo, Known(key, todo)
  PROVE  KnownNext(key, todo)
  BY DEF KeysStay, Known, KnownNext

LEMMA KeptStep ==
  ASSUME IInv, KeptInv, KeysStay, NEW a \in Actors, NEW next, Becomes(a, next), KeptNext(a, next),
         \A key \in accepted' : key \in accepted \/ Known(key, {})
  PROVE  KeptInv'
  <1>1. \A key \in accepted' : KnownNext(key, {})
    BY KnownStays DEF KeptInv
  <1>2. ASSUME NEW b \in Actors PROVE KeptNext(b, op'[b])
    <2>1. CASE b = a
      <3>1. op'[b] = next
        BY <2>1 DEF Becomes, IInv, OpInv
      <3>. QED
        BY <2>1, <3>1
    <2>2. CASE b # a
      <3>1. op'[b] = op[b]
        BY <2>2 DEF Becomes, IInv, OpInv
      <3>2. KeptNext(b, op[b])
        BY KnownStays DEF KeptInv, KeptNext, Compacting, KeysStay
      <3>. QED
        BY <3>1, <3>2
    <2>. QED
      BY <2>1, <2>2
  <1>. QED
    BY <1>1, <1>2, KeptInvNext

LEMMA LookUpKept ==
  ASSUME IInv, KeptInv, NEW c \in Savers, NEW key \in Keys, NEW at \in Stamps, LookUp(c, key, at)
  PROVE  KeptInv'
  <1>1. KeysStay
    BY DEF LookUp, KeysStay
  <1>2. PICK next : Becomes(c, next) /\ KeptNext(c, next)
    <2>1. CASE FirstMatch(rows, key) # {}
      <3>1. KnownNext(key, {})
        BY <2>1 DEF FirstMatch, KnownNext, LookUp
      <3>2. KeptNext(c, [pc |-> "update", key |-> key])
        BY <3>1 DEF KeptNext
      <3>. QED
        BY <2>1, <3>2 DEF LookUp
    <2>2. CASE FirstMatch(rows, key) = {}
      <3>1. KeptNext(c, [pc |-> "insert", key |-> key, at |-> at])
        BY DEF KeptNext
      <3>. QED
        BY <2>2, <3>1 DEF LookUp
    <2>. QED
      BY <2>1, <2>2
  <1>. QED
    BY <1>1, <1>2, KeptStep DEF LookUp, Actors

LEMMA IdleKept ==
  ASSUME NEW a
  PROVE  KeptNext(a, Idle)
  BY DEF KeptNext, Idle

LEMMA UpdateKept ==
  ASSUME IInv, KeptInv, NEW c \in Savers, Update(c)
  PROVE  KeptInv'
  <1>1. KeysStay
    BY DEF Update, KeysStay
  <1>2. Known(op[c].key, {})
    BY DEF Update, KeptInv
  <1>. QED
    BY <1>1, <1>2, IdleKept, KeptStep DEF Update, Actors

LEMMA InsertKept ==
  ASSUME IInv, KeptInv, NEW c \in Savers, Insert(c)
  PROVE  KeptInv'
  <1>1. PICK new \in Row : new.key = op[c].key /\ rows' = rows \cup {new}
    BY InsertShape
  <1>2. KeysStay
    BY <1>1 DEF Insert, KeysStay
  <1>3. PICK next : next = [pc |-> "cap", key |-> op[c].key]
    OBVIOUS
  <1>4. KeptNext(c, next)
    <2>1. KnownNext(op[c].key, {})
      BY <1>1 DEF KnownNext
    <2>. QED
      BY <1>3, <2>1, SaverShape DEF KeptNext, IInv
  <1>. QED
    BY <1>2, <1>3, <1>4, KeptStep DEF Insert, Actors

LEMMA SelectOverflowKept ==
  ASSUME IInv, KeptInv, NEW c \in Savers, SelectOverflow(c)
  PROVE  KeptInv'
  <1>1. KeysStay
    BY DEF SelectOverflow, KeysStay
  <1>2. Known(op[c].key, {})
    BY DEF SelectOverflow, KeptInv
  <1>3. PICK surplus :
          Becomes(c, IF surplus = {} THEN Idle
                     ELSE [pc |-> "evict", key |-> op[c].key, todo |-> surplus])
    BY DEF SelectOverflow
  <1>4. PICK next : next = [pc |-> "evict", key |-> op[c].key, todo |-> surplus]
    OBVIOUS
  <1>5. KeptNext(c, next)
    BY <1>1, <1>2, <1>4, KnownStays, SaverShape DEF KeptNext, IInv
  <1>6. \A key \in accepted' : key \in accepted \/ Known(key, {})
    BY <1>2 DEF SelectOverflow
  <1>. QED
    BY <1>1, <1>3, <1>4, <1>5, <1>6, IdleKept, KeptStep DEF Actors

LEMMA EvictKept ==
  ASSUME IInv, KeptInv, NEW c \in Savers, Evict(c)
  PROVE  KeptInv'
  <1>1. KeysStay
    BY DEF Evict, KeysStay
  <1>2. Known(op[c].key, {})
    BY DEF Evict, KeptInv
  <1>. QED
    BY <1>1, <1>2, IdleKept, KeptStep DEF Evict, Actors

LEMMA PlanKept ==
  ASSUME IInv, KeptInv, NEW a \in Screens \cup Drains, PlanCompaction(a)
  PROVE  KeptInv'
  <1>1. KeysStay
    BY DEF PlanCompaction, KeysStay
  <1>2. PICK next : next = [pc |-> "compact", todo |-> DeleteRows(rows)]
    OBVIOUS
  <1>3. \A r \in DeleteRows(rows) : KnownNext(r.key, DeleteRows(rows))
    <2>1. ASSUME NEW r \in DeleteRows(rows) PROVE Known(r.key, DeleteRows(rows))
      <3>1. r \in rows
        BY DEF DeleteRows
      <3>2. PICK k \in rows : k.key = r.key /\ \A s \in DeleteRows(rows) : s.id # k.id
        BY <3>1, KeeperStays DEF IInv
      <3>. QED
        BY <3>2 DEF Known
    <2>. QED
      BY <1>1, <2>1, KnownStays
  <1>4. KeptNext(a, next)
    BY <1>2, <1>3, CompactorShape DEF KeptNext, IInv
  <1>. QED
    BY <1>1, <1>2, <1>4, KeptStep DEF PlanCompaction, Actors

(* The one step that takes a row of a key that must not be lost: the plan  *)
(* it follows spares another of the key.                                   *)
LEMMA CompactDeleteKept ==
  ASSUME IInv, KeptInv, OneCompaction, NEW a \in Screens \cup Drains, CompactDelete(a)
  PROVE  KeptInv'
  <1>1. PICK r \in op[a].todo :
          /\ rows' = WithoutIds(rows, {r.id})
          /\ Becomes(a, [pc |-> "compact", todo |-> op[a].todo \ {r}])
    BY DEF CompactDelete
  <1>2. PICK next : next = [pc |-> "compact", todo |-> op[a].todo \ {r}]
    OBVIOUS
  <1>3. \A t \in op[a].todo : Known(t.key, op[a].todo)
    BY DEF CompactDelete, KeptInv, Compacting
  <1>4. delivered' = delivered /\ evicted' = evicted /\ accepted' = accepted /\ op[a].pc = "compact"
    BY DEF CompactDelete
  <1>5. \A key : Known(key, op[a].todo) => KnownNext(key, {}) /\ KnownNext(key, op[a].todo \ {r})
    BY <1>1, <1>4 DEF Known, KnownNext, WithoutIds
  <1>6. ASSUME NEW key, Known(key, {}) PROVE KnownNext(key, {})
    <2>1. CASE key \in delivered \cup evicted
      BY <1>4, <2>1 DEF KnownNext
    <2>2. ASSUME NEW s \in rows, s.key = key PROVE KnownNext(key, {})
      <3>1. CASE s.id # r.id
        BY <1>1, <2>2, <3>1 DEF KnownNext, WithoutIds
      <3>2. CASE s.id = r.id
        <4>1. r \in Remembered
          BY <1>4, CompactorShape DEF IInv, Plans
        <4>2. r.key = key
          BY <2>2, <3>2, <4>1 DEF Remembered
        <4>. QED
          BY <1>3, <1>5, <4>2
      <3>. QED
        BY <3>1, <3>2
    <2>. QED
      BY <1>6, <2>1, <2>2 DEF Known
  <1>7. ASSUME NEW b \in Actors PROVE KeptNext(b, op'[b])
    <2>1. CASE b = a
      <3>1. op'[b] = next
        BY <1>1, <1>2, <2>1 DEF Becomes, IInv, OpInv
      <3>2. KeptNext(a, next)
        BY <1>2, <1>3, <1>5, ActorsAssumption DEF KeptNext
      <3>. QED
        BY <2>1, <3>1, <3>2
    <2>2. CASE b # a
      <3>1. op'[b] = op[b]
        BY <1>1, <2>2 DEF Becomes, IInv, OpInv
      <3>2. b \in Screens \cup Drains => op[b].pc # "compact"
        BY <1>4, <2>2 DEF OneCompaction, Compacting
      <3>3. KeptNext(b, op[b])
        BY <1>4, <1>6, <3>2 DEF KeptInv, KeptNext
      <3>. QED
        BY <3>1, <3>3
    <2>. QED
      BY <2>1, <2>2
  <1>. QED
    BY <1>4, <1>6, <1>7, KeptInvNext DEF KeptInv

LEMMA CompactionDoneKept ==
  ASSUME IInv, KeptInv, NEW a \in Screens, CompactionDone(a)
  PROVE  KeptInv'
  <1>1. KeysStay
    BY DEF CompactionDone, KeysStay
  <1>. QED
    BY <1>1, IdleKept, KeptStep DEF CompactionDone, Actors

LEMMA LoadSnapshotKept ==
  ASSUME IInv, KeptInv, NEW d \in Drains, LoadSnapshot(d)
  PROVE  KeptInv'
  <1>1. KeysStay
    BY DEF LoadSnapshot, KeysStay
  <1>2. KeptNext(d, [pc |-> "send", todo |-> rows])
    BY DEF KeptNext
  <1>. QED
    BY <1>1, <1>2, KeptStep DEF LoadSnapshot, Actors

LEMMA SendSucceedsKept ==
  ASSUME IInv, KeptInv, NEW d \in Drains, SendSucceeds(d)
  PROVE  KeptInv'
  <1>1. KeysStay
    BY DEF SendSucceeds, KeysStay
  <1>2. PICK r \in op[d].todo :
          /\ delivered' = delivered \cup {r.key}
          /\ Becomes(d, [pc |-> "remove", row |-> r, todo |-> op[d].todo \ {r}])
    BY DEF SendSucceeds, NextInLine
  <1>3. PICK next : next = [pc |-> "remove", row |-> r, todo |-> op[d].todo \ {r}]
    OBVIOUS
  <1>4. KeptNext(d, next)
    BY <1>2, <1>3 DEF KeptNext
  <1>. QED
    BY <1>1, <1>2, <1>3, <1>4, KeptStep DEF SendSucceeds, Actors

LEMMA SendFailsKept ==
  ASSUME IInv, KeptInv, NEW d \in Drains, SendFails(d)
  PROVE  KeptInv'
  <1>1. KeysStay
    BY DEF SendFails, KeysStay
  <1>2. PICK r : Becomes(d, [pc |-> "mark", row |-> r, todo |-> op[d].todo \ {r}])
    BY DEF SendFails
  <1>3. KeptNext(d, [pc |-> "mark", row |-> r, todo |-> op[d].todo \ {r}])
    BY DEF KeptNext
  <1>. QED
    BY <1>1, <1>2, <1>3, KeptStep DEF SendFails, Actors

LEMMA RemoveKept ==
  ASSUME IInv, KeptInv, NEW d \in Drains, Remove(d)
  PROVE  KeptInv'
  <1>1. op[d].row \in Remembered /\ op[d].row.key \in delivered
    BY HandledStage DEF Remove, KeptInv
  <1>2. KeysStay
    BY <1>1 DEF Remove, KeysStay, WithoutIds, Remembered
  <1>3. KeptNext(d, [pc |-> "send", todo |-> op[d].todo])
    BY DEF KeptNext
  <1>. QED
    BY <1>2, <1>3, KeptStep DEF Remove, Actors

LEMMA MarkKept ==
  ASSUME IInv, KeptInv, NEW d \in Drains, Mark(d)
  PROVE  KeptInv'
  <1>1. op[d].row.attempts + 1 \in Nat
    BY HandledStage DEF Mark, Remembered, Row
  <1>2. \A s \in rows : \E r \in rows' : r.id = s.id /\ r.key = s.key
    BY <1>1, MarkedRows DEF Mark, IInv
  <1>3. KeysStay
    BY <1>2 DEF Mark, KeysStay
  <1>4. KeptNext(d, [pc |-> "send", todo |-> op[d].todo])
    BY DEF KeptNext
  <1>. QED
    BY <1>3, <1>4, KeptStep DEF Mark, Actors

LEMMA PassDoneKept ==
  ASSUME IInv, KeptInv, NEW d \in Drains, PassDone(d)
  PROVE  KeptInv'
  <1>1. KeysStay
    BY DEF PassDone, KeysStay
  <1>. QED
    BY <1>1, IdleKept, KeptStep DEF PassDone, Actors

LEMMA KillKept ==
  ASSUME KeptInv, Kill
  PROVE  KeptInv'
  <1>1. KeysStay
    BY DEF Kill, KeysStay
  <1>2. \A key \in accepted' : KnownNext(key, {})
    BY <1>1, KnownStays DEF Kill, KeptInv
  <1>3. \A a \in Actors : KeptNext(a, op'[a])
    BY IdleKept DEF Kill
  <1>. QED
    BY <1>2, <1>3, KeptInvNext

LEMMA NextKept ==
  ASSUME IInv, KeptInv, OneCompaction, [Next]_vars
  PROVE  KeptInv'
  <1>1. CASE UNCHANGED vars
    BY <1>1 DEF vars, KeptInv, Known
  <1>2. ASSUME NEW c \in Savers, NEW key \in Keys, NEW at \in Stamps, LookUp(c, key, at)
        PROVE  KeptInv'
    BY <1>2, LookUpKept
  <1>3. ASSUME NEW c \in Savers, SaverStep(c) PROVE KeptInv'
    BY <1>3, UpdateKept, InsertKept, SelectOverflowKept, EvictKept DEF SaverStep
  <1>4. ASSUME NEW c \in Screens, PlanCompaction(c) \/ CompactDelete(c) \/ CompactionDone(c)
        PROVE  KeptInv'
    BY <1>4, PlanKept, CompactDeleteKept, CompactionDoneKept
  <1>5. ASSUME NEW d \in Drains, DrainStep(d) \/ SendFails(d) PROVE KeptInv'
    BY <1>5, PlanKept, CompactDeleteKept, LoadSnapshotKept, SendSucceedsKept, SendFailsKept,
      RemoveKept, MarkKept, PassDoneKept DEF DrainStep
  <1>. QED
    BY <1>1, <1>2, <1>3, <1>4, <1>5, KillKept DEF Next

LEMMA KeptSuffices ==
  ASSUME KeptInv
  PROVE  KeyNotForgotten
  BY DEF KeptInv, Known, KeyNotForgotten, Queued

(* What enqueuePendingSync has accepted is uploaded, or still queued, or   *)
(* was given up to the cap, for any number of callers and drains and any   *)
(* interleaving in which no two compactions are under way at once.         *)
THEOREM AcceptedIsKept == Spec /\ []OneCompaction => []KeyNotForgotten
  <1>1. ASSUME Init PROVE KeptInv
    BY <1>1 DEF Init, KeptInv, Actors, Idle
  <1>2. IInv /\ KeptInv /\ OneCompaction /\ [Next]_vars => KeptInv'
    BY NextKept
  <1>3. KeptInv => KeyNotForgotten
    BY KeptSuffices
  <1>. QED
    BY <1>1, <1>2, <1>3, TableStaysOk, PTL DEF Spec

(* So the queue loses nothing it accepted where only one of the screens    *)
(* and drains ever compacts, whatever the callers and faults.              *)
THEOREM OneCompactorLosesNothing ==
  ASSUME NEW u, Screens \cup Drains = {u}
  PROVE  Spec => []KeyNotForgotten
  <1>1. OneCompaction
    BY DEF OneCompaction
  <1>. QED
    BY <1>1, AcceptedIsKept, PTL

=============================================================================
