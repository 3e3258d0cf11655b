-------------------------- MODULE AuditCallsProofs --------------------------
(***************************************************************************)
(* What the two users of AuditCalls keep: DeclarationSync, that the marker *)
(* of a declaration is no lie; MappingDraft, that a quiet save of a draft  *)
(* is not lost; and both their types - for any screens and any number of   *)
(* versions, rows and faults, and any kinds of declarations.               *)
(***************************************************************************)
EXTENDS DeclarationSync, SequenceTheorems, FiniteSetTheorems, TLAPS

(* The fields of the calls and of the drain; no set of payloads or ids is  *)
(* needed.                                                                 *)
Shaped(o) ==
  o = [pc |-> o.pc, kind |-> o.kind, body |-> o.body, id |-> o.id, retry |-> o.retry]

ShapeInv ==
  /\ call = [c \in Callers |-> call[c]]
  /\ \A c \in Callers : call[c].pc # "idle" => Shaped(call[c])
  /\ drain.pc \in {"sent", "marked", "failed"} =>
       drain = [pc |-> drain.pc, todo |-> drain.todo, row |-> drain.row]
  /\ \E S : log \in Seq(S)

Has(k, v, events) == [kind |-> k, body |-> v] \in ToSet(events)
InLog(k, events) == \E v : Has(k, v, events)

(* Past the post, a call or a drain has had its event logged.              *)
PostedInv ==
  /\ \A c \in Callers : call[c].pc \in {"find", "delete", "mark"} => Has(call[c].kind, call[c].body, log)
  /\ drain.pc \in {"sent", "marked"} => Has(drain.row.key, drain.row.body, log)

MarkedInv == \A k \in marker : InLog(k, log)

IInv == ShapeInv /\ PostedInv /\ MarkedInv

-----------------------------------------------------------------------------
(* The log is a sequence in which an event moves to the end.               *)

(* Removing one element shortens a sequence by one.                        *)
LEMMA RemoveAtType ==
  ASSUME NEW S, NEW s \in Seq(S), NEW i \in DOMAIN s
  PROVE  /\ RemoveAt(s, i) \in Seq(S)
         /\ Len(RemoveAt(s, i)) = Len(s) - 1
         /\ \A j \in 1..Len(s) - 1 : RemoveAt(s, i)[j] = IF j < i THEN s[j] ELSE s[j + 1]
  <1>. DEFINE front == SubSeq(s, 1, i - 1)
              back == SubSeq(s, i + 1, Len(s))
  <1>1. i \in 1..Len(s) /\ Len(s) \in Nat
    OBVIOUS
  <1>2. /\ front \in Seq(S) /\ Len(front) = i - 1
        /\ \A j \in 1..i - 1 : front[j] = s[j]
    BY <1>1, SubSeqProperties
  <1>3. /\ back \in Seq(S) /\ Len(back) = Len(s) - i
        /\ \A j \in 1..Len(s) - i : back[j] = s[i + j]
    BY <1>1, SubSeqProperties
  <1>. HIDE DEF front, back
  <1>4. RemoveAt(s, i) = front \o back
    BY DEF RemoveAt, front, back
  <1>5. /\ front \o back \in Seq(S) /\ Len(front \o back) = Len(s) - 1
        /\ \A j \in 1..Len(s) - 1 :
             (front \o back)[j] = IF j < i THEN front[j] ELSE back[j - (i - 1)]
    BY <1>1, <1>2, <1>3, ConcatProperties
  <1>6. ASSUME NEW j \in 1..Len(s) - 1
        PROVE  (front \o back)[j] = IF j < i THEN s[j] ELSE s[j + 1]
    <2>1. CASE j < i
      BY <1>1, <1>2, <1>5, <2>1
    <2>2. CASE ~(j < i)
      <3>1. j - (i - 1) \in 1..Len(s) - i /\ i + (j - (i - 1)) = j + 1
        BY <1>1, <2>2
      <3>. QED
        BY <1>3, <1>5, <2>2, <3>1
    <2>. QED
      BY <2>1, <2>2
  <1>. QED
    BY <1>4, <1>5, <1>6

(* An element that is moved to the end stays one.                          *)
LEMMA MoveToEnd ==
  ASSUME NEW S, NEW s \in Seq(S), NEW i \in DOMAIN s,
         NEW t, t = Append(RemoveAt(s, i), s[i])
  PROVE  /\ t \in Seq(S)
         /\ Len(t) = Len(s)
         /\ t # <<>>
         /\ Last(t) = s[i]
         /\ ToSet(t) = ToSet(s)
  <1>. DEFINE r == RemoveAt(s, i)
  <1>1. /\ r \in Seq(S) /\ Len(r) = Len(s) - 1
        /\ \A j \in 1..Len(s) - 1 : r[j] = IF j < i THEN s[j] ELSE s[j + 1]
    BY RemoveAtType
  <1>2. i \in 1..Len(s) /\ Len(s) \in Nat /\ s[i] \in S
    OBVIOUS
  <1>. HIDE DEF r
  <1>3. t = Append(r, s[i])
    BY DEF r
  <1>4. /\ t \in Seq(S) /\ Len(t) = Len(s) /\ DOMAIN t = 1..Len(s)
        /\ t[Len(s)] = s[i]
        /\ \A j \in 1..Len(s) - 1 : t[j] = r[j]
    BY <1>1, <1>2, <1>3
  <1>5. t # <<>> /\ Last(t) = s[i]
    BY <1>2, <1>4 DEF Last
  <1>6. \A j \in 1..Len(s) : \E k \in 1..Len(s) : t[k] = s[j]
    <2>1. ASSUME NEW j \in 1..Len(s) PROVE \E k \in 1..Len(s) : t[k] = s[j]
      <3>1. CASE j = i
        BY <1>2, <1>4, <3>1
      <3>2. CASE j < i
        <4>1. j \in 1..Len(s) - 1
          BY <1>2, <3>2
        <4>2. t[j] = s[j]
          BY <1>1, <1>4, <3>2, <4>1
        <4>. QED
          BY <4>2
      <3>3. CASE j > i
        <4>. DEFINE k == j - 1
        <4>1. k \in 1..Len(s) - 1 /\ k \in 1..Len(s) /\ ~(k < i) /\ k + 1 = j
          BY <1>2, <3>3
        <4>. HIDE DEF k
        <4>2. t[k] = s[j]
          BY <1>1, <1>4, <4>1
        <4>. QED
          BY <4>1, <4>2
      <3>4. j = i \/ j < i \/ j > i
        BY <1>2
      <3>. QED
        BY <3>1, <3>2, <3>3, <3>4
    <2>. QED
      BY <2>1
  <1>7. \A k \in 1..Len(s) : \E j \in 1..Len(s) : t[k] = s[j]
    <2>1. ASSUME NEW k \in 1..Len(s) PROVE \E j \in 1..Len(s) : t[k] = s[j]
      <3>1. CASE k = Len(s)
        BY <1>2, <1>4, <3>1
      <3>2. CASE k # Len(s)
        <4>1. k \in 1..Len(s) - 1 /\ k + 1 \in 1..Len(s)
          BY <1>2, <3>2
        <4>. QED
          BY <1>1, <1>4, <4>1
      <3>. QED
        BY <3>1, <3>2
    <2>. QED
      BY <2>1
  <1>8. ToSet(t) = ToSet(s)
    <2>1. ToSet(t) = {t[k] : k \in 1..Len(s)} /\ ToSet(s) = {s[k] : k \in 1..Len(s)}
      BY <1>2, <1>4 DEF ToSet
    <2>2. ToSet(t) \subseteq ToSet(s)
      BY <1>7, <2>1
    <2>3. ToSet(s) \subseteq ToSet(t)
      BY <1>6, <2>1
    <2>. QED
      BY <2>2, <2>3
  <1>. QED
    BY <1>4, <1>5, <1>8

(* What an appended element adds.                                          *)
LEMMA AppendedLast ==
  ASSUME NEW S, NEW s \in Seq(S), NEW e \in S
  PROVE  /\ Append(s, e) \in Seq(S)
         /\ Len(Append(s, e)) = Len(s) + 1
         /\ Append(s, e) # <<>>
         /\ Last(Append(s, e)) = e
         /\ ToSet(Append(s, e)) = ToSet(s) \cup {e}
  <1>1. /\ Append(s, e) \in Seq(S) /\ Len(Append(s, e)) = Len(s) + 1
        /\ Append(s, e)[Len(s) + 1] = e
        /\ \A i \in 1..Len(s) : Append(s, e)[i] = s[i]
    OBVIOUS
  <1>2. ToSet(Append(s, e)) = ToSet(s) \cup {e}
    BY <1>1 DEF ToSet
  <1>. QED
    BY <1>1, <1>2 DEF Last

(* Neither makes an element appear twice.                                  *)
Distinct(s) == \A i, j \in DOMAIN s : s[i] = s[j] => i = j

LEMMA MovedDistinct ==
  ASSUME NEW S, NEW s \in Seq(S), NEW i \in DOMAIN s, Distinct(s),
         NEW t, t = Append(RemoveAt(s, i), s[i])
  PROVE  Distinct(t)
  <1>. DEFINE r == RemoveAt(s, i)
              old(j) == IF j < i THEN j ELSE j + 1
  <1>1. /\ r \in Seq(S) /\ Len(r) = Len(s) - 1
        /\ \A j \in 1..Len(s) - 1 : r[j] = s[old(j)]
    BY RemoveAtType
  <1>2. i \in 1..Len(s) /\ Len(s) \in Nat
    OBVIOUS
  <1>. HIDE DEF r
  <1>3. t = Append(r, s[i])
    BY DEF r
  <1>4. /\ DOMAIN t = 1..Len(s) /\ t[Len(s)] = s[i]
        /\ \A j \in 1..Len(s) - 1 : t[j] = s[old(j)]
    BY <1>1, <1>2, <1>3
  <1>5. \A j \in 1..Len(s) - 1 : old(j) \in 1..Len(s) /\ old(j) # i
    BY <1>2
  <1>6. \A j, k \in 1..Len(s) - 1 : old(j) = old(k) => j = k
    BY <1>2
  <1>. HIDE DEF old
  <1>7. \A j, k \in 1..Len(s) : s[j] = s[k] => j = k
    BY DEF Distinct
  <1>8. ASSUME NEW j \in 1..Len(s), NEW k \in 1..Len(s), t[j] = t[k] PROVE j = k
    <2>1. CASE j = Len(s) /\ k # Len(s)
      <3>1. k \in 1..Len(s) - 1
        BY <1>2, <2>1
      <3>. QED
        BY <1>2, <1>4, <1>5, <1>7, <1>8, <2>1, <3>1
    <2>2. CASE j # Len(s) /\ k = Len(s)
      <3>1. j \in 1..Len(s) - 1
        BY <1>2, <2>2
      <3>. QED
        BY <1>2, <1>4, <1>5, <1>7, <1>8, <2>2, <3>1
    <2>3. CASE j # Len(s) /\ k # Len(s)
      <3>1. j \in 1..Len(s) - 1 /\ k \in 1..Len(s) - 1
        BY <1>2, <2>3
      <3>2. s[old(j)] = s[old(k)]
        BY <1>4, <1>8, <3>1
      <3>. QED
        BY <1>5, <1>6, <1>7, <3>1, <3>2
    <2>. QED
      BY <2>1, <2>2, <2>3
  <1>. QED
    BY <1>4, <1>8 DEF Distinct

LEMMA AppendedDistinct ==
  ASSUME NEW S, NEW s \in Seq(S), NEW e \in S, e \notin ToSet(s), Distinct(s)
  PROVE  Distinct(Append(s, e))
  <1>1. /\ DOMAIN Append(s, e) = 1..Len(s) + 1 /\ Append(s, e)[Len(s) + 1] = e
        /\ \A j \in 1..Len(s) : Append(s, e)[j] = s[j]
    OBVIOUS
  <1>2. \A j \in 1..Len(s) : s[j] # e
    BY DEF ToSet
  <1>3. \A j, k \in 1..Len(s) : s[j] = s[k] => j = k
    BY DEF Distinct
  <1>4. Len(s) \in Nat /\ \A j \in 1..Len(s) + 1 : j = Len(s) + 1 \/ j \in 1..Len(s)
    OBVIOUS
  <1>. QED
    BY <1>1, <1>2, <1>3, <1>4 DEF Distinct

(* Of some places in a sequence one is the last.                           *)
LEMMA LastPlace ==
  ASSUME NEW n \in Nat, NEW T, T \subseteq 1..n, T # {}
  PROVE  \E x \in T : \A y \in T : x >= y
  <1>. DEFINE tails == {y..n : y \in T}
  <1>1. IsWellFoundedOn(StrictSubsetOrdering(1..n), SUBSET (1..n))
    <2>1. IsFiniteSet(1..n)
      BY FS_Interval
    <2>. QED
      BY <2>1, FS_StrictSubsetOrderingWellFounded, FS_FiniteSubsetsOfFinite
  <1>2. tails \subseteq SUBSET (1..n)
    BY \A y \in T : y..n \subseteq 1..n
  <1>3. tails # {}
    OBVIOUS
  <1>4. \E a \in tails : \A b \in tails : ~(<<b, a>> \in StrictSubsetOrdering(1..n))
    <2>. HIDE DEF tails
    <2>. QED
      BY <1>1, <1>2, <1>3, WFMin
  <1>5. PICK x \in T : \A y \in T : ~(<<y..n, x..n>> \in StrictSubsetOrdering(1..n))
    BY <1>4
  <1>6. ASSUME NEW y \in T, y > x PROVE FALSE
    <2>1. y..n \subseteq x..n /\ x \in x..n /\ x \notin y..n /\ x..n \subseteq 1..n
      BY <1>6
    <2>. QED
      BY <1>5, <2>1 DEF StrictSubsetOrdering
  <1>. QED
    BY <1>6

-----------------------------------------------------------------------------
(* The log forgets no event when one is appended.                          *)
LEMMA AppendKeeps ==
  ASSUME \E S : log \in Seq(S), NEW k, NEW v, log' = AppendEvent(k, v)
  PROVE  /\ \E S : log' \in Seq(S)
         /\ ToSet(log') = ToSet(log) \cup {[kind |-> k, body |-> v]}
         /\ log' # <<>> /\ Last(log') = [kind |-> k, body |-> v]
  <1>. DEFINE e == [kind |-> k, body |-> v]
              i == CHOOSE j \in DOMAIN log : log[j] = e
  <1>1. PICK S : log \in Seq(S)
    OBVIOUS
  <1>2. CASE e \in ToSet(log)
    <2>1. i \in DOMAIN log /\ log[i] = e
      BY <1>2 DEF ToSet
    <2>2. log' = Append(RemoveAt(log, i), log[i])
      BY <1>2, <2>1 DEF AppendEvent
    <2>. HIDE DEF i, e
    <2>3. log' \in Seq(S) /\ ToSet(log') = ToSet(log) /\ log' # <<>> /\ Last(log') = log[i]
      BY <1>1, <2>1, <2>2, MoveToEnd
    <2>. QED
      BY <1>2, <2>1, <2>3 DEF e
  <1>3. CASE e \notin ToSet(log)
    <2>1. log' = Append(log, e)
      BY <1>3 DEF AppendEvent
    <2>. HIDE DEF e
    <2>2. log \in Seq(S \cup {e})
      BY <1>1
    <2>3. /\ log' \in Seq(S \cup {e}) /\ ToSet(log') = ToSet(log) \cup {e}
          /\ log' # <<>> /\ Last(log') = e
      BY <2>1, <2>2, AppendedLast
    <2>. QED
      BY <2>3 DEF e
  <1>. QED
    BY <1>2, <1>3

(* Once logged, a kind stays logged.                                       *)
LogGrows == log' = log \/ \E k, v : log' = AppendEvent(k, v)

LEMMA LoggedStays ==
  ASSUME ShapeInv, LogGrows
  PROVE  /\ \E S : log' \in Seq(S)
         /\ \A k, v : Has(k, v, log) => Has(k, v, log')
         /\ \A k : InLog(k, log) => InLog(k, log')
  <1>1. CASE log' = log
    BY <1>1 DEF ShapeInv
  <1>2. ASSUME NEW k, NEW v, log' = AppendEvent(k, v)
        PROVE  (\E S : log' \in Seq(S)) /\ ToSet(log) \subseteq ToSet(log')
    BY <1>2, AppendKeeps DEF ShapeInv
  <1>. QED
    BY <1>1, <1>2 DEF LogGrows, Has, InLog

LEMMA AppendLogs ==
  ASSUME ShapeInv, NEW k, NEW v, log' = AppendEvent(k, v)
  PROVE  Has(k, v, log')
  BY AppendKeeps DEF ShapeInv, Has

-----------------------------------------------------------------------------
(* What a call may do next, beside changing rows: it keeps its event, and  *)
(* goes past the post or marks only what is logged.                        *)
LEMMA CallMoves ==
  ASSUME IInv, NEW c \in Callers, NEW next, Becomes(c, next), LogGrows,
         next = Idle \/ Shaped(next),
         next.pc \in {"find", "delete", "mark"} => Has(next.kind, next.body, log'),
         \A k \in marker' : k \in marker \/ InLog(k, log'),
         UNCHANGED drain
  PROVE  IInv'
  <1>. USE DEF IInv
  <1>1. /\ \E S : log' \in Seq(S)
        /\ \A k, v : Has(k, v, log) => Has(k, v, log')
        /\ \A k : InLog(k, log) => InLog(k, log')
    BY LoggedStays
  <1>2. \A d \in Callers : call'[d] = IF d = c THEN next ELSE call[d]
    BY DEF ShapeInv, Becomes
  <1>3. call' = [d \in Callers |-> call'[d]]
    BY <1>2 DEF ShapeInv, Becomes
  <1>4. \A d \in Callers : call'[d].pc # "idle" => Shaped(call'[d])
    <2>1. Idle.pc = "idle"
      BY DEF Idle
    <2>. QED
      BY <1>2, <2>1 DEF ShapeInv
  <1>5. ShapeInv'
    BY <1>1, <1>3, <1>4 DEF ShapeInv, Shaped
  <1>6. PostedInv'
    BY <1>1, <1>2 DEF PostedInv
  <1>7. MarkedInv'
    BY <1>1 DEF MarkedInv
  <1>. QED
    BY <1>5, <1>6, <1>7

LEMMA BeginKeeps ==
  ASSUME IInv, NEW c \in Callers, NEW k, NEW v, Begin(c, k, v)
  PROVE  IInv'
  <1>. DEFINE next == [pc |-> "lookup", kind |-> k, body |-> v, id |-> 0, retry |-> FALSE]
  <1>1. Becomes(c, next) /\ Shaped(next) /\ next.pc = "lookup"
    BY DEF Begin, Shaped
  <1>2. LogGrows /\ marker' \subseteq marker /\ UNCHANGED drain
    BY DEF Begin, LogGrows
  <1>. HIDE DEF next
  <1>. QED
    BY <1>1, <1>2, CallMoves

(* A call that is to queue its event again keeps it.                       *)
LEMMA RetryTo ==
  ASSUME NEW o, Shaped(o), NEW next, next = [o EXCEPT !.pc = "lookup", !.retry = TRUE]
  PROVE  Shaped(next) /\ next.pc = "lookup"
  <1>. next = [pc |-> "lookup", kind |-> o.kind, body |-> o.body, id |-> o.id, retry |-> TRUE]
    BY DEF Shaped
  <1>. QED
    BY DEF Shaped

LEMMA CallGoes ==
  ASSUME IInv, NEW c \in Callers, ~At(c, "idle"), LogGrows, NEW pc, NEW id,
         Becomes(c, [call[c] EXCEPT !.pc = pc, !.id = id]), UNCHANGED <<marker, drain>>,
         pc \in {"find", "delete", "mark"} => Has(call[c].kind, call[c].body, log')
  PROVE  IInv'
  <1>1. PICK o : o = call[c] /\ Shaped(o)
    BY DEF IInv, ShapeInv, At
  <1>2. PICK next : next = [o EXCEPT !.pc = pc, !.id = id]
    OBVIOUS
  <1>3. next = [pc |-> pc, kind |-> o.kind, body |-> o.body, id |-> id, retry |-> o.retry]
    BY <1>1, <1>2 DEF Shaped
  <1>4. Shaped(next) /\ next.pc = pc /\ next.kind = call[c].kind /\ next.body = call[c].body
    BY <1>1, <1>3 DEF Shaped
  <1>5. Becomes(c, next)
    BY <1>1, <1>2
  <1>. QED
    BY <1>4, <1>5, CallMoves

LEMMA CallEnds ==
  ASSUME IInv, NEW c \in Callers, Becomes(c, Idle), UNCHANGED <<drain, log>>,
         \A k \in marker' : k \in marker \/ InLog(k, log)
  PROVE  IInv'
  <1>1. Idle.pc = "idle" /\ LogGrows
    BY DEF Idle, LogGrows
  <1>. QED
    BY <1>1, CallMoves

LEMMA CallKeeps ==
  ASSUME IInv, NEW c \in Callers, CallStep(c) \/ CallFails(c)
  PROVE  IInv'
  <1>1. CASE LookUp(c)
    <2>1. UNCHANGED <<marker, drain, log>> /\ ~At(c, "idle") /\ LogGrows
      BY <1>1 DEF LookUp, At, LogGrows
    <2>2. CASE Goes(c, "insert")
      BY <2>1, <2>2, CallGoes DEF Goes
    <2>3. CASE \E r \in FirstMatch(rows, call[c].kind) :
                 Becomes(c, [call[c] EXCEPT !.pc = "update", !.id = r.id])
      BY <2>1, <2>3, CallGoes
    <2>. QED
      BY <1>1, <2>2, <2>3 DEF LookUp
  <1>2. CASE Update(c) \/ Insert(c)
    <2>1. /\ UNCHANGED <<marker, drain, log>> /\ ~At(c, "idle") /\ Enqueued(c) /\ LogGrows
      BY <1>2 DEF Update, Insert, At, LogGrows
    <2>2. CASE Becomes(c, Idle)
      BY <2>1, <2>2, CallEnds
    <2>3. CASE Goes(c, "post")
      BY <2>1, <2>3, CallGoes DEF Goes
    <2>. QED
      BY <2>1, <2>2, <2>3 DEF Enqueued
  <1>3. CASE NoSession(c)
    BY <1>3, CallEnds DEF NoSession
  <1>4. CASE PostSucceeds(c)
    <2>1. /\ ~At(c, "idle") /\ UNCHANGED <<marker, drain>> /\ Goes(c, "find")
          /\ log' = AppendEvent(call[c].kind, call[c].body) /\ LogGrows
      BY <1>4 DEF PostSucceeds, At, LogGrows
    <2>2. Has(call[c].kind, call[c].body, log')
      BY <2>1, AppendLogs DEF IInv
    <2>. QED
      BY <2>1, <2>2, CallGoes DEF Goes
  <1>5. CASE PostFails(c)
    <2>. DEFINE next == [call[c] EXCEPT !.pc = "lookup", !.retry = TRUE]
    <2>1. LogGrows /\ UNCHANGED <<marker, drain>> /\ Becomes(c, next) /\ Shaped(call[c])
      BY <1>5 DEF PostFails, At, LogGrows, IInv, ShapeInv
    <2>2. Shaped(next) /\ next.pc = "lookup"
      BY <2>1, RetryTo
    <2>. HIDE DEF next
    <2>. QED
      BY <2>1, <2>2, CallMoves
  <1>6. CASE Find(c) \/ Delete(c)
    <2>1. /\ UNCHANGED <<marker, drain, log>> /\ ~At(c, "idle") /\ LogGrows
          /\ Has(call[c].kind, call[c].body, log')
      BY <1>6 DEF Find, Delete, At, LogGrows, IInv, PostedInv
    <2>2. CASE Goes(c, "mark")
      BY <2>1, <2>2, CallGoes DEF Goes
    <2>3. CASE \E r \in FirstMatch(rows, call[c].kind) :
                 Becomes(c, [call[c] EXCEPT !.pc = "delete", !.id = r.id])
      BY <2>1, <2>3, CallGoes
    <2>. QED
      BY <1>6, <2>2, <2>3 DEF Find, Delete
  <1>7. CASE Mark(c)
    <2>1. /\ Becomes(c, Idle) /\ UNCHANGED <<drain, log>>
          /\ marker' \subseteq marker \cup {call[c].kind} /\ InLog(call[c].kind, log)
      BY <1>7 DEF Mark, At, IInv, PostedInv, InLog
    <2>. QED
      BY <2>1, CallEnds
  <1>. QED
    BY <1>1, <1>2, <1>3, <1>4, <1>5, <1>6, <1>7 DEF CallStep, CallFails

-----------------------------------------------------------------------------
(* A drain marks a row between posting and deleting it.                    *)
LEMMA DrainMoves ==
  ASSUME IInv, LogGrows, UNCHANGED call,
         drain'.pc \in {"sent", "marked", "failed"} =>
           drain' = [pc |-> drain'.pc, todo |-> drain'.todo, row |-> drain'.row],
         drain'.pc \in {"sent", "marked"} => Has(drain'.row.key, drain'.row.body, log'),
         \A k \in marker' : k \in marker \/ InLog(k, log')
  PROVE  IInv'
  <1>1. /\ \E S : log' \in Seq(S)
        /\ \A k, v : Has(k, v, log) => Has(k, v, log')
        /\ \A k : InLog(k, log) => InLog(k, log')
    BY LoggedStays DEF IInv
  <1>2. ShapeInv'
    BY <1>1 DEF IInv, ShapeInv, Shaped
  <1>3. PostedInv' /\ MarkedInv'
    BY <1>1 DEF IInv, PostedInv, MarkedInv
  <1>. QED
    BY <1>2, <1>3 DEF IInv

LEMMA DrainKeeps ==
  ASSUME IInv, DrainStep \/ SendRowFails
  PROVE  IInv'
  <1>1. CASE SendRow
    <2>1. PICK r : drain' = [pc |-> "sent", todo |-> drain.todo \ {r}, row |-> r]
      BY <1>1 DEF SendRow, DrainRow
    <2>2. /\ log' = AppendEvent(drain'.row.key, drain'.row.body)
          /\ UNCHANGED <<marker, call>> /\ LogGrows
      BY <1>1 DEF SendRow, DrainKeepsRest, LogGrows
    <2>3. Has(drain'.row.key, drain'.row.body, log')
      BY <2>2, AppendLogs DEF IInv
    <2>. QED
      BY <2>1, <2>2, <2>3, DrainMoves
  <1>2. CASE SendRowFails
    <2>1. PICK r : drain' = [pc |-> "failed", todo |-> drain.todo \ {r}, row |-> r]
      BY <1>2 DEF SendRowFails, DrainRow
    <2>2. UNCHANGED <<marker, call>> /\ LogGrows
      BY <1>2 DEF SendRowFails, DrainKeepsRest, LogGrows
    <2>. QED
      BY <2>1, <2>2, DrainMoves
  <1>3. CASE MarkRow
    <2>1. /\ drain = [pc |-> "sent", todo |-> drain.todo, row |-> drain.row]
          /\ Has(drain.row.key, drain.row.body, log) /\ UNCHANGED <<log, call>> /\ LogGrows
      BY <1>3 DEF MarkRow, DrainKeepsRest, LogGrows, IInv, ShapeInv, PostedInv
    <2>2. drain' = [pc |-> "marked", todo |-> drain.todo, row |-> drain.row]
      BY <1>3, <2>1 DEF MarkRow
    <2>3. marker' \subseteq marker \cup {drain.row.key} /\ InLog(drain.row.key, log)
      BY <1>3, <2>1 DEF MarkRow, InLog
    <2>. QED
      BY <2>1, <2>2, <2>3, DrainMoves
  <1>4. CASE DeleteRow \/ RowFailed
    <2>1. /\ drain = [pc |-> drain.pc, todo |-> drain.todo, row |-> drain.row]
          /\ UNCHANGED <<marker, log, call>> /\ LogGrows
      BY <1>4 DEF DeleteRow, RowFailed, DrainKeepsRest, LogGrows, IInv, ShapeInv
    <2>2. drain' = [pc |-> "send", todo |-> drain.todo, row |-> drain.row]
      BY <1>4, <2>1 DEF DeleteRow, RowFailed
    <2>. QED
      BY <2>1, <2>2, DrainMoves
  <1>. QED
    BY <1>1, <1>2, <1>3, <1>4 DEF DrainStep

(* Loading the queue, the end of a drain and the death of the app.         *)
LEMMA RunKeeps ==
  ASSUME IInv, Load \/ (drain' = Idle /\ UNCHANGED <<marker, call, log>>)
  PROVE  IInv'
  <1>1. drain'.pc \in {"send", "idle"} /\ UNCHANGED <<marker, call, log>> /\ LogGrows
    BY DEF Load, DrainKeepsRest, Idle, LogGrows
  <1>. QED
    BY <1>1, DrainMoves

LEMMA DieKeeps ==
  ASSUME IInv, CallsDie
  PROVE  IInv'
  <1>1. /\ call' = [c \in Callers |-> Idle] /\ drain' = Idle /\ UNCHANGED <<marker, log>>
        /\ Idle.pc = "idle"
    BY DEF CallsDie, Idle
  <1>2. ShapeInv'
    BY <1>1 DEF IInv, ShapeInv, Shaped
  <1>3. PostedInv' /\ MarkedInv'
    BY <1>1 DEF IInv, PostedInv, MarkedInv
  <1>. QED
    BY <1>2, <1>3 DEF IInv

-----------------------------------------------------------------------------
LEMMA InitIInv == Init => IInv
  <1>. SUFFICES ASSUME Init PROVE IInv
    OBVIOUS
  <1>1. /\ call = [c \in Callers |-> Idle] /\ drain = Idle /\ log = <<>> /\ marker = {}
        /\ Idle.pc = "idle"
    BY DEF Init, CallsInit, Idle
  <1>2. \E S : log \in Seq(S)
    <2>1. log \in Seq({})
      BY <1>1
    <2>. QED
      BY <2>1
  <1>. QED
    BY <1>1, <1>2 DEF IInv, ShapeInv, PostedInv, MarkedInv

LEMMA NextIInv == IInv /\ [Next]_vars => IInv'
  <1>. SUFFICES ASSUME IInv, [Next]_vars PROVE IInv'
    OBVIOUS
  <1>1. ASSUME UNCHANGED callVars PROVE IInv'
    BY <1>1, DrainMoves DEF callVars, LogGrows, IInv, ShapeInv, PostedInv
  <1>2. ASSUME NEW c \in Screens, NEW k \in Kinds, Save(c, k) PROVE IInv'
    BY <1>2, BeginKeeps, DieKeeps DEF Save, Callers
  <1>3. ASSUME NEW k \in Kinds, Requeue(k) PROVE IInv'
    BY <1>1, <1>3, BeginKeeps DEF Requeue, Callers
  <1>4. CASE Start \/ UNCHANGED vars
    BY <1>1, <1>4 DEF Start, vars
  <1>5. CASE Drain \/ End
    BY <1>5, RunKeeps DEF Drain, End
  <1>6. CASE SkipDrain
    <2>1. UNCHANGED <<marker, call, drain, log>> /\ LogGrows
      BY <1>6 DEF SkipDrain, LogGrows
    <2>. QED
      BY <2>1, DrainMoves DEF IInv, ShapeInv, PostedInv
  <1>7. CASE Kill
    BY <1>7, DieKeeps DEF Kill
  <1>8. CASE DrainStep \/ SendRowFails
    BY <1>8, DrainKeeps
  <1>9. ASSUME NEW c \in Callers, CallStep(c) \/ CallFails(c) PROVE IInv'
    BY <1>9, CallKeeps
  <1>. QED
    BY <1>2, <1>3, <1>4, <1>5, <1>6, <1>7, <1>8, <1>9 DEF Next, Pipeline, Callers

(* A marker is set only when the server has logged a declaration of that   *)
(* kind, whatever calls, drains, lost answers and kills came in between.   *)
THEOREM MarkerIsTrue == Spec => []MarkerMeansLogged
  <1>1. IInv => MarkerMeansLogged
    <2>. SUFFICES ASSUME IInv, NEW k \in marker PROVE Logged(k) # {}
      BY DEF MarkerMeansLogged
    <2>1. PICK v : [kind |-> k, body |-> v] \in ToSet(log)
      BY DEF IInv, MarkedInv, InLog, Has
    <2>2. PICK j \in DOMAIN log : log[j] = [kind |-> k, body |-> v]
      BY <2>1 DEF ToSet
    <2>. QED
      BY <2>2 DEF Logged
  <1>. QED
    BY <1>1, InitIInv, NextIInv, PTL DEF Spec

-----------------------------------------------------------------------------
(* Type correctness: every payload is an event, and an id that a call has  *)
(* found keeps its kind.                                                   *)

IsEvent(k, v) == [kind |-> k, body |-> v] \in Event

RowOk(r) == r \in Row /\ IsEvent(r.key, r.body) /\ r.attempts <= faults

CallOk(o) ==
  /\ Shaped(o)
  /\ o.pc \in {"lookup", "insert", "update", "post", "find", "delete", "mark"}
  /\ IsEvent(o.kind, o.body) /\ o.id \in 0..MaxRows

FoundOk(o) == o.pc = "update" => \A r \in rows : r.id = o.id => r.key = o.kind

TableOk ==
  /\ \A r \in rows : RowOk(r)
  /\ \A r, s \in rows : r.id = s.id => r = s

DrainOk ==
  /\ drain.pc \in {"idle", "send", "sent", "marked", "failed"}
  /\ drain.pc # "idle" => \A r \in drain.todo : RowOk(r)
  /\ drain.pc \in {"sent", "marked", "failed"} => RowOk(drain.row)
  /\ drain.pc = "failed" => drain.row.attempts < faults

CallsInv ==
  /\ TableOk /\ DrainOk /\ marker \subseteq Marked
  /\ \A c \in Callers : ~At(c, "idle") => CallOk(call[c]) /\ FoundOk(call[c])
  /\ log \in Seq(Event) /\ Distinct(log)
  /\ faults \in 0..MaxFaults

HeldOk(held) == held \in [Kinds -> Nat] /\ \A k \in Kinds : held[k] <= newest[k]

DocsInv ==
  /\ newest \in [Kinds -> Nat] /\ \A k \in Kinds : newest[k] <= MaxVersions[k]
  /\ run.pc \in {"idle", "queueing", "draining"}
  /\ run.pc = "queueing" =>
       /\ run = [pc |-> "queueing", held |-> run.held, left |-> run.left]
       /\ run.left \subseteq Kinds /\ HeldOk(run.held)

LEMMA EventOf ==
  ASSUME NEW k, NEW v, IsEvent(k, v)
  PROVE  k \in Kinds /\ v \in Nat
  <1>1. PICK j \in Kinds : [kind |-> k, body |-> v] \in [kind : {j}, body : 1..MaxVersions[j]]
    BY DEF IsEvent, Event
  <1>2. MaxVersions[j] \in Nat
    BY BoundsAssumption
  <1>3. k = j /\ v \in 1..MaxVersions[j]
    <2>1. PICK e : e = [kind |-> k, body |-> v]
      OBVIOUS
    <2>2. e.kind = k /\ e.body = v /\ e.kind \in {j} /\ e.body \in 1..MaxVersions[j]
      BY <1>1, <2>1
    <2>. QED
      BY <2>2
  <1>. QED
    BY <1>2, <1>3

LEMMA EventIs ==
  ASSUME NEW k \in Kinds, NEW v \in 1..MaxVersions[k]
  PROVE  IsEvent(k, v)
  <1>1. [kind |-> k, body |-> v] \in [kind : {k}, body : 1..MaxVersions[k]]
    OBVIOUS
  <1>. QED
    BY <1>1 DEF IsEvent, Event

(* The log gets events, and each once.                                     *)
LogGetsEvents == log' = log \/ \E k, v : IsEvent(k, v) /\ log' = AppendEvent(k, v)

LEMMA LogStaysOk ==
  ASSUME log \in Seq(Event), Distinct(log), LogGetsEvents
  PROVE  log' \in Seq(Event) /\ Distinct(log')
  <1>1. ASSUME NEW k, NEW v, IsEvent(k, v), log' = AppendEvent(k, v)
        PROVE  log' \in Seq(Event) /\ Distinct(log')
    <2>. DEFINE e == [kind |-> k, body |-> v]
                i == CHOOSE j \in DOMAIN log : log[j] = e
    <2>1. e \in Event
      BY <1>1 DEF IsEvent
    <2>2. CASE e \in ToSet(log)
      <3>1. i \in DOMAIN log /\ log[i] = e
        BY <2>2 DEF ToSet
      <3>2. log' = Append(RemoveAt(log, i), log[i])
        BY <1>1, <2>2, <3>1 DEF AppendEvent
      <3>. HIDE DEF i, e
      <3>. QED
        BY <3>1, <3>2, MoveToEnd, MovedDistinct
    <2>3. CASE e \notin ToSet(log)
      <3>1. log' = Append(log, e)
        BY <1>1, <2>3 DEF AppendEvent
      <3>. HIDE DEF e
      <3>. QED
        BY <2>1, <2>3, <3>1, AppendedLast, AppendedDistinct
    <2>. QED
      BY <2>2, <2>3
  <1>2. CASE log' = log
    BY <1>2
  <1>. QED
    BY <1>1, <1>2 DEF LogGetsEvents

(* Every row is one that was there, or a new version of it.                *)
KeepsKinds == \A r \in rows' : \E s \in rows : s.id = r.id /\ s.key = r.key

LEMMA FoundStaysOk ==
  ASSUME NEW o, FoundOk(o), KeepsKinds
  PROVE  o.pc = "update" => \A r \in rows' : r.id = o.id => r.key = o.kind
  BY DEF FoundOk, KeepsKinds

LEMMA RowStaysOk ==
  ASSUME NEW r, RowOk(r), faults \in Nat, faults' \in Nat, faults <= faults'
  PROVE  r \in Row /\ IsEvent(r.key, r.body) /\ r.attempts <= faults'
  BY BoundsAssumption DEF RowOk, Row

(* What a call does: it goes on to `next`, with the table in order.        *)
LEMMA CallTypes ==
  ASSUME ShapeInv, CallsInv, NEW c \in Callers, NEW next, Becomes(c, next),
         next = Idle \/ CallOk(next), LogGetsEvents, marker' \subseteq Marked, UNCHANGED drain,
         TableOk', faults' \in 0..MaxFaults, faults <= faults',
         \A d \in Callers : ~At(d, "idle") /\ d # c =>
           (call[d].pc = "update" => \A r \in rows' : r.id = call[d].id => r.key = call[d].kind),
         next.pc = "update" => \A r \in rows' : r.id = next.id => r.key = next.kind
  PROVE  CallsInv'
  <1>1. \A d \in Callers : call'[d] = IF d = c THEN next ELSE call[d]
    BY DEF ShapeInv, Becomes
  <1>2. ASSUME NEW d \in Callers, ~(call'[d].pc = "idle")
        PROVE  CallOk(call'[d])
               /\ (call'[d].pc = "update" => \A r \in rows' : r.id = call'[d].id => r.key = call'[d].kind)
    <2>1. CASE d = c
      BY <1>1, <1>2, <2>1 DEF Idle
    <2>2. CASE d # c
      BY <1>1, <1>2, <2>2 DEF CallsInv, At
    <2>. QED
      BY <2>1, <2>2
  <1>3. \A d \in Callers : ~(call'[d].pc = "idle") => CallOk(call[d])' /\ FoundOk(call[d])'
    BY <1>2 DEF CallOk, FoundOk, Shaped
  <1>4. faults \in Nat /\ faults' \in Nat /\ faults <= faults'
    BY BoundsAssumption DEF CallsInv
  <1>5. DrainOk'
    <2>1. /\ drain.pc # "idle" => \A r \in drain.todo :
               r \in Row /\ IsEvent(r.key, r.body) /\ r.attempts <= faults'
          /\ drain.pc \in {"sent", "marked", "failed"} =>
               drain.row \in Row /\ IsEvent(drain.row.key, drain.row.body) /\ drain.row.attempts <= faults'
      BY <1>4, RowStaysOk DEF CallsInv, DrainOk
    <2>2. drain.pc = "failed" => drain.row.attempts < faults'
      <3>1. drain.pc = "failed" => drain.row.attempts \in Nat
        BY BoundsAssumption DEF CallsInv, DrainOk, RowOk, Row
      <3>. QED
        BY <1>4, <3>1 DEF CallsInv, DrainOk
    <2>. QED
      BY <2>1, <2>2 DEF CallsInv, DrainOk, RowOk
  <1>6. log' \in Seq(Event) /\ Distinct(log')
    BY LogStaysOk DEF CallsInv
  <1>. QED
    BY <1>3, <1>5, <1>6 DEF CallsInv, At

(* One that changes no row but for its payload, or takes rows out.         *)
LEMMA CallTypesKept ==
  ASSUME ShapeInv, CallsInv, NEW c \in Callers, NEW next, Becomes(c, next),
         next = Idle \/ CallOk(next), LogGetsEvents, marker' \subseteq Marked, UNCHANGED drain,
         KeepsKinds, TableOk', faults' \in 0..MaxFaults, faults <= faults',
         FoundOk(next)
  PROVE  CallsInv'
  <1>1. \A d \in Callers : ~At(d, "idle") =>
          (call[d].pc = "update" => \A r \in rows' : r.id = call[d].id => r.key = call[d].kind)
    BY FoundStaysOk DEF CallsInv
  <1>2. next.pc = "update" => \A r \in rows' : r.id = next.id => r.key = next.kind
    BY FoundStaysOk
  <1>. QED
    BY <1>1, <1>2, CallTypes

LEMMA TableKept ==
  ASSUME CallsInv, rows' \subseteq rows, faults' \in 0..MaxFaults, faults <= faults'
  PROVE  TableOk' /\ KeepsKinds
  <1>1. faults \in Nat /\ faults' \in Nat
    BY BoundsAssumption DEF CallsInv
  <1>2. \A r \in rows : r \in Row /\ IsEvent(r.key, r.body) /\ r.attempts <= faults'
    BY <1>1, RowStaysOk DEF CallsInv, TableOk
  <1>. QED
    BY <1>2 DEF TableOk, RowOk, KeepsKinds, CallsInv

LEMMA BoundsAreNat == MaxRows \in Nat /\ MaxFaults \in Nat
  BY BoundsAssumption

(* A call that goes on with its event.                                     *)
GoOn(o, pc, id) == [o EXCEPT !.pc = pc, !.id = id]

Onward == {"insert", "update", "post", "find", "delete", "mark"}

LEMMA GoOnOk ==
  ASSUME NEW o, CallOk(o), NEW id \in 0..MaxRows, NEW pc \in Onward
  PROVE  /\ CallOk(GoOn(o, pc, id))
         /\ GoOn(o, pc, id).pc = pc /\ GoOn(o, pc, id).kind = o.kind /\ GoOn(o, pc, id).id = id
  <1>1. PICK next : next = GoOn(o, pc, id)
    OBVIOUS
  <1>2. next = [pc |-> pc, kind |-> o.kind, body |-> o.body, id |-> id, retry |-> o.retry]
    BY <1>1 DEF CallOk, Shaped, GoOn
  <1>3. CallOk(next) /\ next.pc = pc /\ next.kind = o.kind /\ next.id = id
    BY <1>2 DEF CallOk, Shaped, Onward
  <1>. QED
    BY <1>1, <1>3

LEMMA QuietCallTypes ==
  ASSUME ShapeInv, CallsInv, NEW c \in Callers, ~At(c, "idle"), LogGetsEvents,
         UNCHANGED <<marker, drain>>, rows' \subseteq rows,
         faults' \in 0..MaxFaults, faults <= faults',
         NEW pc \in Onward, NEW id \in 0..MaxRows,
         Becomes(c, [call[c] EXCEPT !.pc = pc, !.id = id]),
         pc = "update" => \A r \in rows : r.id = id => r.key = call[c].kind
  PROVE  CallsInv'
  <1>1. PICK o : o = call[c]
    OBVIOUS
  <1>2. PICK next : next = GoOn(o, pc, id)
    OBVIOUS
  <1>3. CallOk(next) /\ next.pc = pc /\ next.kind = o.kind /\ next.id = id
    <2>1. CallOk(o)
      BY <1>1 DEF CallsInv
    <2>. QED
      BY <1>2, <2>1, GoOnOk
  <1>4. Becomes(c, next) /\ FoundOk(next)
    <2>1. Becomes(c, next)
      BY <1>1, <1>2 DEF GoOn
    <2>2. FoundOk(next)
      BY <1>1, <1>3 DEF FoundOk
    <2>. QED
      BY <2>1, <2>2
  <1>5. TableOk' /\ KeepsKinds
    BY TableKept
  <1>6. marker' \subseteq Marked
    BY DEF CallsInv
  <1>. QED
    BY <1>3, <1>4, <1>5, <1>6, CallTypesKept

LEMMA CallEndsOk ==
  ASSUME ShapeInv, CallsInv, NEW c \in Callers, Becomes(c, Idle), UNCHANGED <<rows, drain, log>>,
         marker' \subseteq Marked, faults' \in 0..MaxFaults, faults <= faults'
  PROVE  CallsInv'
  <1>1. FoundOk(Idle)
    BY DEF FoundOk, Idle
  <1>2. TableOk' /\ KeepsKinds /\ LogGetsEvents
    BY TableKept DEF LogGetsEvents
  <1>. QED
    BY <1>1, <1>2, CallTypesKept

LEMMA FaultTypes ==
  ASSUME CallsInv
  PROVE  /\ Fault \/ UNCHANGED faults => faults' \in 0..MaxFaults /\ faults <= faults'
         /\ \A c : Offline(c) => Fault \/ UNCHANGED faults
  BY BoundsAssumption DEF Fault, Offline, CallsInv

LEMMA BeginTypes ==
  ASSUME ShapeInv, CallsInv, NEW c \in Callers, NEW k, NEW v, IsEvent(k, v), Begin(c, k, v),
         Fault \/ UNCHANGED faults
  PROVE  CallsInv'
  <1>1. PICK next : next = [pc |-> "lookup", kind |-> k, body |-> v, id |-> 0, retry |-> FALSE]
    OBVIOUS
  <1>2. CallOk(next) /\ FoundOk(next)
    BY <1>1, BoundsAssumption DEF CallOk, Shaped, FoundOk
  <1>3. Becomes(c, next) /\ marker' \subseteq Marked /\ LogGetsEvents /\ UNCHANGED <<rows, drain>>
    BY <1>1 DEF Begin, CallsInv, LogGetsEvents
  <1>4. faults' \in 0..MaxFaults /\ faults <= faults'
    BY FaultTypes
  <1>5. TableOk' /\ KeepsKinds
    BY <1>3, <1>4, TableKept
  <1>. QED
    BY <1>2, <1>3, <1>4, <1>5, CallTypesKept

LEMMA FoundId ==
  ASSUME CallsInv, NEW k, NEW r \in FirstMatch(rows, k)
  PROVE  r.id \in 0..MaxRows /\ \A s \in rows : s.id = r.id => s.key = k
  BY BoundsAssumption DEF FirstMatch, CallsInv, TableOk, RowOk, Row

LEMMA LookUpTypes ==
  ASSUME ShapeInv, CallsInv, NEW c \in Callers, LookUp(c)
  PROVE  CallsInv'
  <1>1. ~At(c, "idle") /\ LogGetsEvents /\ faults' \in 0..MaxFaults /\ faults <= faults'
        /\ UNCHANGED <<rows, marker, drain>> /\ rows' \subseteq rows /\ 0 \in 0..MaxRows
    <2>1. UNCHANGED <<rows, marker, drain, log, faults>> /\ call[c].pc = "lookup"
      BY DEF LookUp, At
    <2>. QED
      BY <2>1, BoundsAreNat, FaultTypes DEF LogGetsEvents, At
  <1>2. CASE Becomes(c, [call[c] EXCEPT !.pc = "insert", !.id = 0])
    BY <1>1, <1>2, QuietCallTypes DEF Onward
  <1>3. ASSUME NEW r \in FirstMatch(rows, call[c].kind), Becomes(c, [call[c] EXCEPT !.pc = "update", !.id = r.id])
        PROVE  CallsInv'
    <2>1. r.id \in 0..MaxRows /\ \A s \in rows : s.id = r.id => s.key = call[c].kind
      BY FoundId
    <2>. QED
      BY <1>1, <1>3, <2>1, QuietCallTypes DEF Onward
  <1>. QED
    BY <1>2, <1>3 DEF LookUp, Goes

LEMMA FindTypes ==
  ASSUME ShapeInv, CallsInv, NEW c \in Callers, Find(c) \/ Delete(c)
  PROVE  CallsInv'
  <1>1. ~At(c, "idle") /\ LogGetsEvents /\ faults' \in 0..MaxFaults /\ faults <= faults'
        /\ UNCHANGED <<marker, drain>> /\ rows' \subseteq rows /\ 0 \in 0..MaxRows
    <2>1. /\ UNCHANGED <<marker, drain, log, faults>> /\ call[c].pc \in {"find", "delete"}
          /\ rows' \subseteq rows
      BY DEF Find, Delete, WithoutIds, At
    <2>. QED
      BY <2>1, BoundsAreNat, FaultTypes DEF LogGetsEvents, At
  <1>2. CASE Becomes(c, [call[c] EXCEPT !.pc = "mark", !.id = 0])
    BY <1>1, <1>2, QuietCallTypes DEF Onward
  <1>3. ASSUME NEW r \in FirstMatch(rows, call[c].kind), Becomes(c, [call[c] EXCEPT !.pc = "delete", !.id = r.id])
        PROVE  CallsInv'
    <2>1. r.id \in 0..MaxRows /\ \A s \in rows : s.id = r.id => s.key = call[c].kind
      BY FoundId
    <2>. QED
      BY <1>1, <1>3, <2>1, QuietCallTypes DEF Onward
  <1>. QED
    BY <1>2, <1>3 DEF Find, Delete, Goes

(* An enqueueing call ends, or goes on to post.                            *)
LEMMA EnqueuedTypes ==
  ASSUME ShapeInv, CallsInv, NEW c \in Callers, ~At(c, "idle"), Enqueued(c),
         UNCHANGED <<marker, drain, log, faults>>, TableOk',
         \A d \in Callers : ~At(d, "idle") /\ d # c =>
           (call[d].pc = "update" => \A r \in rows' : r.id = call[d].id => r.key = call[d].kind)
  PROVE  CallsInv'
  <1>1. PICK o : o = call[c]
    OBVIOUS
  <1>2. PICK next : next = GoOn(o, "post", 0)
    OBVIOUS
  <1>3. CallOk(next) /\ next.pc # "update"
    <2>1. CallOk(o)
      BY <1>1 DEF CallsInv
    <2>2. 0 \in 0..MaxRows /\ "post" \in Onward
      BY BoundsAreNat DEF Onward
    <2>3. CallOk(next) /\ next.pc = "post"
      BY <1>2, <2>1, <2>2, GoOnOk
    <2>. QED
      BY <2>3
  <1>4. Idle.pc # "update" /\ LogGetsEvents /\ marker' \subseteq Marked
        /\ faults' \in 0..MaxFaults /\ faults <= faults'
    BY BoundsAreNat DEF Idle, LogGetsEvents, CallsInv
  <1>5. Becomes(c, Idle) \/ Becomes(c, next)
    BY <1>1, <1>2 DEF Enqueued, Goes, GoOn
  <1>. QED
    BY <1>3, <1>4, <1>5, CallTypes

LEMMA UpdateTypes ==
  ASSUME ShapeInv, CallsInv, NEW c \in Callers, Update(c)
  PROVE  CallsInv'
  <1>. DEFINE New(r) == IF r.id = call[c].id THEN [r EXCEPT !.body = call[c].body] ELSE r
  <1>1. CallOk(call[c]) /\ FoundOk(call[c]) /\ call[c].pc = "update"
    BY DEF Update, At, CallsInv
  <1>2. rows' = {New(r) : r \in rows}
    BY DEF Update
  <1>3. call[c].body \in Nat /\ IsEvent(call[c].kind, call[c].body)
    BY <1>1, EventOf DEF CallOk
  <1>4. ASSUME NEW r \in rows PROVE RowOk(New(r)) /\ New(r).id = r.id /\ New(r).key = r.key
    <2>1. RowOk(r) /\ (r.id = call[c].id => r.key = call[c].kind)
      BY <1>1 DEF FoundOk, CallsInv, TableOk
    <2>2. CASE r.id = call[c].id
      <3>1. PICK new : new = [r EXCEPT !.body = call[c].body]
        OBVIOUS
      <3>2. new \in Row /\ new.id = r.id /\ new.key = r.key /\ new.body = call[c].body
            /\ new.attempts = r.attempts
        BY <1>3, <2>1, <3>1 DEF RowOk, Row
      <3>3. RowOk(new)
        BY <1>3, <2>1, <2>2, <3>2 DEF RowOk
      <3>. QED
        BY <2>2, <3>1, <3>2, <3>3
    <2>. QED
      BY <2>1, <2>2
  <1>. HIDE DEF New
  <1>5. \A r \in rows' : RowOk(r) /\ \E s \in rows : r = New(s) /\ s.id = r.id /\ s.key = r.key
    BY <1>2, <1>4
  <1>6. \A r, s \in rows' : r.id = s.id => r = s
    BY <1>5 DEF CallsInv, TableOk
  <1>7. TableOk' /\ KeepsKinds /\ UNCHANGED <<marker, drain, log, faults>>
    BY <1>5, <1>6 DEF TableOk, KeepsKinds, RowOk, Update
  <1>8. \A d \in Callers : ~At(d, "idle") =>
          (call[d].pc = "update" => \A r \in rows' : r.id = call[d].id => r.key = call[d].kind)
    BY <1>7, FoundStaysOk DEF CallsInv
  <1>. QED
    BY <1>7, <1>8, EnqueuedTypes DEF Update, At

(* A new id is above every id in use.                                      *)
LEMMA NewIdIsNew ==
  ASSUME CallsInv
  PROVE  /\ NewId \in Nat \ {0} /\ \A r \in rows : r.id # NewId
         /\ \A c \in Callers : ~At(c, "idle") => call[c].id # NewId
  <1>. DEFINE T == {i + 1 : i \in UsedIds}
  <1>1. UsedIds \subseteq 0..MaxRows
    <2>1. \A r \in rows : r.id \in 0..MaxRows
      BY BoundsAreNat DEF CallsInv, TableOk, RowOk, Row
    <2>2. \A c \in Callers : ~At(c, "idle") => call[c].id \in 0..MaxRows
      BY DEF CallsInv, CallOk
    <2>3. drain.pc # "idle" => \A r \in drain.todo : r.id \in 0..MaxRows
      BY BoundsAreNat DEF CallsInv, DrainOk, RowOk, Row
    <2>4. drain.pc \in {"sent", "marked", "failed"} => drain.row.id \in 0..MaxRows
      BY BoundsAreNat DEF CallsInv, DrainOk, RowOk, Row
    <2>5. 0 \in 0..MaxRows
      BY BoundsAreNat
    <2>. QED
      BY <2>1, <2>2, <2>3, <2>4, <2>5 DEF UsedIds
  <1>2. T \subseteq 1..MaxRows + 1 /\ MaxRows + 1 \in Nat /\ 0 \in UsedIds
    BY <1>1, BoundsAreNat DEF UsedIds
  <1>3. T # {}
    BY <1>2
  <1>4. \E x \in T : \A y \in T : x >= y
    <2>. HIDE DEF T
    <2>. QED
      BY <1>2, <1>3, LastPlace
  <1>5. \E i \in UsedIds : \A j \in UsedIds : j <= i
    <2>1. PICK m \in UsedIds : \A y \in T : m + 1 >= y
      BY <1>4
    <2>2. \A j \in UsedIds : m + 1 >= j + 1
      BY <2>1
    <2>3. \A j \in UsedIds : j <= m
      <3>. HIDE DEF T
      <3>. QED
        BY <1>1, <2>2, BoundsAreNat
    <2>. QED
      BY <2>3
  <1>6. PICK m \in UsedIds : m = NewId - 1 /\ NewId = 1 + m /\ \A j \in UsedIds : j <= m
    <2>1. PICK m : m = CHOOSE i \in UsedIds : \A j \in UsedIds : j <= i
      OBVIOUS
    <2>2. m \in UsedIds /\ \A j \in UsedIds : j <= m
      BY <1>5, <2>1
    <2>3. NewId = 1 + m
      BY <2>1 DEF NewId
    <2>. QED
      BY <1>1, <2>2, <2>3, BoundsAreNat
  <1>7. m \in Nat /\ NewId \in Nat \ {0} /\ NewId \notin UsedIds
    BY <1>1, <1>6, BoundsAreNat
  <1>. QED
    BY <1>7 DEF UsedIds

LEMMA InsertTypes ==
  ASSUME ShapeInv, CallsInv, NEW c \in Callers, Insert(c)
  PROVE  CallsInv'
  <1>1. CallOk(call[c]) /\ IsEvent(call[c].kind, call[c].body)
    BY DEF Insert, At, CallsInv, CallOk
  <1>2. PICK new : new = [id |-> NewId, key |-> call[c].kind, at |-> NewId,
                          attempts |-> 0, body |-> call[c].body]
    OBVIOUS
  <1>3. NewId \in 1..MaxRows
    BY NewIdIsNew, BoundsAreNat DEF Insert
  <1>4. new \in Row /\ new.id = NewId /\ new.key = call[c].kind /\ new.body = call[c].body
        /\ new.attempts = 0
    <2>1. call[c].kind \in Kinds /\ call[c].body \in Nat
      BY <1>1, EventOf
    <2>2. 0 \in 0..MaxFaults
      BY BoundsAreNat
    <2>. QED
      BY <1>2, <1>3, <2>1, <2>2 DEF Row
  <1>5. RowOk(new)
    BY <1>1, <1>4, BoundsAreNat DEF RowOk, CallsInv
  <1>6. rows' = rows \cup {new} /\ UNCHANGED <<marker, drain, log, faults>>
    BY <1>2 DEF Insert
  <1>7. TableOk'
    <2>1. \A r, s \in rows' : r.id = s.id => r = s
      BY <1>4, <1>6, NewIdIsNew DEF CallsInv, TableOk
    <2>. QED
      BY <1>5, <1>6, <2>1 DEF CallsInv, TableOk, RowOk
  <1>8. \A d \in Callers : ~At(d, "idle") /\ d # c =>
          (call[d].pc = "update" => \A r \in rows' : r.id = call[d].id => r.key = call[d].kind)
    BY <1>4, <1>6, NewIdIsNew DEF CallsInv, FoundOk
  <1>. QED
    BY <1>6, <1>7, <1>8, EnqueuedTypes DEF Insert, At

LEMMA PostTypes ==
  ASSUME ShapeInv, CallsInv, NEW c \in Callers, PostSucceeds(c) \/ PostFails(c) \/ NoSession(c)
  PROVE  CallsInv'
  <1>1. CallOk(call[c]) /\ IsEvent(call[c].kind, call[c].body) /\ ~At(c, "idle")
    BY DEF PostSucceeds, PostFails, NoSession, At, CallsInv, CallOk
  <1>2. CASE NoSession(c)
    <2>1. UNCHANGED <<rows, drain, log, marker>> /\ Becomes(c, Idle) /\ (Fault \/ UNCHANGED faults)
      BY <1>2, FaultTypes DEF NoSession
    <2>2. marker' \subseteq Marked
      BY <2>1 DEF CallsInv
    <2>. QED
      BY <2>1, <2>2, CallEndsOk, FaultTypes
  <1>3. CASE PostSucceeds(c)
    <2>1. /\ LogGetsEvents /\ UNCHANGED <<marker, drain>> /\ rows' \subseteq rows
          /\ faults' \in 0..MaxFaults /\ faults <= faults' /\ 0 \in 0..MaxRows
      BY <1>1, <1>3, BoundsAreNat, FaultTypes DEF PostSucceeds, LogGetsEvents
    <2>2. Becomes(c, [call[c] EXCEPT !.pc = "find", !.id = 0])
      BY <1>3 DEF PostSucceeds, Goes
    <2>. QED
      BY <1>1, <2>1, <2>2, QuietCallTypes DEF Onward
  <1>4. CASE PostFails(c)
    <2>1. PICK next : next = [call[c] EXCEPT !.pc = "lookup", !.retry = TRUE]
      OBVIOUS
    <2>2. PICK o : o = call[c]
      OBVIOUS
    <2>3. next = [pc |-> "lookup", kind |-> o.kind, body |-> o.body, id |-> o.id, retry |-> TRUE]
      BY <1>1, <2>1, <2>2 DEF CallOk, Shaped
    <2>4. CallOk(next) /\ FoundOk(next)
      BY <1>1, <2>2, <2>3 DEF CallOk, Shaped, FoundOk
    <2>5. Becomes(c, next) /\ UNCHANGED <<rows, marker, drain>>
      BY <1>4, <2>1 DEF PostFails
    <2>6. LogGetsEvents /\ (Fault \/ UNCHANGED faults)
      BY <1>1, <1>4, FaultTypes DEF PostFails, LogGetsEvents
    <2>7. faults' \in 0..MaxFaults /\ faults <= faults' /\ marker' \subseteq Marked
      BY <2>5, <2>6, FaultTypes DEF CallsInv
    <2>8. TableOk' /\ KeepsKinds
      BY <2>5, <2>7, TableKept
    <2>. QED
      BY <2>4, <2>5, <2>6, <2>7, <2>8, CallTypesKept
  <1>. QED
    BY <1>2, <1>3, <1>4

LEMMA CallStepTypes ==
  ASSUME ShapeInv, CallsInv, NEW c \in Callers, CallStep(c) \/ CallFails(c)
  PROVE  CallsInv'
  <1>1. CASE Mark(c)
    <2>1. /\ UNCHANGED <<rows, drain, log, faults>> /\ Becomes(c, Idle)
          /\ marker' = marker \cup ({call[c].kind} \cap Marked)
      BY <1>1 DEF Mark
    <2>2. marker' \subseteq Marked
      BY <2>1 DEF CallsInv
    <2>. QED
      BY <2>1, <2>2, CallEndsOk, FaultTypes
  <1>. QED
    BY <1>1, LookUpTypes, UpdateTypes, InsertTypes, PostTypes, FindTypes DEF CallStep, CallFails

(* What a drain does beside the calls.                                     *)
LEMMA DrainTypes ==
  ASSUME CallsInv, UNCHANGED call, TableOk', KeepsKinds, DrainOk', LogGetsEvents,
         marker' \subseteq Marked, faults' \in 0..MaxFaults
  PROVE  CallsInv'
  <1>1. \A c \in Callers : ~At(c, "idle")' => CallOk(call[c])' /\ FoundOk(call[c])'
    <2>1. \A c \in Callers : ~At(c, "idle") =>
            CallOk(call[c]) /\ (call[c].pc = "update" => \A r \in rows' : r.id = call[c].id => r.key = call[c].kind)
      BY FoundStaysOk DEF CallsInv
    <2>. QED
      BY <2>1 DEF At, CallOk, FoundOk, Shaped
  <1>2. log' \in Seq(Event) /\ Distinct(log')
    BY LogStaysOk DEF CallsInv
  <1>. QED
    BY <1>1, <1>2 DEF CallsInv

LEMMA SendRowTypes ==
  ASSUME CallsInv, SendRow \/ SendRowFails
  PROVE  CallsInv'
  <1>1. faults' \in 0..MaxFaults /\ faults <= faults' /\ faults \in Nat /\ faults' \in Nat
        /\ (SendRow \/ faults < faults')
    BY BoundsAreNat, FaultTypes DEF SendRow, SendRowFails, Fault, CallsInv
  <1>2. PICK r \in drain.todo, pc \in {"sent", "failed"} :
          /\ drain' = [pc |-> pc, todo |-> drain.todo \ {r}, row |-> r]
          /\ pc = "sent" \/ faults < faults'
    BY <1>1 DEF SendRow, SendRowFails, DrainRow, NextInLine
  <1>3. \A s \in drain.todo : RowOk(s)
    BY DEF SendRow, SendRowFails, CallsInv, DrainOk
  <1>4. \A s \in drain.todo : s \in Row /\ IsEvent(s.key, s.body) /\ s.attempts <= faults'
    BY <1>1, <1>3, RowStaysOk
  <1>5. drain'.pc = pc /\ drain'.todo = drain.todo \ {r} /\ drain'.row = r
    BY <1>2
  <1>6. pc = "failed" => r.attempts < faults'
    <2>1. r.attempts \in Nat /\ r.attempts <= faults
      BY <1>3, BoundsAreNat DEF RowOk, Row
    <2>. QED
      BY <1>1, <1>2, <2>1
  <1>7. DrainOk'
    BY <1>4, <1>5, <1>6 DEF DrainOk, RowOk
  <1>8. UNCHANGED <<rows, marker, call>>
        /\ (log' = log \/ log' = AppendEvent(drain'.row.key, drain'.row.body))
    BY DEF SendRow, SendRowFails, DrainKeepsRest
  <1>9. LogGetsEvents
    BY <1>4, <1>5, <1>8 DEF LogGetsEvents
  <1>10. TableOk' /\ KeepsKinds /\ marker' \subseteq Marked
    BY <1>1, <1>8, TableKept DEF CallsInv
  <1>. QED
    BY <1>1, <1>7, <1>8, <1>9, <1>10, DrainTypes

(* A handled row leaves the drain as it was.                               *)
LEMMA DrainStays ==
  ASSUME ShapeInv, CallsInv, NEW pc, pc \in {"marked", "send"},
         drain.pc \in {"sent", "marked", "failed"}, drain' = [drain EXCEPT !.pc = pc],
         UNCHANGED faults
  PROVE  DrainOk'
  <1>1. drain = [pc |-> drain.pc, todo |-> drain.todo, row |-> drain.row]
    BY DEF ShapeInv
  <1>2. drain' = [pc |-> pc, todo |-> drain.todo, row |-> drain.row]
    BY <1>1
  <1>3. (\A r \in drain.todo : RowOk(r)) /\ RowOk(drain.row)
    BY DEF CallsInv, DrainOk
  <1>4. drain'.pc = pc /\ drain'.todo = drain.todo /\ drain'.row = drain.row
    BY <1>2
  <1>. QED
    BY <1>3, <1>4 DEF DrainOk, RowOk

LEMMA RowDoneTypes ==
  ASSUME ShapeInv, CallsInv, MarkRow \/ DeleteRow
  PROVE  CallsInv'
  <1>1. /\ drain.pc \in {"sent", "marked", "failed"} /\ UNCHANGED <<call, log, faults>>
        /\ rows' \subseteq rows
        /\ drain' = [drain EXCEPT !.pc = "marked"] \/ drain' = [drain EXCEPT !.pc = "send"]
    BY DEF MarkRow, DeleteRow, DrainKeepsRest, WithoutIds
  <1>2. DrainOk'
    BY <1>1, DrainStays
  <1>3. marker' \subseteq Marked /\ LogGetsEvents
    BY <1>1 DEF MarkRow, DeleteRow, CallsInv, LogGetsEvents
  <1>4. faults' \in 0..MaxFaults /\ faults <= faults'
    BY <1>1, FaultTypes
  <1>5. TableOk' /\ KeepsKinds
    BY <1>1, <1>4, TableKept
  <1>. QED
    BY <1>1, <1>2, <1>3, <1>4, <1>5, DrainTypes

LEMMA RowFailedTypes ==
  ASSUME ShapeInv, CallsInv, RowFailed
  PROVE  CallsInv'
  <1>. DEFINE n == drain.row.attempts + 1
              New(r) == IF r.id = drain.row.id THEN [r EXCEPT !.attempts = n] ELSE r
  <1>1. rows' = {New(r) : r \in rows}
    BY DEF RowFailed, MarkAttempt
  <1>2. n \in 0..MaxFaults /\ n <= faults
    <2>1. drain.row \in Row /\ drain.row.attempts < faults /\ faults \in 0..MaxFaults
      BY DEF RowFailed, CallsInv, DrainOk, RowOk
    <2>2. drain.row.attempts \in Nat
      BY <2>1, BoundsAreNat DEF Row
    <2>. QED
      BY <2>1, <2>2, BoundsAreNat
  <1>. HIDE DEF n
  <1>3. ASSUME NEW r \in rows PROVE RowOk(New(r)) /\ New(r).id = r.id /\ New(r).key = r.key
    <2>1. RowOk(r)
      BY DEF CallsInv, TableOk
    <2>2. CASE r.id = drain.row.id
      <3>1. PICK new : new = [r EXCEPT !.attempts = n]
        OBVIOUS
      <3>2. new \in Row /\ new.id = r.id /\ new.key = r.key /\ new.body = r.body /\ new.attempts = n
        BY <1>2, <2>1, <3>1 DEF RowOk, Row
      <3>3. RowOk(new)
        BY <1>2, <2>1, <3>2 DEF RowOk
      <3>. QED
        BY <2>2, <3>1, <3>2, <3>3
    <2>. QED
      BY <2>1, <2>2
  <1>. HIDE DEF New
  <1>4. \A r \in rows' : RowOk(r) /\ \E s \in rows : r = New(s) /\ s.id = r.id /\ s.key = r.key
    BY <1>1, <1>3
  <1>5. \A r, s \in rows' : r.id = s.id => r = s
    BY <1>4 DEF CallsInv, TableOk
  <1>6. UNCHANGED <<marker, call, log, faults>> /\ drain' = [drain EXCEPT !.pc = "send"]
        /\ drain.pc = "failed"
    BY DEF RowFailed, DrainKeepsRest
  <1>7. TableOk' /\ KeepsKinds
    BY <1>4, <1>5, <1>6 DEF TableOk, KeepsKinds, RowOk
  <1>8. DrainOk'
    BY <1>6, DrainStays
  <1>9. LogGetsEvents /\ marker' \subseteq Marked /\ faults' \in 0..MaxFaults
    BY <1>6 DEF LogGetsEvents, CallsInv
  <1>. QED
    BY <1>6, <1>7, <1>8, <1>9, DrainTypes

LEMMA LoadTypes ==
  ASSUME CallsInv, Load
  PROVE  CallsInv'
  <1>1. /\ rows' \subseteq rows /\ UNCHANGED <<marker, log, faults, call>>
        /\ drain' = [pc |-> "send", todo |-> rows']
    BY DEF Load, DrainKeepsRest
  <1>2. faults' \in 0..MaxFaults /\ faults <= faults'
    BY <1>1, FaultTypes
  <1>3. TableOk' /\ KeepsKinds /\ LogGetsEvents /\ marker' \subseteq Marked
    BY <1>1, <1>2, TableKept DEF LogGetsEvents, CallsInv
  <1>4. DrainOk'
    BY <1>1, <1>3 DEF DrainOk, TableOk, RowOk
  <1>. QED
    BY <1>1, <1>2, <1>3, <1>4, DrainTypes

(* The end of a drain, and a step beside calls and drain.                  *)
LEMMA RestTypes ==
  ASSUME CallsInv, UNCHANGED <<rows, marker, call, log>>, drain' \in {drain, Idle},
         Fault \/ UNCHANGED faults
  PROVE  CallsInv'
  <1>1. faults' \in 0..MaxFaults /\ faults <= faults' /\ faults \in Nat /\ faults' \in Nat
    BY FaultTypes, BoundsAreNat DEF CallsInv
  <1>2. TableOk' /\ KeepsKinds /\ LogGetsEvents /\ marker' \subseteq Marked
    BY <1>1, TableKept DEF LogGetsEvents, CallsInv
  <1>3. DrainOk'
    <2>1. CASE drain' = Idle
      BY <2>1 DEF DrainOk, Idle
    <2>2. CASE drain' = drain
      <3>1. /\ drain.pc # "idle" => \A r \in drain.todo :
                 r \in Row /\ IsEvent(r.key, r.body) /\ r.attempts <= faults'
            /\ drain.pc \in {"sent", "marked", "failed"} =>
                 drain.row \in Row /\ IsEvent(drain.row.key, drain.row.body) /\ drain.row.attempts <= faults'
        BY <1>1, RowStaysOk DEF CallsInv, DrainOk
      <3>2. drain.pc = "failed" => drain.row.attempts < faults'
        <4>1. drain.pc = "failed" => drain.row.attempts \in Nat /\ drain.row.attempts < faults
          BY BoundsAreNat DEF CallsInv, DrainOk, RowOk, Row
        <4>. QED
          BY <1>1, <4>1
      <3>. QED
        BY <2>2, <3>1, <3>2 DEF CallsInv, DrainOk, RowOk
    <2>. QED
      BY <2>1, <2>2
  <1>. QED
    BY <1>1, <1>2, <1>3, DrainTypes

LEMMA DieTypes ==
  ASSUME CallsInv, CallsDie, Fault
  PROVE  CallsInv'
  <1>1. faults' \in 0..MaxFaults /\ faults <= faults'
    BY FaultTypes
  <1>2. /\ call' = [c \in Callers |-> Idle] /\ drain' = Idle /\ UNCHANGED <<rows, marker, log>>
    BY DEF CallsDie
  <1>3. TableOk'
    BY <1>1, <1>2, TableKept
  <1>4. DrainOk' /\ \A c \in Callers : call'[c].pc = "idle"
    BY <1>2 DEF DrainOk, Idle
  <1>. QED
    BY <1>1, <1>2, <1>3, <1>4 DEF CallsInv, At
-----------------------------------------------------------------------------
(* The versions only grow, and a pipeline holds versions that were saved.  *)
LEMMA SaveDocs ==
  ASSUME DocsInv, NEW c, NEW k \in Kinds, Save(c, k)
  PROVE  DocsInv'
  <1>1. newest' = [newest EXCEPT ![k] = @ + 1] /\ newest[k] < MaxVersions[k] /\ run' \in {run, NotRunning}
    BY DEF Save
  <1>2. newest \in [Kinds -> Nat] /\ \A j \in Kinds : newest[j] <= MaxVersions[j] /\ MaxVersions[j] \in Nat
    BY BoundsAssumption DEF DocsInv
  <1>3. newest' \in [Kinds -> Nat]
        /\ \A j \in Kinds : newest'[j] <= MaxVersions[j] /\ newest[j] <= newest'[j]
    BY <1>1, <1>2
  <1>4. CASE run' = NotRunning
    BY <1>3, <1>4 DEF DocsInv, NotRunning
  <1>5. CASE run' = run
    <2>1. run.pc = "queueing" =>
            run.held \in [Kinds -> Nat] /\ \A j \in Kinds : run.held[j] <= newest'[j]
      BY <1>2, <1>3 DEF DocsInv, HeldOk
    <2>. QED
      BY <1>3, <1>5, <2>1 DEF DocsInv, HeldOk
  <1>. QED
    BY <1>1, <1>4, <1>5

LEMMA NextDocs == DocsInv /\ [Next]_vars => DocsInv'
  <1>. SUFFICES ASSUME DocsInv, [Next]_vars PROVE DocsInv'
    OBVIOUS
  <1>1. CASE UNCHANGED <<newest, run>>
    BY <1>1 DEF DocsInv, HeldOk
  <1>2. ASSUME NEW c \in Screens, NEW k \in Kinds, Save(c, k) PROVE DocsInv'
    BY <1>2, SaveDocs
  <1>3. ASSUME NEW k \in Kinds, Requeue(k) PROVE DocsInv'
    <2>1. UNCHANGED newest /\ run' = [run EXCEPT !.left = @ \ {k}] /\ run.pc = "queueing"
      BY <1>3 DEF Requeue
    <2>2. run = [pc |-> "queueing", held |-> run.held, left |-> run.left]
      BY <2>1 DEF DocsInv
    <2>3. run' = [pc |-> "queueing", held |-> run.held, left |-> run.left \ {k}]
      BY <2>1, <2>2
    <2>4. run'.pc = "queueing" /\ run'.held = run.held /\ run'.left = run.left \ {k}
      BY <2>3
    <2>. QED
      BY <2>1, <2>3, <2>4 DEF DocsInv, HeldOk
  <1>4. CASE Start
    <2>1. UNCHANGED newest /\ run' = [pc |-> "queueing", held |-> newest, left |-> Kinds]
      BY <1>4 DEF Start
    <2>2. run'.pc = "queueing" /\ run'.held = newest /\ run'.left = Kinds
      BY <2>1
    <2>. QED
      BY <2>1, <2>2 DEF DocsInv, HeldOk
  <1>5. CASE Drain \/ SkipDrain \/ End \/ Kill
    <2>1. UNCHANGED newest /\ (run' = NotRunning \/ run' = [pc |-> "draining"])
      BY <1>5 DEF Drain, SkipDrain, End, Kill
    <2>. QED
      BY <2>1 DEF DocsInv, NotRunning
  <1>. QED
    BY <1>1, <1>2, <1>3, <1>4, <1>5 DEF Next, Pipeline, vars

(* What is queued, by a screen or again by a pipeline, is a saved version. *)
LEMMA NextTypes == ShapeInv /\ CallsInv /\ DocsInv /\ [Next]_vars => CallsInv'
  <1>. SUFFICES ASSUME ShapeInv, CallsInv, DocsInv, [Next]_vars PROVE CallsInv'
    OBVIOUS
  <1>1. ASSUME UNCHANGED callVars PROVE CallsInv'
    BY <1>1, RestTypes DEF callVars
  <1>2. ASSUME NEW c \in Screens, NEW k \in Kinds, Save(c, k) PROVE CallsInv'
    <2>1. newest[k] + 1 \in 1..MaxVersions[k]
      <3>1. newest[k] \in Nat /\ MaxVersions[k] \in Nat /\ newest[k] < MaxVersions[k]
        BY <1>2, BoundsAssumption DEF Save, DocsInv
      <3>. QED
        BY <3>1
    <2>2. IsEvent(k, newest[k] + 1)
      BY <2>1, EventIs
    <2>3. (Begin(c, k, newest[k] + 1) /\ UNCHANGED faults) \/ (Fault /\ CallsDie)
      BY <1>2 DEF Save
    <2>. QED
      BY <2>2, <2>3, BeginTypes, DieTypes DEF Callers
  <1>3. ASSUME NEW k \in Kinds, Requeue(k) PROVE CallsInv'
    <2>1. CASE Skips(k)
      BY <1>1, <1>3, <2>1 DEF Requeue
    <2>2. CASE ~Skips(k)
      <3>1. /\ run.held[k] \in Nat /\ newest[k] \in Nat /\ MaxVersions[k] \in Nat
            /\ run.held[k] <= newest[k] /\ newest[k] <= MaxVersions[k] /\ run.held[k] # 0
        BY <1>3, <2>2, BoundsAssumption DEF Requeue, Skips, DocsInv, HeldOk
      <3>2. run.held[k] \in 1..MaxVersions[k]
        BY <3>1
      <3>3. IsEvent(k, run.held[k]) /\ Begin("pipeline", k, run.held[k]) /\ UNCHANGED faults
        BY <1>3, <2>2, <3>2, EventIs DEF Requeue
      <3>. QED
        BY <3>3, BeginTypes DEF Callers
    <2>. QED
      BY <2>1, <2>2
  <1>4. CASE Start \/ UNCHANGED vars
    BY <1>1, <1>4 DEF Start, vars
  <1>5. CASE Drain
    BY <1>5, LoadTypes DEF Drain
  <1>6. CASE End \/ SkipDrain
    BY <1>6, RestTypes DEF End, SkipDrain
  <1>7. CASE Kill
    BY <1>7, DieTypes DEF Kill
  <1>8. CASE DrainStep \/ SendRowFails
    BY <1>8, SendRowTypes, RowDoneTypes, RowFailedTypes DEF DrainStep
  <1>9. ASSUME NEW c \in Callers, CallStep(c) \/ CallFails(c) PROVE CallsInv'
    BY <1>9, CallStepTypes
  <1>. QED
    BY <1>2, <1>3, <1>4, <1>5, <1>6, <1>7, <1>8, <1>9 DEF Next, Pipeline, Callers

LEMMA InitTypes == Init => CallsInv /\ DocsInv
  <1>. SUFFICES ASSUME Init PROVE CallsInv /\ DocsInv
    OBVIOUS
  <1>1. /\ rows = {} /\ marker = {} /\ log = <<>> /\ faults = 0 /\ Idle.pc = "idle"
        /\ call = [c \in Callers |-> Idle] /\ drain = Idle
    BY DEF Init, CallsInit, Idle
  <1>2. log \in Seq(Event) /\ Distinct(log)
    BY <1>1 DEF Distinct
  <1>3. CallsInv
    BY <1>1, <1>2, BoundsAreNat DEF CallsInv, TableOk, DrainOk, At
  <1>4. DocsInv
    <2>1. newest = [k \in Kinds |-> 0] /\ run = NotRunning /\ \A k \in Kinds : MaxVersions[k] \in Nat
      BY BoundsAssumption DEF Init
    <2>. QED
      BY <2>1 DEF DocsInv, NotRunning
  <1>. QED
    BY <1>3, <1>4

LEMMA TypesMean == ShapeInv /\ CallsInv /\ DocsInv => TypeOK
  <1>. SUFFICES ASSUME ShapeInv, CallsInv, DocsInv PROVE TypeOK
    OBVIOUS
  <1>1. rows \subseteq Row /\ \A r, s \in rows : r.id = s.id => r = s
    BY DEF CallsInv, TableOk, RowOk
  <1>2. DOMAIN call = Callers
    BY DEF ShapeInv
  <1>3. \A c \in Callers : call[c].pc # "idle" =>
          /\ call[c].pc \in {"lookup", "insert", "update", "post", "find", "delete", "mark"}
          /\ [kind |-> call[c].kind, body |-> call[c].body] \in Event
    BY DEF CallsInv, CallOk, At, IsEvent
  <1>4. log \in Seq(Event) /\ \A i, j \in DOMAIN log : log[i] = log[j] => i = j
    BY DEF CallsInv, Distinct
  <1>5. CallsTypeOK
    BY <1>1, <1>2, <1>3, <1>4 DEF CallsTypeOK, CallsInv, DrainOk
  <1>6. \A k \in Kinds : newest[k] \in 0..MaxVersions[k]
    <2>1. \A k \in Kinds : newest[k] \in Nat /\ MaxVersions[k] \in Nat /\ newest[k] <= MaxVersions[k]
      BY BoundsAssumption DEF DocsInv
    <2>. QED
      BY <2>1
  <1>. QED
    BY <1>5, <1>6 DEF TypeOK, DocsInv, HeldOk

(* The audit calls and drains of the app keep their types: every payload   *)
(* queued, sent or logged is a version that was saved, an id names one     *)
(* row, and the log holds each event once.                                 *)
THEOREM TypeCorrect == Spec => []TypeOK
  <1>1. IInv /\ CallsInv /\ DocsInv /\ [Next]_vars => (IInv /\ CallsInv /\ DocsInv)'
    BY NextIInv, NextTypes, NextDocs DEF IInv
  <1>2. IInv /\ CallsInv /\ DocsInv => TypeOK
    BY TypesMean DEF IInv
  <1>. QED
    BY <1>1, <1>2, InitIInv, InitTypes, PTL DEF Spec

-----------------------------------------------------------------------------
(* No version is made up: what a call or a drain queues, sends or logs was *)
(* in the queue, in a call, in the drain or in the log before.             *)
InUse(k, v) ==
  \/ \E r \in rows : r.key = k /\ r.body = v
  \/ \E c \in Callers : ~At(c, "idle") /\ call[c].kind = k /\ call[c].body = v
  \/ drain.pc # "idle" /\ \E r \in drain.todo : r.key = k /\ r.body = v
  \/ drain.pc \in {"sent", "marked", "failed"} /\ drain.row.key = k /\ drain.row.body = v
  \/ Has(k, v, log)

LEMMA EventsEqual ==
  ASSUME NEW k, NEW v, NEW j, NEW w, [kind |-> k, body |-> v] = [kind |-> j, body |-> w]
  PROVE  k = j /\ v = w
  <1>1. PICK e : e = [kind |-> k, body |-> v]
    OBVIOUS
  <1>2. PICK f : f = [kind |-> j, body |-> w]
    OBVIOUS
  <1>3. e.kind = k /\ e.body = v /\ f.kind = j /\ f.body = w /\ e = f
    BY <1>1, <1>2
  <1>. QED
    BY <1>3

LEMMA AppendAdds ==
  ASSUME ShapeInv, NEW j, NEW w, log' = AppendEvent(j, w), NEW k, NEW v, Has(k, v, log')
  PROVE  Has(k, v, log) \/ (k = j /\ v = w)
  <1>1. [kind |-> k, body |-> v] \in ToSet(log) \cup {[kind |-> j, body |-> w]}
    BY AppendKeeps DEF ShapeInv, Has
  <1>. QED
    BY <1>1, EventsEqual DEF Has

(* A call goes on with its event, or ends.                                 *)
GoesOn(c, next) ==
  /\ Becomes(c, next) /\ ~At(c, "idle") /\ UNCHANGED drain
  /\ next = Idle \/ (Shaped(next) /\ next.kind = call[c].kind /\ next.body = call[c].body)
  /\ log' = log \/ log' = AppendEvent(call[c].kind, call[c].body)

LEMMA KeepsEvent ==
  ASSUME NEW o, Shaped(o), NEW pc, NEW id
  PROVE  /\ Shaped(GoOn(o, pc, id)) /\ GoOn(o, pc, id).pc = pc /\ GoOn(o, pc, id).id = id
         /\ GoOn(o, pc, id).kind = o.kind /\ GoOn(o, pc, id).body = o.body
  <1>1. PICK next : next = GoOn(o, pc, id)
    OBVIOUS
  <1>2. next = [pc |-> pc, kind |-> o.kind, body |-> o.body, id |-> id, retry |-> o.retry]
    BY <1>1 DEF Shaped, GoOn
  <1>3. Shaped(next) /\ next.pc = pc /\ next.id = id /\ next.kind = o.kind /\ next.body = o.body
    BY <1>2 DEF Shaped
  <1>. QED
    BY <1>1, <1>3

LEMMA CallNext ==
  ASSUME ShapeInv, NEW c \in Callers, CallStep(c) \/ CallFails(c)
  PROVE  \E next : GoesOn(c, next)
  <1>0. ~At(c, "idle") /\ UNCHANGED drain
        /\ (log' = log \/ log' = AppendEvent(call[c].kind, call[c].body))
    BY DEF CallStep, CallFails, LookUp, Update, Insert, PostSucceeds, Find, Delete, Mark,
           NoSession, PostFails, At
  <1>1. ASSUME NEW pc, NEW id, Becomes(c, [call[c] EXCEPT !.pc = pc, !.id = id])
        PROVE  \E next : GoesOn(c, next)
    <2>1. PICK next : next = GoOn(call[c], pc, id)
      OBVIOUS
    <2>2. Shaped(call[c])
      BY <1>0 DEF ShapeInv, At
    <2>3. Shaped(next) /\ next.kind = call[c].kind /\ next.body = call[c].body
      BY <2>1, <2>2, KeepsEvent
    <2>4. Becomes(c, next)
      BY <1>1, <2>1 DEF GoOn
    <2>. QED
      BY <1>0, <2>3, <2>4 DEF GoesOn
  <1>2. CASE Becomes(c, Idle)
    BY <1>0, <1>2 DEF GoesOn
  <1>3. CASE PostFails(c)
    <2>1. PICK o : o = call[c] /\ Shaped(o)
      BY <1>0 DEF ShapeInv, At
    <2>2. PICK next : next = [o EXCEPT !.pc = "lookup", !.retry = TRUE]
      OBVIOUS
    <2>3. next = [pc |-> "lookup", kind |-> o.kind, body |-> o.body, id |-> o.id, retry |-> TRUE]
      BY <2>1, <2>2 DEF Shaped
    <2>4. Shaped(next) /\ next.kind = o.kind /\ next.body = o.body
      BY <2>3 DEF Shaped
    <2>5. Becomes(c, next)
      BY <1>3, <2>1, <2>2 DEF PostFails
    <2>. QED
      BY <1>0, <2>1, <2>4, <2>5 DEF GoesOn
  <1>4. \/ Becomes(c, Idle) \/ PostFails(c)
        \/ \E pc, id : Becomes(c, [call[c] EXCEPT !.pc = pc, !.id = id])
    <2>1. CASE LookUp(c)
      BY <2>1 DEF LookUp, Goes
    <2>2. CASE Update(c) \/ Insert(c)
      BY <2>2 DEF Update, Insert, Enqueued, Goes
    <2>3. CASE PostSucceeds(c) \/ Delete(c)
      BY <2>3 DEF PostSucceeds, Delete, Goes
    <2>4. CASE Find(c)
      BY <2>4 DEF Find, Goes
    <2>5. CASE Mark(c) \/ NoSession(c)
      BY <2>5 DEF Mark, NoSession
    <2>. QED
      BY <2>1, <2>2, <2>3, <2>4, <2>5 DEF CallStep, CallFails
  <1>. QED
    BY <1>1, <1>2, <1>3, <1>4

(* A row after a call's step is one that was there, or has its event.      *)
LEMMA CallRows ==
  ASSUME CallsInv, ShapeInv, NEW c \in Callers, CallStep(c) \/ CallFails(c), NEW r \in rows'
  PROVE  \/ \E s \in rows : s.key = r.key /\ s.body = r.body
         \/ r.key = call[c].kind /\ r.body = call[c].body
  <1>1. CASE Update(c)
    <2>1. PICK s \in rows :
            r = IF s.id = call[c].id THEN [s EXCEPT !.body = call[c].body] ELSE s
      BY <1>1 DEF Update
    <2>2. CASE s.id = call[c].id
      <3>1. s \in Row /\ s.key = call[c].kind
        BY <1>1, <2>2 DEF CallsInv, TableOk, RowOk, FoundOk, Update, At
      <3>2. r = [s EXCEPT !.body = call[c].body]
        BY <2>1, <2>2
      <3>3. r.key = s.key /\ r.body = call[c].body
        BY <3>1, <3>2 DEF Row
      <3>. QED
        BY <3>1, <3>3
    <2>. QED
      BY <2>1, <2>2
  <1>2. CASE Insert(c)
    <2>1. PICK new : new = [id |-> NewId, key |-> call[c].kind, at |-> NewId,
                            attempts |-> 0, body |-> call[c].body]
      OBVIOUS
    <2>2. rows' = rows \cup {new} /\ new.key = call[c].kind /\ new.body = call[c].body
      BY <1>2, <2>1 DEF Insert
    <2>. QED
      BY <2>2
  <1>3. CASE Delete(c)
    BY <1>3 DEF Delete, WithoutIds
  <1>4. CASE UNCHANGED rows
    BY <1>4
  <1>. QED
    BY <1>1, <1>2, <1>3, <1>4 DEF CallStep, CallFails, LookUp, PostSucceeds, Find, Mark,
       NoSession, PostFails

LEMMA CallUses ==
  ASSUME CallsInv, ShapeInv, NEW c \in Callers, CallStep(c) \/ CallFails(c),
         NEW k, NEW v, InUse(k, v)'
  PROVE  InUse(k, v)
  <1>1. PICK next : GoesOn(c, next)
    BY CallNext
  <1>2. \A d \in Callers : call'[d] = IF d = c THEN next ELSE call[d]
    BY <1>1 DEF GoesOn, ShapeInv, Becomes
  <1>3. CASE \E r \in rows' : r.key = k /\ r.body = v
    BY <1>1, <1>3, CallRows DEF InUse, GoesOn
  <1>4. CASE \E d \in Callers : call'[d].pc # "idle" /\ call'[d].kind = k /\ call'[d].body = v
    BY <1>1, <1>2, <1>4 DEF InUse, GoesOn, At, Idle
  <1>5. CASE Has(k, v, log')
    BY <1>1, <1>5, AppendAdds DEF InUse, GoesOn
  <1>6. CASE drain' = drain /\ ((drain.pc # "idle" /\ \E r \in drain.todo : r.key = k /\ r.body = v)
               \/ (drain.pc \in {"sent", "marked", "failed"} /\ drain.row.key = k /\ drain.row.body = v))
    BY <1>6 DEF InUse
  <1>. QED
    BY <1>1, <1>3, <1>4, <1>5, <1>6 DEF InUse, GoesOn, At

(* A failed row keeps all but its attempts.                                *)
LEMMA FailedRows ==
  ASSUME CallsInv, RowFailed
  PROVE  \A r \in rows' : \E s \in rows : s.id = r.id /\ s.key = r.key /\ s.body = r.body
  <1>. SUFFICES ASSUME NEW r \in rows'
                PROVE  \E s \in rows : s.id = r.id /\ s.key = r.key /\ s.body = r.body
    OBVIOUS
  <1>1. PICK s \in rows :
          r = IF s.id = drain.row.id THEN [s EXCEPT !.attempts = drain.row.attempts + 1] ELSE s
    BY DEF RowFailed, MarkAttempt
  <1>2. s \in Row
    BY DEF CallsInv, TableOk, RowOk
  <1>3. s.id = r.id /\ s.key = r.key /\ s.body = r.body
    BY <1>1, <1>2 DEF Row
  <1>. QED
    BY <1>3

LEMMA BeginUses ==
  ASSUME ShapeInv, NEW c \in Callers, NEW j, NEW w, Begin(c, j, w), NEW k, NEW v, InUse(k, v)'
  PROVE  InUse(k, v) \/ (k = j /\ v = w)
  <1>1. PICK next : next = [pc |-> "lookup", kind |-> j, body |-> w, id |-> 0, retry |-> FALSE]
    OBVIOUS
  <1>2. next.kind = j /\ next.body = w /\ Becomes(c, next) /\ UNCHANGED <<rows, drain, log>>
    BY <1>1 DEF Begin
  <1>3. \A d \in Callers : call'[d] = IF d = c THEN next ELSE call[d]
    BY <1>2 DEF ShapeInv, Becomes
  <1>4. CASE \E d \in Callers : call'[d].pc # "idle" /\ call'[d].kind = k /\ call'[d].body = v
    BY <1>2, <1>3, <1>4 DEF InUse, At
  <1>. QED
    BY <1>2, <1>4 DEF InUse, At, Has

LEMMA DrainUses ==
  ASSUME ShapeInv, CallsInv, DrainStep \/ SendRowFails \/ Load \/ CallsDie, NEW k, NEW v, InUse(k, v)'
  PROVE  InUse(k, v)
  <1>1. CASE SendRow \/ SendRowFails
    <2>1. PICK r \in drain.todo, pc \in {"sent", "failed"} :
            drain' = [pc |-> pc, todo |-> drain.todo \ {r}, row |-> r]
      BY <1>1 DEF SendRow, SendRowFails, DrainRow, NextInLine
    <2>2. drain'.todo = drain.todo \ {r} /\ drain'.row = r /\ drain.pc = "send"
      BY <1>1, <2>1 DEF SendRow, SendRowFails
    <2>3. UNCHANGED <<rows, call>>
          /\ (log' = log \/ log' = AppendEvent(r.key, r.body))
      BY <1>1, <2>2 DEF SendRow, SendRowFails, DrainKeepsRest
    <2>4. CASE Has(k, v, log')
      BY <2>2, <2>3, <2>4, AppendAdds DEF InUse
    <2>. QED
      BY <2>2, <2>3, <2>4 DEF InUse, At
  <1>2. CASE MarkRow \/ DeleteRow
    <2>1. drain = [pc |-> drain.pc, todo |-> drain.todo, row |-> drain.row]
          /\ drain.pc \in {"sent", "marked"}
      BY <1>2 DEF MarkRow, DeleteRow, ShapeInv
    <2>2. drain' = [drain EXCEPT !.pc = "marked"] \/ drain' = [drain EXCEPT !.pc = "send"]
      BY <1>2 DEF MarkRow, DeleteRow
    <2>3. drain'.todo = drain.todo /\ drain'.row = drain.row
      BY <2>1, <2>2
    <2>4. rows' \subseteq rows /\ UNCHANGED <<call, log>>
      BY <1>2 DEF MarkRow, DeleteRow, WithoutIds, DrainKeepsRest
    <2>. QED
      BY <2>1, <2>3, <2>4 DEF InUse, At, Has
  <1>3. CASE RowFailed
    <2>1. drain = [pc |-> drain.pc, todo |-> drain.todo, row |-> drain.row] /\ drain.pc = "failed"
      BY <1>3 DEF RowFailed, ShapeInv
    <2>2. drain' = [drain EXCEPT !.pc = "send"] /\ UNCHANGED <<call, log>>
      BY <1>3 DEF RowFailed, DrainKeepsRest
    <2>3. drain' = [pc |-> "send", todo |-> drain.todo, row |-> drain.row]
      BY <2>1, <2>2
    <2>4. drain'.todo = drain.todo /\ drain'.row = drain.row /\ drain'.pc = "send"
      BY <2>3
    <2>. QED
      BY <2>1, <2>2, <2>4, <1>3, FailedRows DEF InUse, At, Has, RowFailed
  <1>4. CASE Load
    <2>1. rows' \subseteq rows /\ drain' = [pc |-> "send", todo |-> rows'] /\ UNCHANGED <<call, log>>
      BY <1>4 DEF Load, DrainKeepsRest
    <2>2. drain'.pc = "send" /\ drain'.todo = rows'
      BY <2>1
    <2>. QED
      BY <2>1, <2>2 DEF InUse, At, Has
  <1>5. CASE CallsDie
    <2>1. /\ call' = [c \in Callers |-> Idle] /\ drain' = Idle /\ UNCHANGED <<rows, log>>
          /\ Idle.pc = "idle"
      BY <1>5 DEF CallsDie, Idle
    <2>. QED
      BY <2>1 DEF InUse, At, Has
  <1>. QED
    BY <1>1, <1>2, <1>3, <1>4, <1>5 DEF DrainStep

-----------------------------------------------------------------------------
(* The draft of a walk: MappingDraft, with its pipeline in `restore`.      *)
CONSTANT MaxClears
VARIABLES draft, clock, clears, walk, offer, restore, quiet

Drafts == INSTANCE MappingDraft WITH run <- restore

(* The assumptions of MappingDraft.                                        *)
DraftsAssumption ==
  Kinds = {"saved", "cleared"} /\ MaxVersions["cleared"] = 1 /\ MaxClears \in Nat

LEMMA SameTerms ==
  /\ Drafts!Idle = Idle /\ Drafts!Callers = Callers /\ Drafts!Event = Event
  /\ Drafts!callVars = callVars /\ Drafts!NewId = NewId
  /\ Drafts!Fault <=> Fault
  /\ Drafts!Load <=> Load
  /\ Drafts!CallsDie <=> CallsDie
  /\ Drafts!DrainDone <=> DrainDone
  /\ \A c, pc : Drafts!At(c, pc) <=> At(c, pc)
  /\ \A k, v : Drafts!AppendEvent(k, v) = AppendEvent(k, v)
  /\ \A k : Drafts!Logged(k) = Logged(k) /\ Drafts!Latest(k) = Latest(k)
  BY DEF Drafts!Idle, Idle, Drafts!Callers, Callers, Drafts!Event, Event, Drafts!callVars, callVars,
         Drafts!NewId, NewId, Drafts!UsedIds, UsedIds, Drafts!Fault, Fault, Drafts!Load, Load,
         Drafts!DeleteRows, DeleteRows, Drafts!Keeps, Keeps, Drafts!Older, Older,
         Drafts!DrainKeepsRest, DrainKeepsRest, Drafts!CallsDie, CallsDie,
         Drafts!DrainDone, DrainDone, Drafts!At, At, Drafts!AppendEvent, AppendEvent,
         Drafts!ToSet, ToSet, Drafts!RemoveAt, RemoveAt, Drafts!Logged, Logged,
         Drafts!Latest, Latest, Drafts!Max, Max

LEMMA SameCalls ==
  ASSUME NEW c
  PROVE  /\ Drafts!CallStep(c) <=> CallStep(c)
         /\ Drafts!CallFails(c) <=> CallFails(c)
         /\ \A k, v : Drafts!Begin(c, k, v) <=> Begin(c, k, v)
  BY SameTerms
     DEF Drafts!CallStep, CallStep, Drafts!CallFails, CallFails, Drafts!Begin, Begin,
         Drafts!LookUp, LookUp, Drafts!Update, Update, Drafts!Insert, Insert,
         Drafts!PostSucceeds, PostSucceeds, Drafts!Find, Find, Drafts!Delete, Delete,
         Drafts!Mark, Mark, Drafts!NoSession, NoSession, Drafts!PostFails, PostFails,
         Drafts!Offline, Offline, Drafts!Enqueued, Enqueued, Drafts!Becomes, Becomes,
         Drafts!Goes, Goes, Drafts!FirstMatch, FirstMatch, Drafts!Older, Older,
         Drafts!WithoutIds, WithoutIds

LEMMA SameDrain ==
  /\ Drafts!DrainStep <=> DrainStep
  /\ Drafts!SendRowFails <=> SendRowFails
  BY SameTerms
     DEF Drafts!DrainStep, DrainStep, Drafts!SendRowFails, SendRowFails, Drafts!SendRow, SendRow,
         Drafts!MarkRow, MarkRow, Drafts!DeleteRow, DeleteRow, Drafts!RowFailed, RowFailed,
         Drafts!DrainRow, DrainRow, Drafts!NextInLine, NextInLine, Drafts!MarkAttempt, MarkAttempt,
         Drafts!WithoutIds, WithoutIds, Drafts!DrainKeepsRest, DrainKeepsRest

(* The draft has a stamp of the clock, and the pipeline fetched one.       *)
PhaseInv ==
  /\ restore.pc \in {"idle", "fetched", "persist", "queue", "queueing", "draining"}
  /\ restore.pc # "queueing" => At("pipeline", "idle")
  /\ drain.pc = "idle" <=> restore.pc # "draining"

DraftInv ==
  /\ draft \in Nat /\ clock \in Nat /\ draft <= clock /\ clock <= MaxVersions["saved"]
  /\ clears \in 0..MaxClears
  /\ restore.pc \in {"fetched", "persist"} =>
       /\ restore = [pc |-> restore.pc, saved |-> restore.saved, cleared |-> restore.cleared]
       /\ restore.saved \in Nat /\ restore.saved <= clock
  /\ quiet \in BOOLEAN

WalkInv ==
  /\ walk \in [open : BOOLEAN, points : BOOLEAN, armed : BOOLEAN]
  /\ (walk.open \/ walk = Drafts!Closed) /\ offer \in BOOLEAN /\ (offer => walk.open)

SavedInv == \A v : InUse("saved", v) => v <= clock

(* What a step of MappingDraft does to the calls and the drain.            *)
BeginSaved(c, v) == Begin(c, "saved", v) /\ IsEvent("saved", v) /\ UNCHANGED faults
BeginCleared(c) == Begin(c, "cleared", 1) /\ UNCHANGED faults
Rests ==
  /\ UNCHANGED <<rows, marker, call, log>> /\ drain' \in {drain, Idle}
  /\ Fault \/ UNCHANGED faults

CallsMove ==
  \/ Rests \/ Load \/ (Fault /\ CallsDie) \/ DrainStep \/ SendRowFails
  \/ \E c \in Callers : \/ CallStep(c) \/ CallFails(c) \/ BeginCleared(c)
                        \/ BeginSaved(c, draft) \/ BeginSaved(c, clock')

LEMMA MaxIsNat == ASSUME DraftsAssumption
  PROVE  MaxVersions["saved"] \in Nat /\ MaxVersions["cleared"] \in Nat
  BY BoundsAssumption DEF DraftsAssumption

LEMMA DraftMoves ==
  ASSUME DraftsAssumption, DraftInv, [Drafts!Next]_(Drafts!vars)
  PROVE  CallsMove
  <1>. USE SameTerms
  <1>1. CASE UNCHANGED Drafts!callVars
    BY <1>1 DEF CallsMove, Rests, Drafts!callVars
  <1>2. CASE Drafts!Open \/ Drafts!Resume \/ Drafts!Cancel \/ Drafts!Change \/ Drafts!Close
             \/ UNCHANGED Drafts!vars
    BY <1>1, <1>2 DEF Drafts!Open, Drafts!Resume, Drafts!Cancel, Drafts!Change, Drafts!Close,
       Drafts!ScreenOnly, Drafts!vars
  <1>3. ASSUME NEW c \in Screens, Drafts!Clear(c) PROVE CallsMove
    <2>1. BeginCleared(c)
      BY <1>3, SameCalls DEF Drafts!Clear, BeginCleared
    <2>. QED
      BY <2>1 DEF CallsMove, Callers
  <1>4. ASSUME NEW c \in Screens, Drafts!Autosave(c) PROVE CallsMove
    <2>1. CASE walk.points
      <3>1. clock' = clock + 1 /\ clock < MaxVersions["saved"]
        BY <1>4, <2>1 DEF Drafts!Autosave
      <3>2. clock' \in 1..MaxVersions["saved"]
        BY <3>1, MaxIsNat DEF DraftInv
      <3>3. IsEvent("saved", clock')
        BY <3>2, EventIs DEF DraftsAssumption
      <3>4. Begin(c, "saved", clock') /\ UNCHANGED faults
        BY <1>4, <2>1, SameCalls DEF Drafts!Autosave
      <3>. QED
        BY <3>3, <3>4 DEF CallsMove, BeginSaved, Callers
    <2>2. CASE ~walk.points
      BY <1>3, <1>4, <2>2 DEF Drafts!Autosave
    <2>. QED
      BY <2>1, <2>2
  <1>5. ASSUME NEW c \in Screens, Drafts!SavePlot(c) PROVE CallsMove
    BY <1>3, <1>5 DEF Drafts!SavePlot
  <1>6. CASE Drafts!Fetch \/ Drafts!RestoreClears \/ Drafts!LoadLocal \/ Drafts!RestoreDraft
    BY <1>1, <1>6 DEF Drafts!Fetch, Drafts!RestoreClears, Drafts!LoadLocal, Drafts!RestoreDraft
  <1>7. CASE Drafts!FetchFails \/ Drafts!End
    BY <1>7 DEF Drafts!FetchFails, Drafts!End, CallsMove, Rests
  <1>8. CASE Drafts!Requeue
    <2>1. CASE draft = 0
      BY <1>1, <1>8, <2>1 DEF Drafts!Requeue
    <2>2. CASE draft # 0
      <3>1. draft \in 1..MaxVersions["saved"]
        BY <2>2, MaxIsNat DEF DraftInv
      <3>2. IsEvent("saved", draft)
        BY <3>1, EventIs DEF DraftsAssumption
      <3>3. Begin("pipeline", "saved", draft) /\ UNCHANGED faults
        BY <1>8, <2>2, SameCalls DEF Drafts!Requeue
      <3>. QED
        BY <3>2, <3>3 DEF CallsMove, BeginSaved, Callers
    <2>. QED
      BY <2>1, <2>2
  <1>9. CASE Drafts!Drain \/ Drafts!Kill
    BY <1>9 DEF Drafts!Drain, Drafts!Kill, CallsMove
  <1>10. ASSUME NEW c \in Callers, Drafts!CallStep(c) \/ Drafts!CallFails(c) PROVE CallsMove
    BY <1>10, SameCalls DEF CallsMove
  <1>11. CASE Drafts!DrainStep \/ Drafts!SendRowFails
    BY <1>11, SameDrain DEF CallsMove
  <1>. QED
    BY <1>2, <1>3, <1>4, <1>5, <1>6, <1>7, <1>8, <1>9, <1>10, <1>11
       DEF Drafts!Next, Drafts!Pipeline, Callers

LEMMA MovesKeep ==
  ASSUME DraftsAssumption, IInv, CallsInv, CallsMove
  PROVE  IInv' /\ CallsInv'
  <1>. ShapeInv
    BY DEF IInv
  <1>1. CASE Rests
    <2>1. CallsInv'
      BY <1>1, RestTypes DEF Rests
    <2>2. IInv'
      <3>1. CASE drain' = Idle
        BY <1>1, <3>1, RunKeeps DEF Rests
      <3>2. CASE drain' = drain
        BY <1>1, <3>2, DrainMoves DEF Rests, LogGrows, IInv, ShapeInv, PostedInv
      <3>. QED
        BY <1>1, <3>1, <3>2 DEF Rests
    <2>. QED
      BY <2>1, <2>2
  <1>2. CASE Load
    BY <1>2, RunKeeps, LoadTypes
  <1>3. CASE Fault /\ CallsDie
    BY <1>3, DieKeeps, DieTypes
  <1>4. CASE DrainStep \/ SendRowFails
    BY <1>4, DrainKeeps, SendRowTypes, RowDoneTypes, RowFailedTypes DEF DrainStep
  <1>5. ASSUME NEW c \in Callers, CallStep(c) \/ CallFails(c) PROVE IInv' /\ CallsInv'
    BY <1>5, CallKeeps, CallStepTypes
  <1>6. ASSUME NEW c \in Callers, NEW v, BeginSaved(c, v) PROVE IInv' /\ CallsInv'
    BY <1>6, BeginKeeps, BeginTypes DEF BeginSaved
  <1>7. ASSUME NEW c \in Callers, BeginCleared(c) PROVE IInv' /\ CallsInv'
    <2>1. IsEvent("cleared", 1)
      BY EventIs DEF DraftsAssumption
    <2>. QED
      BY <1>7, <2>1, BeginKeeps, BeginTypes DEF BeginCleared
  <1>. QED
    BY <1>1, <1>2, <1>3, <1>4, <1>5, <1>6, <1>7 DEF CallsMove

LEMMA MovesUse ==
  ASSUME ShapeInv, CallsInv, CallsMove, NEW v, InUse("saved", v)'
  PROVE  InUse("saved", v) \/ v \in {draft, clock'}
  <1>1. CASE Rests
    <2>1. UNCHANGED <<rows, marker, call, log>> /\ (drain' = drain \/ drain'.pc = "idle")
      BY <1>1 DEF Rests, Idle
    <2>. QED
      BY <2>1 DEF InUse, Has, At
  <1>2. CASE Load \/ CallsDie \/ DrainStep \/ SendRowFails
    BY <1>2, DrainUses
  <1>3. ASSUME NEW c \in Callers, CallStep(c) \/ CallFails(c) PROVE InUse("saved", v)
    BY <1>3, CallUses
  <1>4. ASSUME NEW c \in Callers, NEW w, BeginSaved(c, w) PROVE InUse("saved", v) \/ v = w
    BY <1>4, BeginUses DEF BeginSaved
  <1>5. ASSUME NEW c \in Callers, BeginCleared(c) PROVE InUse("saved", v)
    BY <1>5, BeginUses DEF BeginCleared
  <1>. QED
    BY <1>1, <1>2, <1>3, <1>4, <1>5 DEF CallsMove

(* Only the caller itself moves, and a drain's steps stay in the drain.    *)
LEMMA OthersStay ==
  ASSUME ShapeInv, NEW c \in Callers, CallStep(c) \/ CallFails(c)
  PROVE  /\ ~At(c, "idle") /\ UNCHANGED drain
         /\ \A d \in Callers : d # c => call'[d] = call[d]
  BY CallNext DEF GoesOn, Becomes, ShapeInv

LEMMA BeginMoves ==
  ASSUME ShapeInv, NEW c \in Callers, NEW k, NEW v, Begin(c, k, v)
  PROVE  /\ UNCHANGED <<rows, drain, log>> /\ At(c, "idle")
         /\ call'[c].pc = "lookup" /\ call'[c].kind = k /\ call'[c].body = v
         /\ \A d \in Callers : d # c => call'[d] = call[d]
  <1>1. PICK next : next = [pc |-> "lookup", kind |-> k, body |-> v, id |-> 0, retry |-> FALSE]
    OBVIOUS
  <1>2. next.pc = "lookup" /\ next.kind = k /\ next.body = v /\ Becomes(c, next)
    BY <1>1 DEF Begin
  <1>3. \A d \in Callers : call'[d] = IF d = c THEN next ELSE call[d]
    BY <1>2 DEF ShapeInv, Becomes
  <1>. QED
    BY <1>2, <1>3 DEF Begin

LEMMA DrainGoesOn ==
  ASSUME ShapeInv, DrainStep \/ SendRowFails
  PROVE  drain.pc # "idle" /\ drain'.pc # "idle" /\ UNCHANGED call
  <1>1. CASE SendRow \/ SendRowFails
    <2>1. PICK r \in drain.todo, pc \in {"sent", "failed"} :
            drain' = [pc |-> pc, todo |-> drain.todo \ {r}, row |-> r]
      BY <1>1 DEF SendRow, SendRowFails, DrainRow, NextInLine
    <2>. QED
      BY <1>1, <2>1 DEF SendRow, SendRowFails, DrainKeepsRest
  <1>2. CASE MarkRow \/ DeleteRow \/ RowFailed
    <2>1. PICK o : o = drain /\ o = [pc |-> o.pc, todo |-> o.todo, row |-> o.row]
      BY <1>2 DEF MarkRow, DeleteRow, RowFailed, ShapeInv
    <2>2. drain' = [o EXCEPT !.pc = "marked"] \/ drain' = [o EXCEPT !.pc = "send"]
      BY <1>2, <2>1 DEF MarkRow, DeleteRow, RowFailed
    <2>3. drain'.pc \in {"marked", "send"}
      BY <2>1, <2>2
    <2>. QED
      BY <1>2, <2>3 DEF MarkRow, DeleteRow, RowFailed, DrainKeepsRest
  <1>. QED
    BY <1>1, <1>2 DEF DrainStep

LEMMA LatestLogged ==
  ASSUME CallsInv, NEW k
  PROVE  Latest(k) = 0 \/ Has(k, Latest(k), log)
  <1>. DEFINE T == {i \in DOMAIN log : log[i].kind = k}
  <1>1. Latest(k) = IF T = {} THEN 0 ELSE log[Max(T)].body
    BY DEF Latest
  <1>2. log \in Seq(Event) /\ Len(log) \in Nat /\ DOMAIN log = 1..Len(log)
    BY DEF CallsInv
  <1>3. CASE T # {}
    <2>1. T \subseteq 1..Len(log)
      BY <1>2
    <2>2. \E x \in T : \A y \in T : x >= y
      <3>. HIDE DEF T
      <3>. QED
        BY <1>2, <1>3, <2>1, LastPlace
    <2>3. Max(T) \in T
      <3>. HIDE DEF T
      <3>. QED
        BY <2>2 DEF Max
    <2>4. PICK i : i = Max(T)
      OBVIOUS
    <2>5. i \in DOMAIN log /\ log[i].kind = k /\ Latest(k) = log[i].body
      BY <1>1, <1>3, <2>3, <2>4
    <2>6. log[i] = [kind |-> k, body |-> Latest(k)]
      <3>1. PICK e : e = log[i]
        OBVIOUS
      <3>2. e \in Event
        BY <1>2, <2>5, <3>1
      <3>3. PICK j \in Kinds : e \in [kind : {j}, body : 1..MaxVersions[j]]
        BY <3>2 DEF Event
      <3>4. e = [kind |-> e.kind, body |-> e.body]
        BY <3>3
      <3>. QED
        BY <2>5, <3>1, <3>4
    <2>. QED
      BY <2>5, <2>6 DEF Has, ToSet
  <1>. QED
    BY <1>1, <1>3

LEMMA LoggedHas ==
  ASSUME CallsInv, NEW k, NEW v
  PROVE  Has(k, v, log) => v \in Logged(k)
  <1>. SUFFICES ASSUME Has(k, v, log) PROVE v \in Logged(k)
    OBVIOUS
  <1>1. PICK i \in DOMAIN log : log[i] = [kind |-> k, body |-> v]
    BY DEF Has, ToSet
  <1>. QED
    BY <1>1 DEF Logged

LEMMA FetchedIsSaved ==
  ASSUME DraftInv, CallsInv, SavedInv
  PROVE  Latest("saved") \in Nat /\ Latest("saved") <= clock
  <1>1. CASE Latest("saved") = 0
    BY <1>1 DEF DraftInv
  <1>2. CASE Has("saved", Latest("saved"), log)
    <2>1. Latest("saved") <= clock
      BY <1>2 DEF SavedInv, InUse
    <2>2. IsEvent("saved", Latest("saved"))
      BY <1>2 DEF Has, ToSet, CallsInv, IsEvent
    <2>. QED
      BY <2>1, <2>2, EventOf
  <1>. QED
    BY <1>1, <1>2, LatestLogged

LEMMA NextPhase ==
  ASSUME PhaseInv, DraftInv, ShapeInv, [Drafts!Next]_(Drafts!vars)
  PROVE  PhaseInv'
  <1>. USE SameTerms
  <1>1. CASE UNCHANGED <<restore, call, drain>>
    BY <1>1 DEF PhaseInv, At
  <1>2. CASE Drafts!Open \/ Drafts!Resume \/ Drafts!Cancel \/ Drafts!Change \/ Drafts!Close
             \/ UNCHANGED Drafts!vars
    BY <1>1, <1>2 DEF Drafts!Open, Drafts!Resume, Drafts!Cancel, Drafts!Change, Drafts!Close,
       Drafts!ScreenOnly, Drafts!vars, Drafts!callVars
  <1>3. ASSUME NEW c \in Screens, NEW k, NEW v, Begin(c, k, v), UNCHANGED restore PROVE PhaseInv'
    <2>1. UNCHANGED drain /\ call'["pipeline"] = call["pipeline"]
      BY <1>3, BeginMoves, BoundsAssumption DEF Callers
    <2>. QED
      BY <1>3, <2>1 DEF PhaseInv, At
  <1>4. ASSUME NEW c \in Screens, Drafts!Autosave(c) \/ Drafts!SavePlot(c) PROVE PhaseInv'
    BY <1>3, <1>4, SameCalls DEF Drafts!Autosave, Drafts!SavePlot, Drafts!Clear
  <1>5. CASE Drafts!Fetch \/ Drafts!RestoreClears \/ Drafts!LoadLocal \/ Drafts!RestoreDraft
             \/ Drafts!FetchFails
    <2>1. UNCHANGED <<call, drain>> /\ restore.pc \in {"idle", "fetched", "persist"}
      BY <1>5 DEF Drafts!Fetch, Drafts!RestoreClears, Drafts!LoadLocal, Drafts!RestoreDraft,
         Drafts!FetchFails, Drafts!callVars
    <2>2. restore'.pc \in {"fetched", "persist", "queue"}
      <3>1. CASE Drafts!Fetch
        BY <3>1 DEF Drafts!Fetch
      <3>2. CASE Drafts!LoadLocal
        <4>1. PICK o : o = restore /\ o = [pc |-> o.pc, saved |-> o.saved, cleared |-> o.cleared]
          BY <3>2 DEF Drafts!LoadLocal, DraftInv
        <4>2. restore' = [pc |-> "queue"] \/ restore' = [o EXCEPT !.pc = "persist"]
          BY <3>2, <4>1 DEF Drafts!LoadLocal
        <4>. QED
          BY <4>1, <4>2
      <3>. QED
        BY <1>5, <3>1, <3>2 DEF Drafts!RestoreClears, Drafts!RestoreDraft, Drafts!FetchFails
    <2>. QED
      BY <2>1, <2>2 DEF PhaseInv, At
  <1>6. CASE Drafts!Requeue
    <2>1. restore.pc = "queue" /\ restore'.pc = "queueing" /\ UNCHANGED drain
      BY <1>6, SameCalls DEF Drafts!Requeue, Drafts!callVars, Begin
    <2>. QED
      BY <2>1 DEF PhaseInv, At
  <1>7. CASE Drafts!Drain
    <2>1. /\ restore'.pc = "draining" /\ UNCHANGED call /\ drain'.pc = "send"
          /\ At("pipeline", "idle")
      BY <1>7 DEF Drafts!Drain, Load, DrainKeepsRest
    <2>. QED
      BY <2>1 DEF PhaseInv, At
  <1>8. CASE Drafts!End
    <2>1. /\ restore.pc = "draining" /\ restore'.pc = "idle" /\ UNCHANGED call /\ drain'.pc = "idle"
      BY <1>8 DEF Drafts!End, Drafts!NotRunning, Idle
    <2>. QED
      BY <2>1 DEF PhaseInv, At
  <1>9. CASE Drafts!Kill
    <2>1. restore'.pc = "idle" /\ drain'.pc = "idle" /\ call' = [c \in Callers |-> Idle]
          /\ Idle.pc = "idle" /\ "pipeline" \in Callers
      BY <1>9 DEF Drafts!Kill, Drafts!NotRunning, CallsDie, Idle, Callers
    <2>. QED
      BY <2>1 DEF PhaseInv, At
  <1>10. ASSUME NEW c \in Callers, CallStep(c) \/ CallFails(c), UNCHANGED restore PROVE PhaseInv'
    <2>1. ~At(c, "idle") /\ UNCHANGED drain /\ (c # "pipeline" => call'["pipeline"] = call["pipeline"])
      BY <1>10, OthersStay DEF Callers
    <2>. QED
      BY <1>10, <2>1 DEF PhaseInv, At
  <1>11. CASE (DrainStep \/ SendRowFails) /\ UNCHANGED restore
    BY <1>11, DrainGoesOn DEF PhaseInv, At
  <1>. QED
    BY <1>2, <1>4, <1>5, <1>6, <1>7, <1>8, <1>9, <1>10, <1>11, SameCalls, SameDrain
       DEF Drafts!Next, Drafts!Pipeline, Drafts!InCall, Callers

(* LoadLocal goes on to store what it fetched, or to queue.                *)
LEMMA LoadLocalTo ==
  ASSUME DraftInv, Drafts!LoadLocal
  PROVE  \/ restore' = [pc |-> "queue"]
         \/ /\ restore' = [pc |-> "persist", saved |-> restore.saved, cleared |-> restore.cleared]
            /\ restore.saved # 0 /\ (draft = 0 \/ draft < restore.saved)
  <1>1. PICK o : o = restore /\ o = [pc |-> o.pc, saved |-> o.saved, cleared |-> o.cleared]
                 /\ o.saved \in Nat /\ draft \in Nat
    BY DEF Drafts!LoadLocal, DraftInv
  <1>2. CASE o.saved = 0 \/ (draft > 0 /\ draft >= o.saved)
    BY <1>1, <1>2 DEF Drafts!LoadLocal
  <1>3. CASE ~(o.saved = 0 \/ (draft > 0 /\ draft >= o.saved))
    <2>1. restore' = [o EXCEPT !.pc = "persist"]
      BY <1>1, <1>3 DEF Drafts!LoadLocal
    <2>2. restore' = [pc |-> "persist", saved |-> o.saved, cleared |-> o.cleared]
      BY <1>1, <2>1
    <2>. QED
      BY <1>1, <1>3, <2>2
  <1>. QED
    BY <1>2, <1>3

(* The screen of the walk.                                                 *)
LEMMA WalkGoes ==
  ASSUME WalkInv, NEW p, NEW a
  PROVE  /\ [walk EXCEPT !.points = p, !.armed = a] = [open |-> walk.open, points |-> p, armed |-> a]
         /\ [walk EXCEPT !.armed = a] = [open |-> walk.open, points |-> walk.points, armed |-> a]
         /\ walk.open \in BOOLEAN /\ walk.points \in BOOLEAN
  <1>1. PICK w : w = walk /\ w \in [open : BOOLEAN, points : BOOLEAN, armed : BOOLEAN]
    BY DEF WalkInv
  <1>2. w = [open |-> w.open, points |-> w.points, armed |-> w.armed]
    BY <1>1
  <1>3. w.open \in BOOLEAN /\ w.points \in BOOLEAN
    BY <1>1
  <1>4. [w EXCEPT !.points = p, !.armed = a] = [open |-> w.open, points |-> p, armed |-> a]
    <2>1. PICK x : x = [w EXCEPT !.points = p, !.armed = a]
      OBVIOUS
    <2>2. x = [open |-> w.open, points |-> p, armed |-> a]
      BY <1>2, <2>1
    <2>. QED
      BY <2>1, <2>2
  <1>5. [w EXCEPT !.armed = a] = [open |-> w.open, points |-> w.points, armed |-> a]
    BY <1>2
  <1>. QED
    BY <1>1, <1>3, <1>4, <1>5

LEMMA WalkBecomes ==
  ASSUME NEW p \in BOOLEAN, NEW a \in BOOLEAN,
         walk' = [open |-> TRUE, points |-> p, armed |-> a], offer' \in BOOLEAN
  PROVE  WalkInv'
  <1>1. walk' \in [open : BOOLEAN, points : BOOLEAN, armed : BOOLEAN] /\ walk'.open
    OBVIOUS
  <1>. QED
    BY <1>1 DEF WalkInv

LEMMA NextWalk ==
  ASSUME WalkInv, [Drafts!Next]_(Drafts!vars)
  PROVE  WalkInv'
  <1>1. CASE UNCHANGED <<walk, offer>>
    BY <1>1 DEF WalkInv
  <1>2. CASE Drafts!Open
    <2>1. walk' = [open |-> TRUE, points |-> FALSE, armed |-> TRUE]
      <3>1. PICK o : o = Drafts!Closed
        OBVIOUS
      <3>2. o = [open |-> FALSE, points |-> FALSE, armed |-> FALSE]
            /\ walk' = [o EXCEPT !.open = TRUE, !.armed = TRUE]
        BY <1>2, <3>1 DEF Drafts!Open, Drafts!Closed
      <3>. QED
        BY <3>2
    <2>2. offer' \in BOOLEAN
      <3>1. offer' = (draft > 0)
        BY <1>2 DEF Drafts!Open
      <3>2. CASE draft > 0
        BY <3>1, <3>2
      <3>3. CASE ~(draft > 0)
        BY <3>1, <3>3
      <3>. QED
        BY <3>2, <3>3
    <2>. QED
      BY <2>1, <2>2, WalkBecomes
  <1>3. CASE Drafts!Resume
    <2>1. walk.open = TRUE /\ walk' = [walk EXCEPT !.points = TRUE, !.armed = TRUE] /\ offer' = FALSE
      BY <1>3, WalkGoes DEF Drafts!Resume, WalkInv
    <2>2. walk' = [open |-> TRUE, points |-> TRUE, armed |-> TRUE]
      BY <2>1, WalkGoes
    <2>. QED
      BY <2>1, <2>2, WalkBecomes
  <1>4. CASE Drafts!Change
    <2>1. PICK p \in BOOLEAN : walk' = [walk EXCEPT !.points = p, !.armed = TRUE]
      BY <1>4 DEF Drafts!Change
    <2>2. walk.open = TRUE /\ offer' \in BOOLEAN
      BY <1>4, WalkGoes DEF Drafts!Change, WalkInv
    <2>3. walk' = [open |-> TRUE, points |-> p, armed |-> TRUE]
      BY <2>1, <2>2, WalkGoes
    <2>. QED
      BY <2>2, <2>3, WalkBecomes
  <1>5. CASE Drafts!Close \/ Drafts!Kill
    <2>1. walk' = [open |-> FALSE, points |-> FALSE, armed |-> FALSE] /\ offer' = FALSE
          /\ walk' = Drafts!Closed
      BY <1>5 DEF Drafts!Close, Drafts!Kill, Drafts!Closed
    <2>2. walk' \in [open : BOOLEAN, points : BOOLEAN, armed : BOOLEAN]
      BY <2>1
    <2>3. walk'.open \/ walk' = Drafts!Closed'
      BY <2>1 DEF Drafts!Closed
    <2>4. offer' \in BOOLEAN /\ (offer' => walk'.open)
      BY <2>1
    <2>. QED
      BY <2>2, <2>3, <2>4 DEF WalkInv
  <1>6. ASSUME NEW c \in Screens, Drafts!Autosave(c) PROVE WalkInv'
    <2>1. walk.armed /\ walk' = [walk EXCEPT !.armed = FALSE] /\ offer' = offer
      BY <1>6 DEF Drafts!Autosave
    <2>2. ~Drafts!Closed.armed
      BY DEF Drafts!Closed
    <2>3. walk.open = TRUE /\ walk.points \in BOOLEAN /\ offer' \in BOOLEAN
      BY <2>1, <2>2, WalkGoes DEF WalkInv
    <2>4. walk' = [open |-> TRUE, points |-> walk.points, armed |-> FALSE]
      BY <2>1, <2>3, WalkGoes
    <2>. QED
      BY <2>3, <2>4, WalkBecomes
  <1>7. CASE Drafts!Cancel
    <2>1. UNCHANGED walk /\ offer' = FALSE
      BY <1>7 DEF Drafts!Cancel
    <2>2. offer' \in BOOLEAN /\ ~offer'
      BY <2>1
    <2>. QED
      BY <2>1, <2>2 DEF WalkInv
  <1>. QED
    BY <1>1, <1>2, <1>3, <1>4, <1>5, <1>6, <1>7
       DEF Drafts!Next, Drafts!Pipeline, Drafts!InCall, Drafts!vars, Drafts!screenVars,
           Drafts!FetchFails, Drafts!Fetch, Drafts!Starts, Drafts!PipelineOnly,
           Drafts!RestoreClears, Drafts!LoadLocal, Drafts!RestoreDraft, Drafts!Requeue,
           Drafts!Drain, Drafts!End, Drafts!SavePlot

(* The draft follows the clock, which every save moves on.                 *)
LEMMA NextDraft ==
  ASSUME DraftsAssumption, DraftInv, CallsInv, SavedInv, [Drafts!Next]_(Drafts!vars)
  PROVE  DraftInv' /\ clock <= clock'
  <1>. USE SameTerms
  <1>0. clock <= clock /\ draft \in Nat /\ clock \in Nat /\ MaxVersions["saved"] \in Nat
    BY MaxIsNat DEF DraftInv
  <1>1. CASE UNCHANGED <<draft, clock, clears, restore, quiet>>
    BY <1>0, <1>1 DEF DraftInv
  <1>2. CASE Drafts!Open \/ Drafts!Resume \/ Drafts!Cancel \/ Drafts!Change \/ Drafts!Close
    <2>1. UNCHANGED <<draft, clock, clears, restore, quiet>>
      BY <1>2 DEF Drafts!Open, Drafts!Resume, Drafts!Cancel, Drafts!Change, Drafts!Close,
         Drafts!ScreenOnly, Drafts!draftVars
    <2>. QED
      BY <1>1, <2>1
  <1>3. ASSUME NEW c \in Screens, Drafts!Autosave(c) \/ Drafts!SavePlot(c)
        PROVE  DraftInv' /\ clock <= clock'
    <2>1. UNCHANGED restore
      BY <1>3 DEF Drafts!Autosave, Drafts!SavePlot, Drafts!Clear
    <2>2. CASE Drafts!Clear(c)
      <3>1. UNCHANGED clock /\ draft' = 0 /\ clears' \in 0..MaxClears
        BY <2>2 DEF Drafts!Clear, DraftInv, DraftsAssumption
      <3>2. quiet' \in BOOLEAN
        BY <2>2 DEF Drafts!Clear
      <3>. QED
        BY <1>0, <2>1, <3>1, <3>2 DEF DraftInv
    <2>3. CASE Drafts!Autosave(c) /\ walk.points
      <3>1. clock' = clock + 1 /\ clock < MaxVersions["saved"] /\ draft' = clock' /\ UNCHANGED clears
        BY <2>3 DEF Drafts!Autosave
      <3>2. quiet' \in BOOLEAN
        BY <2>3, Zenon DEF Drafts!Autosave
      <3>3. draft' \in Nat /\ clock' \in Nat /\ draft' <= clock' /\ clock' <= MaxVersions["saved"]
            /\ clock <= clock'
        BY <1>0, <3>1
      <3>4. restore.pc \in {"fetched", "persist"} => restore.saved \in Nat /\ restore.saved <= clock'
        BY <1>0, <3>1 DEF DraftInv
      <3>. QED
        BY <2>1, <3>1, <3>2, <3>3, <3>4 DEF DraftInv
    <2>. QED
      BY <1>3, <2>2, <2>3 DEF Drafts!Autosave, Drafts!SavePlot
  <1>4. CASE Drafts!Fetch
    <2>1. /\ restore' = [pc |-> "fetched", saved |-> Latest("saved"),
                         cleared |-> log # <<>> /\ Drafts!Last(log).kind = "cleared"]
          /\ UNCHANGED <<draft, clock, clears>>
      BY <1>4 DEF Drafts!Fetch, Drafts!Starts
    <2>2. Latest("saved") \in Nat /\ Latest("saved") <= clock
      BY FetchedIsSaved
    <2>3. /\ restore' = [pc |-> restore'.pc, saved |-> restore'.saved, cleared |-> restore'.cleared]
          /\ restore'.saved = Latest("saved")
      BY <2>1
    <2>4. quiet' \in BOOLEAN
      BY <1>4, Zenon DEF Drafts!Fetch, Drafts!Starts, Drafts!Crosses
    <2>. QED
      BY <1>0, <2>1, <2>2, <2>3, <2>4 DEF DraftInv
  <1>5. CASE Drafts!FetchFails \/ Drafts!Kill
    <2>1. restore'.pc \in {"queue", "idle"} /\ UNCHANGED <<draft, clock, clears>>
      BY <1>5 DEF Drafts!FetchFails, Drafts!Kill, Drafts!Starts, Drafts!NotRunning
    <2>2. quiet' \in BOOLEAN
      BY <1>5, Zenon DEF Drafts!FetchFails, Drafts!Kill, Drafts!Starts, Drafts!Crosses
    <2>. QED
      BY <1>0, <2>1, <2>2 DEF DraftInv
  <1>6. CASE Drafts!LoadLocal
    <2>1. UNCHANGED <<draft, clock, clears, quiet>> /\ restore.pc = "fetched"
      BY <1>6 DEF Drafts!LoadLocal, Drafts!PipelineOnly
    <2>2. CASE restore' = [pc |-> "queue"]
      BY <1>0, <2>1, <2>2 DEF DraftInv
    <2>3. CASE restore' = [pc |-> "persist", saved |-> restore.saved, cleared |-> restore.cleared]
      <3>1. restore'.pc = "persist" /\ restore'.saved = restore.saved /\ restore'.cleared = restore.cleared
        BY <2>3
      <3>. QED
        BY <1>0, <2>1, <2>3, <3>1 DEF DraftInv
    <2>. QED
      BY <1>6, <2>2, <2>3, LoadLocalTo
  <1>7. CASE Drafts!RestoreClears \/ Drafts!RestoreDraft
    <2>1. /\ draft' \in Nat /\ draft' <= clock /\ UNCHANGED <<clock, clears, quiet>>
          /\ restore'.pc = "queue"
      BY <1>0, <1>7 DEF Drafts!RestoreClears, Drafts!RestoreDraft, Drafts!PipelineOnly, DraftInv
    <2>. QED
      BY <1>0, <2>1 DEF DraftInv
  <1>8. CASE Drafts!Requeue \/ Drafts!Drain \/ Drafts!End
    <2>1. restore'.pc \in {"queueing", "draining", "idle"}
          /\ UNCHANGED <<draft, clock, clears, quiet>>
      BY <1>8 DEF Drafts!Requeue, Drafts!Drain, Drafts!End, Drafts!PipelineOnly, Drafts!NotRunning
    <2>. QED
      BY <1>0, <2>1 DEF DraftInv
  <1>. QED
    BY <1>1, <1>2, <1>3, <1>4, <1>5, <1>6, <1>7, <1>8
       DEF Drafts!Next, Drafts!Pipeline, Drafts!InCall, Drafts!vars, Drafts!draftVars,
           Drafts!screenVars

LEMMA SavedIsNat ==
  ASSUME CallsInv, NEW v, InUse("saved", v)
  PROVE  v \in Nat
  <1>1. IsEvent("saved", v)
    <2>1. CASE Has("saved", v, log)
      BY <2>1 DEF Has, ToSet, CallsInv, IsEvent
    <2>2. CASE ~Has("saved", v, log)
      BY <2>2 DEF InUse, CallsInv, TableOk, DrainOk, RowOk, CallOk
    <2>. QED
      BY <2>1, <2>2
  <1>. QED
    BY <1>1, EventOf

LEMMA NextSaved ==
  ASSUME DraftsAssumption, IInv, DraftInv, CallsInv, SavedInv, [Drafts!Next]_(Drafts!vars)
  PROVE  SavedInv'
  <1>1. DraftInv' /\ clock <= clock' /\ CallsMove /\ CallsInv'
    BY NextDraft, DraftMoves, MovesKeep
  <1>2. ASSUME NEW v, InUse("saved", v)' PROVE v <= clock'
    <2>1. CASE InUse("saved", v)
      <3>1. v <= clock
        BY <2>1 DEF SavedInv
      <3>2. v \in Nat
        BY <2>1, SavedIsNat
      <3>. QED
        BY <1>1, <3>1, <3>2 DEF DraftInv
    <2>2. CASE v \in {draft, clock'}
      BY <1>1, <2>2 DEF DraftInv
    <2>. QED
      BY <1>2, <2>1, <2>2, <1>1, MovesUse DEF IInv
  <1>. QED
    BY <1>2 DEF SavedInv

DraftsInv == IInv /\ CallsInv /\ PhaseInv /\ DraftInv /\ WalkInv /\ SavedInv

LEMMA InitDrafts == ASSUME DraftsAssumption PROVE Drafts!Init => DraftsInv
  <1>. SUFFICES ASSUME Drafts!Init PROVE DraftsInv
    OBVIOUS
  <1>1. /\ rows = {} /\ marker = {} /\ log = <<>> /\ faults = 0 /\ Idle.pc = "idle"
        /\ call = [c \in Callers |-> Idle] /\ drain = Idle
        /\ draft = 0 /\ clock = 0 /\ clears = 0 /\ restore = [pc |-> "idle"]
        /\ walk = [open |-> FALSE, points |-> FALSE, armed |-> FALSE] /\ walk = Drafts!Closed
    BY SameTerms DEF Drafts!Init, Drafts!CallsInit, Drafts!NotRunning, Drafts!Closed, Idle
  <1>2. log \in Seq(Event) /\ Distinct(log) /\ \E S : log \in Seq(S)
    <2>1. log \in Seq(Event) /\ Distinct(log)
      BY <1>1 DEF Distinct
    <2>. QED
      BY <2>1
  <1>3. CallsInv
    BY <1>1, <1>2, BoundsAreNat DEF CallsInv, TableOk, DrainOk, At
  <1>4. IInv
    BY <1>1, <1>2 DEF IInv, ShapeInv, PostedInv, MarkedInv
  <1>5. PhaseInv
    BY <1>1 DEF PhaseInv, At, Callers
  <1>6. DraftInv
    <2>1. quiet \in BOOLEAN
      BY DEF Drafts!Init
    <2>. QED
      BY <1>1, <2>1, MaxIsNat DEF DraftInv, DraftsAssumption
  <1>7. WalkInv
    <2>1. walk \in [open : BOOLEAN, points : BOOLEAN, armed : BOOLEAN]
      BY <1>1
    <2>2. offer \in BOOLEAN /\ ~offer
      BY DEF Drafts!Init
    <2>. QED
      BY <1>1, <2>1, <2>2 DEF WalkInv
  <1>8. SavedInv
    BY <1>1 DEF SavedInv, InUse, At, Has, ToSet
  <1>. QED
    BY <1>3, <1>4, <1>5, <1>6, <1>7, <1>8 DEF DraftsInv

LEMMA NextDrafts ==
  ASSUME DraftsAssumption PROVE DraftsInv /\ [Drafts!Next]_(Drafts!vars) => DraftsInv'
  <1>. SUFFICES ASSUME DraftsInv, [Drafts!Next]_(Drafts!vars) PROVE DraftsInv'
    OBVIOUS
  <1>1. IInv /\ CallsInv /\ PhaseInv /\ DraftInv /\ WalkInv /\ SavedInv /\ ShapeInv
    BY DEF DraftsInv, IInv
  <1>2. IInv' /\ CallsInv'
    BY <1>1, DraftMoves, MovesKeep
  <1>3. PhaseInv' /\ DraftInv' /\ WalkInv' /\ SavedInv'
    BY <1>1, NextPhase, NextDraft, NextWalk, NextSaved
  <1>. QED
    BY <1>2, <1>3 DEF DraftsInv

LEMMA DraftTypesMean ==
  ASSUME DraftsAssumption PROVE DraftsInv => Drafts!TypeOK
  <1>. SUFFICES ASSUME DraftsInv PROVE Drafts!TypeOK
    OBVIOUS
  <1>1. rows \subseteq Row /\ \A r, s \in rows : r.id = s.id => r = s
    BY DEF DraftsInv, CallsInv, TableOk, RowOk
  <1>2. DOMAIN call = Callers
    BY DEF DraftsInv, IInv, ShapeInv
  <1>3. \A c \in Callers : call[c].pc # "idle" =>
          /\ call[c].pc \in {"lookup", "insert", "update", "post", "find", "delete", "mark"}
          /\ [kind |-> call[c].kind, body |-> call[c].body] \in Event
    BY DEF DraftsInv, CallsInv, CallOk, At, IsEvent
  <1>4. log \in Seq(Event) /\ \A i, j \in DOMAIN log : log[i] = log[j] => i = j
    BY DEF DraftsInv, CallsInv, Distinct
  <1>5. Drafts!CallsTypeOK
    BY <1>1, <1>2, <1>3, <1>4, SameTerms DEF Drafts!CallsTypeOK, Drafts!Row, Row, DraftsInv, CallsInv, DrainOk
  <1>6. draft \in Drafts!Stamps /\ clock \in Drafts!Stamps /\ draft <= clock
    BY MaxIsNat DEF Drafts!Stamps, DraftsInv, DraftInv
  <1>7. restore.pc \in {"fetched", "persist"} => restore.saved \in Drafts!Stamps
    BY MaxIsNat DEF Drafts!Stamps, DraftsInv, DraftInv
  <1>. QED
    BY <1>5, <1>6, <1>7 DEF Drafts!TypeOK, DraftsInv, DraftInv, WalkInv, PhaseInv

(* The draft of a walk keeps its types through saves, clears, restores     *)
(* from the log and kills: the draft on the phone and the one a pipeline   *)
(* fetched are no newer than the last save, and a resume prompt shows on   *)
(* the open screen only.                                                   *)
THEOREM DraftTypesCorrect ==
  ASSUME DraftsAssumption PROVE Drafts!Spec => []Drafts!TypeOK
  BY InitDrafts, NextDrafts, DraftTypesMean, PTL DEF Drafts!Spec

-----------------------------------------------------------------------------
(* A quiet save that the server has not logged yet is still the draft on   *)
(* the phone, unless the log ends with a clear; it is in the only draft    *)
(* row of the queue, or about to be; and no restore is under way that      *)
(* would do more than take that cleared draft off the phone.               *)
LastCleared == log # <<>> /\ Last(log).kind = "cleared"
Unlogged == quiet /\ ~Has("saved", clock, log)

OneRow == \A r, s \in rows : r.key = s.key => r = s
StoredRow == \E r \in rows : r.key = "saved" /\ r.body = clock

KeptDraft == clock > 0 /\ draft \in {0, clock} /\ (draft = 0 => LastCleared)

(* One call at most, and a screen's only while no pipeline runs.           *)
KeptCalls ==
  \A c \in Callers : ~At(c, "idle") =>
    /\ call[c].kind = "saved" /\ call[c].body = clock
    /\ \A d \in Callers : d # c => At(d, "idle")
    /\ c \in Screens => restore.pc = "idle"
    /\ At(c, "update") => \E r \in rows : r.key = "saved" /\ r.id = call[c].id
    /\ At(c, "insert") => \A r \in rows : r.key # "saved"

KeptRow == StoredRow \/ \E c \in Screens : call[c].pc \in {"lookup", "insert", "update"}

KeptRun ==
  /\ restore.pc # "persist"
  /\ restore.pc = "fetched" /\ restore.cleared => LastCleared
  /\ restore.pc = "fetched" /\ ~restore.cleared => draft = clock

(* The drain deletes by id what it has sent: no row of the draft.          *)
KeptDrain ==
  /\ drain.pc # "idle" =>
       \A r \in drain.todo : /\ r.key = "saved" => r.body = clock
                             /\ \A x \in rows : x.id = r.id => x.key = r.key
  /\ drain.pc \in {"sent", "marked"} =>
       drain.row.key # "saved" /\ \A x \in rows : x.id = drain.row.id => x.key # "saved"

Kept == KeptDraft /\ OneRow /\ KeptCalls /\ KeptRow /\ KeptRun /\ KeptDrain
QuietInv == Unlogged => Kept

LEMMA StaysUnlogged ==
  ASSUME ShapeInv, LogGrows, UNCHANGED clock, quiet' => quiet, Unlogged'
  PROVE  Unlogged
  BY LoggedStays DEF Unlogged

(* A step beside the calls, the drain, the log and the pipeline.           *)
LEMMA QuietBeside ==
  ASSUME QuietInv, UNCHANGED <<callVars, draft, clock, quiet, restore>>
  PROVE  QuietInv'
  BY DEF QuietInv, Unlogged, Kept, KeptDraft, OneRow, KeptCalls, KeptRow, StoredRow, KeptRun,
         KeptDrain, LastCleared, callVars, At, Has

(* The save itself: nothing else runs, and no kind has two rows.           *)
LEMMA QuietSave ==
  ASSUME DraftsInv, QuietInv, NEW c \in Screens, Drafts!Autosave(c) \/ Drafts!SavePlot(c)
  PROVE  QuietInv'
  <1>. SUFFICES ASSUME Unlogged' PROVE Kept'
    BY DEF QuietInv
  <1>1. quiet'
    BY DEF Unlogged
  <1>2. ~Drafts!Clear(c)
    BY <1>1 DEF Drafts!Clear
  <1>3. /\ Drafts!Autosave(c) /\ clock' = clock + 1 /\ draft' = clock' /\ UNCHANGED restore
        /\ Begin(c, "saved", clock')
    BY <1>2, SameCalls DEF Drafts!Autosave, Drafts!SavePlot
  <1>4. /\ restore.pc = "idle" /\ \A d \in Callers \ {c} : At(d, "idle")
        /\ OneRow
    BY <1>1, <1>2, <1>3, SameTerms DEF Drafts!Autosave, Drafts!Alone, OneRow
  <1>5. c \in Callers /\ ShapeInv /\ clock \in Nat
    BY DEF Callers, DraftsInv, IInv, DraftInv
  <1>6. /\ UNCHANGED <<rows, drain, log>>
        /\ call'[c].pc = "lookup" /\ call'[c].kind = "saved" /\ call'[c].body = clock'
        /\ \A d \in Callers : d # c => call'[d] = call[d]
    BY <1>3, <1>5, BeginMoves
  <1>7. KeptDraft' /\ OneRow' /\ KeptRow' /\ KeptRun'
    BY <1>3, <1>4, <1>5, <1>6 DEF KeptDraft, OneRow, KeptRow, KeptRun
  <1>8. KeptCalls'
    BY <1>3, <1>4, <1>5, <1>6 DEF KeptCalls, At
  <1>9. KeptDrain'
    <2>1. drain.pc = "idle"
      BY <1>4 DEF DraftsInv, PhaseInv
    <2>. QED
      BY <1>6, <2>1 DEF KeptDrain
  <1>. QED
    BY <1>7, <1>8, <1>9 DEF Kept

(* With no call under way, the row of the draft is stored.                 *)
LEMMA RowWhenIdle ==
  ASSUME Kept, \A c \in Callers : At(c, "idle")
  PROVE  StoredRow
  BY DEF Kept, KeptRow, At, Callers

(* A pipeline that starts, and a kill, between calls.                      *)
LEMMA QuietStart ==
  ASSUME DraftsInv, QuietInv, Drafts!Fetch \/ Drafts!FetchFails \/ Drafts!Kill
  PROVE  QuietInv'
  <1>. SUFFICES ASSUME Unlogged' PROVE Kept'
    BY DEF QuietInv
  <1>1. Drafts!Crosses /\ UNCHANGED <<rows, log, draft, clock>>
    BY DEF Drafts!Fetch, Drafts!FetchFails, Drafts!Kill, Drafts!Starts, Drafts!callVars, Drafts!CallsDie
  <1>2. quiet /\ \A c \in Callers : At(c, "idle")
    BY <1>1, SameTerms DEF Unlogged, Drafts!Crosses
  <1>3. Kept
    BY <1>1, <1>2 DEF QuietInv, Unlogged, Has
  <1>4. StoredRow
    BY <1>2, <1>3, RowWhenIdle
  <1>5. \A c \in Callers : call'[c].pc = "idle"
    <2>1. CASE Drafts!Kill
      BY <2>1, SameTerms DEF Drafts!Kill, CallsDie, Idle
    <2>2. CASE Drafts!Fetch \/ Drafts!FetchFails
      BY <1>2, <2>2 DEF Drafts!Fetch, Drafts!FetchFails, Drafts!callVars, At
    <2>. QED
      BY <2>1, <2>2
  <1>6. KeptDraft' /\ OneRow' /\ KeptRow' /\ KeptCalls'
    BY <1>1, <1>3, <1>4, <1>5 DEF Kept, KeptDraft, LastCleared, OneRow, KeptRow, StoredRow, KeptCalls, At
  <1>7. KeptRun'
    <2>1. CASE Drafts!Fetch
      <3>1. restore'.pc = "fetched" /\ (restore'.cleared <=> LastCleared)
        BY <2>1 DEF Drafts!Fetch, LastCleared, Drafts!Last, Last
      <3>2. ~LastCleared => draft = clock
        BY <1>3 DEF Kept, KeptDraft
      <3>. QED
        BY <1>1, <3>1, <3>2 DEF KeptRun, LastCleared
    <2>2. CASE Drafts!FetchFails \/ Drafts!Kill
      <3>1. restore'.pc \in {"queue", "idle"}
        BY <2>2 DEF Drafts!FetchFails, Drafts!Kill, Drafts!NotRunning
      <3>. QED
        BY <3>1 DEF KeptRun
    <2>. QED
      BY <2>1, <2>2
  <1>8. KeptDrain'
    <2>1. CASE Drafts!Kill
      BY <2>1, SameTerms DEF Drafts!Kill, CallsDie, Idle, KeptDrain
    <2>2. CASE Drafts!Fetch \/ Drafts!FetchFails
      <3>1. UNCHANGED drain
        BY <2>2 DEF Drafts!Fetch, Drafts!FetchFails, Drafts!callVars
      <3>. QED
        BY <1>1, <1>3, <3>1 DEF Kept, KeptDrain
    <2>. QED
      BY <2>1, <2>2
  <1>. QED
    BY <1>6, <1>7, <1>8 DEF Kept

(* What the pipeline restores: a clear that is the newest event, and no    *)
(* draft, since the fetched one is no newer than the save.                 *)
LEMMA QuietRestore ==
  ASSUME DraftsInv, QuietInv, Drafts!RestoreClears \/ Drafts!LoadLocal \/ Drafts!RestoreDraft
  PROVE  QuietInv'
  <1>. SUFFICES ASSUME Unlogged' PROVE Kept'
    BY DEF QuietInv
  <1>1. UNCHANGED <<rows, call, drain, log, clock, quiet>>
    BY DEF Drafts!RestoreClears, Drafts!LoadLocal, Drafts!RestoreDraft, Drafts!PipelineOnly,
       Drafts!callVars
  <1>2. Kept
    BY <1>1 DEF QuietInv, Unlogged, Has
  <1>3. restore.pc = "fetched" /\ ~Drafts!RestoreDraft
    BY <1>2 DEF Kept, KeptRun, Drafts!RestoreClears, Drafts!LoadLocal, Drafts!RestoreDraft
  <1>4. restore'.pc = "queue" /\ draft' \in {0, clock} /\ (draft' = 0 => LastCleared)
    <2>1. CASE Drafts!RestoreClears
      BY <1>2, <2>1 DEF Drafts!RestoreClears, Kept, KeptRun
    <2>2. CASE Drafts!LoadLocal
      <3>1. UNCHANGED draft /\ draft = clock /\ clock > 0 /\ draft \in Nat
        BY <1>2, <2>2 DEF Drafts!LoadLocal, Kept, KeptRun, KeptDraft, DraftsInv, DraftInv
      <3>2. restore.saved \in Nat /\ restore.saved <= draft
        BY <1>3, <3>1 DEF DraftsInv, DraftInv
      <3>3. restore' = [pc |-> "queue"]
        BY <2>2, <3>1, <3>2, LoadLocalTo DEF DraftsInv
      <3>. QED
        BY <1>2, <3>1, <3>3 DEF Kept, KeptDraft
    <2>. QED
      BY <1>3, <2>1, <2>2
  <1>5. KeptDraft' /\ KeptRun'
    BY <1>1, <1>2, <1>4 DEF Kept, KeptDraft, KeptRun, LastCleared
  <1>6. OneRow' /\ KeptRow' /\ KeptDrain'
    BY <1>1, <1>2 DEF Kept, OneRow, KeptRow, StoredRow, KeptDrain
  <1>7. KeptCalls'
    BY <1>1, <1>2, <1>3 DEF Kept, KeptCalls, At
  <1>. QED
    BY <1>5, <1>6, <1>7 DEF Kept

(* Between its queueing and the end of its drain a pipeline runs alone.    *)
LEMMA AllIdle ==
  ASSUME Kept, PhaseInv, restore.pc # "idle", At("pipeline", "idle")
  PROVE  \A c \in Callers : At(c, "idle")
  BY DEF Kept, KeptCalls, Callers

LEMMA OneRowStays ==
  ASSUME Kept, DraftsInv
  PROVE  DeleteRows(rows) = {}
  <1>1. \A r \in rows : ~Keeps(r, r)
    <2>1. \A r \in rows : r.attempts \in Nat /\ r.at \in Nat /\ r.id \in Nat
      BY BoundsAreNat DEF DraftsInv, CallsInv, TableOk, RowOk, Row
    <2>. QED
      BY <2>1 DEF Keeps, Older
  <1>. QED
    BY <1>1 DEF DeleteRows, Kept, OneRow

LEMMA QuietQueue ==
  ASSUME DraftsInv, QuietInv, Drafts!Requeue \/ Drafts!Drain \/ Drafts!End
  PROVE  QuietInv'
  <1>. SUFFICES ASSUME Unlogged' PROVE Kept'
    BY DEF QuietInv
  <1>. USE SameTerms
  <1>1. UNCHANGED <<log, draft, clock, quiet>> /\ restore'.pc \in {"queueing", "draining", "idle"}
        /\ restore.pc \in {"queue", "queueing", "draining"} /\ At("pipeline", "idle")
    <2>1. CASE Drafts!Requeue
      BY <2>1, SameCalls
         DEF Drafts!Requeue, Drafts!PipelineOnly, Drafts!callVars, Begin, DraftsInv, PhaseInv
    <2>2. CASE Drafts!Drain
      BY <2>2 DEF Drafts!Drain, Drafts!PipelineOnly, Load
    <2>3. CASE Drafts!End
      BY <2>3 DEF Drafts!End, Drafts!PipelineOnly, Drafts!NotRunning, DraftsInv, PhaseInv
    <2>. QED
      BY <2>1, <2>2, <2>3
  <1>2. Kept
    BY <1>1 DEF QuietInv, Unlogged, Has
  <1>3. (\A c \in Callers : At(c, "idle")) /\ StoredRow
    BY <1>1, <1>2, AllIdle, RowWhenIdle DEF DraftsInv
  <1>4. KeptDraft' /\ KeptRun'
    BY <1>1, <1>2 DEF Kept, KeptDraft, KeptRun, LastCleared
  <1>5. rows' = rows
    BY <1>2, SameCalls, OneRowStays
       DEF Drafts!Requeue, Drafts!Drain, Drafts!End, Drafts!callVars, Begin, Load
  <1>6. OneRow' /\ KeptRow'
    BY <1>1, <1>2, <1>3, <1>5 DEF Kept, OneRow, KeptRow, StoredRow
  <1>7. KeptCalls'
    <2>1. CASE Begin("pipeline", "saved", draft) /\ draft # 0
      <3>1. "pipeline" \in Callers /\ "pipeline" \notin Screens /\ ShapeInv /\ draft = clock
        BY <1>2, <2>1, BoundsAssumption DEF Callers, DraftsInv, IInv, Kept, KeptDraft
      <3>2. /\ call'["pipeline"].pc = "lookup" /\ call'["pipeline"].kind = "saved"
            /\ call'["pipeline"].body = clock /\ \A d \in Callers : d # "pipeline" => call'[d] = call[d]
        BY <2>1, <3>1, BeginMoves
      <3>. QED
        BY <1>1, <1>3, <3>1, <3>2 DEF KeptCalls, At
    <2>2. CASE UNCHANGED call
      BY <1>3, <2>2 DEF KeptCalls, At
    <2>. QED
      BY <2>1, <2>2, SameCalls
         DEF Drafts!Requeue, Drafts!Drain, Drafts!End, Drafts!callVars, Load, DrainKeepsRest
  <1>8. KeptDrain'
    <2>1. CASE Drafts!Drain
      <3>1. drain' = [pc |-> "send", todo |-> rows]
        BY <1>5, <2>1 DEF Drafts!Drain, Load
      <3>2. drain'.pc = "send" /\ drain'.todo = rows
        BY <3>1
      <3>3. \A r, s \in rows : r.id = s.id => r = s
        BY DEF DraftsInv, CallsInv, TableOk
      <3>4. \A r \in rows : r.key = "saved" => r.body = clock
        BY <1>2, <1>3 DEF Kept, OneRow, StoredRow
      <3>. QED
        BY <1>1, <1>5, <3>2, <3>3, <3>4 DEF KeptDrain
    <2>2. CASE Drafts!End
      <3>1. drain'.pc = "idle"
        BY <2>2 DEF Drafts!End, Idle
      <3>. QED
        BY <3>1 DEF KeptDrain
    <2>3. CASE Drafts!Requeue
      <3>1. UNCHANGED drain
        BY <2>3, SameCalls DEF Drafts!Requeue, Drafts!callVars, Begin
      <3>. QED
        BY <1>1, <1>2, <1>5, <3>1 DEF Kept, KeptDrain
    <2>. QED
      BY <2>1, <2>2, <2>3
  <1>. QED
    BY <1>4, <1>6, <1>7, <1>8 DEF Kept

(* A call: it stores the draft under its kind, or finds it stored.         *)
LEMMA GoesTo ==
  ASSUME ShapeInv, NEW c \in Callers, ~At(c, "idle"), NEW pc, NEW id,
         Becomes(c, [call[c] EXCEPT !.pc = pc, !.id = id])
  PROVE  /\ call'[c].pc = pc /\ call'[c].id = id
         /\ call'[c].kind = call[c].kind /\ call'[c].body = call[c].body
  <1>1. PICK next : next = GoOn(call[c], pc, id)
    OBVIOUS
  <1>2. next.pc = pc /\ next.id = id /\ next.kind = call[c].kind /\ next.body = call[c].body
    BY <1>1, KeepsEvent DEF ShapeInv, At
  <1>3. call'[c] = next
    BY <1>1 DEF Becomes, ShapeInv, GoOn
  <1>. QED
    BY <1>2, <1>3

LEMMA UpdatedRows ==
  ASSUME CallsInv, NEW c \in Callers, Update(c)
  PROVE  \A r \in rows' : \E s \in rows :
           /\ s.id = r.id /\ s.key = r.key
           /\ r = IF s.id = call[c].id THEN [s EXCEPT !.body = call[c].body] ELSE s
  <1>. SUFFICES ASSUME NEW r \in rows'
                PROVE  \E s \in rows :
                         /\ s.id = r.id /\ s.key = r.key
                         /\ r = IF s.id = call[c].id THEN [s EXCEPT !.body = call[c].body] ELSE s
    OBVIOUS
  <1>1. PICK s \in rows : r = IF s.id = call[c].id THEN [s EXCEPT !.body = call[c].body] ELSE s
    BY DEF Update
  <1>2. s \in Row
    BY DEF CallsInv, TableOk, RowOk
  <1>3. s.id = r.id /\ s.key = r.key
    BY <1>1, <1>2 DEF Row
  <1>. QED
    BY <1>1, <1>3

LEMMA UpdateStores ==
  ASSUME CallsInv, NEW c \in Callers, Update(c), NEW s \in rows, s.id = call[c].id
  PROVE  \E r \in rows' : r.key = s.key /\ r.body = call[c].body
  <1>1. PICK r : r = [s EXCEPT !.body = call[c].body]
    OBVIOUS
  <1>2. r \in rows'
    BY <1>1 DEF Update
  <1>3. s \in Row
    BY DEF CallsInv, TableOk, RowOk
  <1>4. r.key = s.key /\ r.body = call[c].body
    BY <1>1, <1>3 DEF Row
  <1>. QED
    BY <1>2, <1>4

LEMMA QuietCall ==
  ASSUME DraftsInv, QuietInv, NEW c \in Callers, CallStep(c) \/ CallFails(c),
         UNCHANGED <<draft, clock, quiet, restore>>
  PROVE  QuietInv'
  <1>. SUFFICES ASSUME Unlogged' PROVE Kept'
    BY DEF QuietInv
  <1>0. ShapeInv /\ CallsInv /\ PhaseInv /\ PostedInv
    BY DEF DraftsInv, IInv
  <1>1. /\ ~At(c, "idle") /\ UNCHANGED drain
        /\ \A d \in Callers : d # c => call'[d] = call[d]
        /\ log' = log \/ log' = AppendEvent(call[c].kind, call[c].body)
    BY <1>0, OthersStay, CallNext DEF GoesOn
  <1>2. Kept
    BY <1>0, <1>1, StaysUnlogged DEF QuietInv, LogGrows
  <1>3. /\ call[c].kind = "saved" /\ call[c].body = clock
        /\ \A d \in Callers : d # c => At(d, "idle") /\ At(d, "idle")'
        /\ c \in Screens => restore.pc = "idle"
    BY <1>1, <1>2 DEF Kept, KeptCalls, At
  <1>4. restore.pc \in {"idle", "queueing"} /\ drain.pc = "idle"
    BY <1>0, <1>1, <1>3 DEF PhaseInv, Callers
  <1>5. log' = log /\ ~Has("saved", clock, log)
    <2>1. log' # AppendEvent("saved", clock)
      BY <1>0, AppendLogs DEF Unlogged
    <2>. QED
      BY <1>1, <1>3, <2>1 DEF Unlogged
  <1>6. KeptDraft' /\ KeptRun' /\ KeptDrain'
    BY <1>1, <1>2, <1>4, <1>5 DEF Kept, KeptDraft, LastCleared, KeptRun, KeptDrain
  <1>7. ASSUME OneRow', StoredRow' \/ (c \in Screens /\ call'[c].pc \in {"lookup", "insert", "update"}),
               call'[c].pc = "idle" \/ (call'[c].kind = "saved" /\ call'[c].body = clock),
               call'[c].pc = "update" => \E r \in rows' : r.key = "saved" /\ r.id = call'[c].id,
               call'[c].pc = "insert" => \A r \in rows' : r.key # "saved"
        PROVE  Kept'
    <2>1. KeptCalls'
      BY <1>3, <1>7 DEF KeptCalls, At
    <2>2. KeptRow'
      BY <1>7 DEF KeptRow
    <2>. QED
      BY <1>6, <1>7, <2>1, <2>2 DEF Kept
  <1>8. StoredRow \/ (c \in Screens /\ call[c].pc \in {"lookup", "insert", "update"})
    BY <1>2, <1>3 DEF Kept, KeptRow, At, Callers
  <1>9. CASE LookUp(c)
    <2>1. UNCHANGED rows /\ OneRow /\ call[c].pc = "lookup"
      BY <1>2, <1>9 DEF LookUp, Kept, At
    <2>2. CASE FirstMatch(rows, call[c].kind) = {}
      <3>1. \A r \in rows : r.key # "saved"
        BY <1>3, <2>1, <2>2 DEF FirstMatch, OneRow
      <3>2. Becomes(c, [call[c] EXCEPT !.pc = "insert", !.id = 0])
        BY <1>9, <2>2 DEF LookUp, Goes
      <3>3. call'[c].pc = "insert" /\ call'[c].kind = "saved" /\ call'[c].body = clock
        BY <1>0, <1>1, <1>3, <3>2, GoesTo
      <3>. QED
        BY <1>7, <1>8, <2>1, <3>1, <3>3 DEF OneRow, StoredRow
    <2>3. ASSUME NEW r \in FirstMatch(rows, call[c].kind),
                 Becomes(c, [call[c] EXCEPT !.pc = "update", !.id = r.id])
          PROVE  Kept'
      <3>1. r \in rows /\ r.key = "saved"
        BY <1>3, <2>3 DEF FirstMatch
      <3>2. call'[c].pc = "update" /\ call'[c].id = r.id /\ call'[c].kind = "saved"
            /\ call'[c].body = clock
        <4>1. PICK n : n = r.id
          OBVIOUS
        <4>2. Becomes(c, [call[c] EXCEPT !.pc = "update", !.id = n])
          BY <2>3, <4>1
        <4>3. /\ call'[c].pc = "update" /\ call'[c].id = n
              /\ call'[c].kind = call[c].kind /\ call'[c].body = call[c].body
          BY <1>0, <1>1, <4>2, GoesTo, Zenon
        <4>. QED
          BY <1>3, <4>1, <4>3
      <3>. QED
        BY <1>7, <1>8, <2>1, <3>1, <3>2 DEF OneRow, StoredRow
    <2>. QED
      BY <1>9, <2>2, <2>3 DEF LookUp
  <1>10. CASE Update(c) \/ Insert(c)
    <2>1. call'[c].pc = "idle" \/ (call'[c].pc = "post" /\ call'[c].kind = "saved" /\ call'[c].body = clock)
      <3>1. CASE Becomes(c, Idle)
        BY <1>0, <3>1 DEF Becomes, Idle, ShapeInv
      <3>2. CASE Becomes(c, [call[c] EXCEPT !.pc = "post", !.id = 0])
        BY <1>0, <1>1, <1>3, <3>2, GoesTo
      <3>. QED
        BY <1>10, <3>1, <3>2 DEF Update, Insert, Enqueued, Goes
    <2>2. CASE Update(c)
      <3>1. OneRow'
        BY <1>0, <1>2, <2>2, UpdatedRows DEF Kept, OneRow
      <3>2. PICK s \in rows : s.key = "saved" /\ s.id = call[c].id
        BY <1>1, <1>2, <2>2 DEF Kept, KeptCalls, Update, At
      <3>3. StoredRow'
        BY <1>0, <1>3, <2>2, <3>2, UpdateStores DEF StoredRow
      <3>. QED
        BY <1>7, <2>1, <3>1, <3>3
    <2>3. CASE Insert(c)
      <3>1. PICK new : new = [id |-> NewId, key |-> call[c].kind, at |-> NewId,
                              attempts |-> 0, body |-> call[c].body]
        OBVIOUS
      <3>2. rows' = rows \cup {new} /\ new.key = "saved" /\ new.body = clock
        BY <1>3, <2>3, <3>1 DEF Insert
      <3>3. \A r \in rows : r.key # "saved"
        BY <1>1, <1>2, <2>3 DEF Kept, KeptCalls, Insert, At
      <3>4. OneRow' /\ StoredRow'
        BY <1>2, <3>2, <3>3 DEF Kept, OneRow, StoredRow
      <3>. QED
        BY <1>7, <2>1, <3>4
    <2>. QED
      BY <1>10, <2>2, <2>3
  <1>11. CASE NoSession(c) \/ PostFails(c)
    <2>1. UNCHANGED rows /\ call[c].pc = "post"
      BY <1>11 DEF NoSession, PostFails, At
    <2>2. OneRow' /\ StoredRow'
      BY <1>2, <1>8, <2>1 DEF Kept, OneRow, StoredRow
    <2>3. call'[c].pc = "idle"
          \/ (call'[c].pc = "lookup" /\ call'[c].kind = "saved" /\ call'[c].body = clock)
      <3>1. CASE Becomes(c, Idle)
        BY <1>0, <3>1 DEF Becomes, Idle, ShapeInv
      <3>2. CASE Becomes(c, [call[c] EXCEPT !.pc = "lookup", !.retry = TRUE])
        <4>1. PICK o : o = call[c] /\ o = [pc |-> o.pc, kind |-> o.kind, body |-> o.body,
                                           id |-> o.id, retry |-> o.retry]
          BY <1>0, <1>1 DEF ShapeInv, Shaped, At
        <4>2. PICK next : next = [o EXCEPT !.pc = "lookup", !.retry = TRUE]
          OBVIOUS
        <4>3. next.pc = "lookup" /\ next.kind = o.kind /\ next.body = o.body
          BY <4>1, <4>2
        <4>4. call'[c] = next
          BY <1>0, <3>2, <4>1, <4>2 DEF Becomes, ShapeInv
        <4>. QED
          BY <1>3, <4>1, <4>3, <4>4
      <3>. QED
        BY <1>11, <3>1, <3>2 DEF NoSession, PostFails
    <2>. QED
      BY <1>7, <2>2, <2>3
  <1>12. ~PostSucceeds(c)
    BY <1>0, <1>3, <1>5, AppendLogs DEF PostSucceeds
  <1>13. ~Find(c) /\ ~Delete(c) /\ ~Mark(c)
    BY <1>0, <1>3, <1>5 DEF Find, Delete, Mark, PostedInv, At
  <1>. QED
    BY <1>9, <1>10, <1>11, <1>12, <1>13 DEF CallStep, CallFails

(* A drain: what it sends is logged, so only the row of the draft can hold *)
(* it up, and it deletes no other row by mistake.                          *)
LEMMA QuietDrains ==
  ASSUME DraftsInv, QuietInv, DrainStep \/ SendRowFails,
         UNCHANGED <<draft, clock, quiet, restore>>, Kinds = {"saved", "cleared"}
  PROVE  QuietInv'
  <1>. SUFFICES ASSUME Unlogged' PROVE Kept'
    BY DEF QuietInv
  <1>0. ShapeInv /\ CallsInv /\ PhaseInv /\ CallsInv'
    BY SendRowTypes, RowDoneTypes, RowFailedTypes DEF DraftsInv, IInv, DrainStep
  <1>1. drain.pc # "idle" /\ drain'.pc # "idle" /\ UNCHANGED call
    BY <1>0, DrainGoesOn
  <1>2. LogGrows
    BY DEF DrainStep, SendRow, SendRowFails, MarkRow, DeleteRow, RowFailed, LogGrows
  <1>3. Kept
    BY <1>0, <1>2, StaysUnlogged DEF QuietInv
  <1>4. restore.pc = "draining" /\ (\A c \in Callers : At(c, "idle")) /\ StoredRow
    BY <1>0, <1>1, <1>3, AllIdle, RowWhenIdle DEF PhaseInv
  <1>5. KeptRun' /\ KeptCalls'
    BY <1>1, <1>4 DEF KeptRun, KeptCalls, At
  <1>6. ASSUME log' = log \/ LastCleared', OneRow', StoredRow', KeptDrain' PROVE Kept'
    <2>1. KeptDraft'
      BY <1>3, <1>6 DEF Kept, KeptDraft, LastCleared
    <2>. QED
      BY <1>5, <1>6, <2>1 DEF Kept, KeptRow
  <1>7. CASE SendRow \/ SendRowFails
    <2>1. PICK r \in drain.todo, pc \in {"sent", "failed"} :
            /\ drain' = [pc |-> pc, todo |-> drain.todo \ {r}, row |-> r]
            /\ SendRow \/ pc = "failed"
      BY <1>7 DEF SendRow, SendRowFails, DrainRow, NextInLine
    <2>2. drain'.pc = pc /\ drain'.todo = drain.todo \ {r} /\ drain'.row = r
      BY <2>1
    <2>3. UNCHANGED rows /\ (log' = log \/ log' = AppendEvent(r.key, r.body))
          /\ (SendRow => log' = AppendEvent(r.key, r.body))
      BY <1>7, <2>2 DEF SendRow, SendRowFails
    <2>4. r.key \in Kinds /\ (r.key = "saved" => r.body = clock)
          /\ \A x \in rows : x.id = r.id => x.key = r.key
      BY <1>0, <1>1, <1>3, <2>1, EventOf DEF Kept, KeptDrain, CallsInv, DrainOk, RowOk
    <2>5. log' = AppendEvent(r.key, r.body) => r.key = "cleared" /\ LastCleared'
      <3>1. SUFFICES ASSUME log' = AppendEvent(r.key, r.body) PROVE r.key = "cleared" /\ LastCleared'
        OBVIOUS
      <3>2. r.key # "saved"
        BY <1>0, <2>4, <3>1, AppendLogs DEF Unlogged
      <3>3. r.key = "cleared"
        BY <2>4, <3>2
      <3>4. log' # <<>> /\ Last(log') = [kind |-> r.key, body |-> r.body]
        BY <1>0, <3>1, AppendKeeps DEF ShapeInv
      <3>. QED
        BY <3>3, <3>4 DEF LastCleared
    <2>6. OneRow' /\ StoredRow'
      BY <1>3, <1>4, <2>3 DEF Kept, OneRow, StoredRow
    <2>7. KeptDrain'
      <3>1. \A s \in drain'.todo : /\ s.key = "saved" => s.body = clock
                                   /\ \A x \in rows : x.id = s.id => x.key = s.key
        BY <1>1, <1>3, <2>2 DEF Kept, KeptDrain
      <3>2. pc = "sent" => r.key # "saved" /\ \A x \in rows : x.id = r.id => x.key # "saved"
        BY <2>1, <2>3, <2>4, <2>5
      <3>. QED
        BY <2>2, <2>3, <3>1, <3>2 DEF KeptDrain
    <2>. QED
      BY <1>6, <2>3, <2>5, <2>6, <2>7
  <1>8. CASE MarkRow \/ DeleteRow \/ RowFailed
    <2>1. PICK o : o = drain /\ o = [pc |-> o.pc, todo |-> o.todo, row |-> o.row]
      BY <1>0, <1>8 DEF MarkRow, DeleteRow, RowFailed, ShapeInv
    <2>2. \/ drain' = [o EXCEPT !.pc = "marked"] /\ drain.pc = "sent"
          \/ drain' = [o EXCEPT !.pc = "send"]
      BY <1>8, <2>1 DEF MarkRow, DeleteRow, RowFailed
    <2>3. /\ drain'.todo = drain.todo /\ drain'.row = drain.row
          /\ drain'.pc = "send" \/ (drain'.pc = "marked" /\ drain.pc = "sent")
      BY <2>1, <2>2
    <2>4. log' = log
      BY <1>8 DEF MarkRow, DeleteRow, RowFailed
    <2>5. \A r \in rows' : \E s \in rows : s.id = r.id /\ s.key = r.key /\ s.body = r.body
      BY <1>0, <1>8, FailedRows DEF MarkRow, DeleteRow, WithoutIds
    <2>6. KeptDrain'
      BY <1>1, <1>3, <2>3, <2>5 DEF Kept, KeptDrain
    <2>7. OneRow'
      <3>1. \A r, s \in rows' : r.id = s.id => r = s
        BY <1>0 DEF CallsInv, TableOk
      <3>. QED
        BY <1>3, <2>5, <3>1 DEF Kept, OneRow
    <2>8. StoredRow'
      <3>1. PICK s \in rows : s.key = "saved" /\ s.body = clock
        BY <1>4 DEF StoredRow
      <3>2. CASE MarkRow \/ DeleteRow
        <4>1. s \in rows'
          BY <1>3, <3>1, <3>2 DEF MarkRow, DeleteRow, WithoutIds, Kept, KeptDrain
        <4>. QED
          BY <3>1, <4>1 DEF StoredRow
      <3>3. CASE RowFailed
        <4>1. PICK r : r = IF s.id = drain.row.id THEN [s EXCEPT !.attempts = drain.row.attempts + 1] ELSE s
          OBVIOUS
        <4>2. r \in rows' /\ s \in Row
          BY <1>0, <3>3, <4>1 DEF RowFailed, MarkAttempt, CallsInv, TableOk, RowOk
        <4>3. r.key = s.key /\ r.body = s.body
          BY <4>1, <4>2 DEF Row
        <4>. QED
          BY <3>1, <4>2, <4>3 DEF StoredRow
      <3>. QED
        BY <1>8, <3>2, <3>3
    <2>. QED
      BY <1>6, <2>4, <2>6, <2>7, <2>8
  <1>. QED
    BY <1>7, <1>8 DEF DrainStep

LEMMA NextQuiet ==
  ASSUME DraftsAssumption PROVE DraftsInv /\ QuietInv /\ [Drafts!Next]_(Drafts!vars) => QuietInv'
  <1>. SUFFICES ASSUME DraftsInv, QuietInv, [Drafts!Next]_(Drafts!vars) PROVE QuietInv'
    OBVIOUS
  <1>1. CASE Drafts!Open \/ Drafts!Resume \/ Drafts!Cancel \/ Drafts!Change \/ Drafts!Close
             \/ UNCHANGED Drafts!vars
    <2>1. UNCHANGED <<callVars, draft, clock, quiet, restore>>
      BY <1>1 DEF Drafts!Open, Drafts!Resume, Drafts!Cancel, Drafts!Change, Drafts!Close,
         Drafts!ScreenOnly, Drafts!vars, Drafts!draftVars, Drafts!callVars, callVars
    <2>. QED
      BY <2>1, QuietBeside
  <1>2. ASSUME NEW c \in Screens, Drafts!Autosave(c) \/ Drafts!SavePlot(c) PROVE QuietInv'
    BY <1>2, QuietSave
  <1>3. CASE Drafts!FetchFails \/ Drafts!Kill \/ Drafts!Fetch
    BY <1>3, QuietStart
  <1>4. CASE Drafts!RestoreClears \/ Drafts!LoadLocal \/ Drafts!RestoreDraft
    BY <1>4, QuietRestore
  <1>5. CASE Drafts!Requeue \/ Drafts!Drain \/ Drafts!End
    BY <1>5, QuietQueue
  <1>6. ASSUME NEW c \in Callers, Drafts!CallStep(c) \/ Drafts!CallFails(c), Drafts!InCall
        PROVE  QuietInv'
    BY <1>6, SameCalls, QuietCall DEF Drafts!InCall, Drafts!draftVars
  <1>7. CASE (Drafts!DrainStep \/ Drafts!SendRowFails) /\ Drafts!InCall
    BY <1>7, SameDrain, QuietDrains DEF Drafts!InCall, Drafts!draftVars, DraftsAssumption
  <1>. QED
    BY <1>1, <1>2, <1>3, <1>4, <1>5, <1>6, <1>7, SameTerms
       DEF Drafts!Next, Drafts!Pipeline, Callers

LEMMA QuietMeans == DraftsInv /\ QuietInv => Drafts!QuietSaveKept
  <1>. SUFFICES ASSUME DraftsInv, QuietInv, quiet PROVE Drafts!Holds(clock)
    BY DEF Drafts!QuietSaveKept
  <1>1. CASE Has("saved", clock, log)
    <2>1. clock \in Logged("saved")
      BY <1>1, LoggedHas DEF DraftsInv
    <2>. QED
      BY <2>1, SameTerms DEF Drafts!Holds
  <1>2. CASE ~Has("saved", clock, log)
    <2>1. Kept
      BY <1>2 DEF QuietInv, Unlogged
    <2>2. CASE StoredRow
      BY <2>2 DEF StoredRow, Drafts!Holds
    <2>3. ASSUME NEW c \in Screens, call[c].pc \in {"lookup", "insert", "update"}
          PROVE  Drafts!Holds(clock)
      BY <2>1, <2>3, SameTerms DEF Kept, KeptCalls, At, Callers, Drafts!Holds
    <2>. QED
      BY <2>1, <2>2, <2>3 DEF Kept, KeptRow
  <1>. QED
    BY <1>1, <1>2

(* A save of the draft that no other call and no pipeline crossed, and     *)
(* that found no duplicate rows, is never lost from everywhere: until the  *)
(* server has logged it, it is on the phone, in the queue or in the call   *)
(* that queues it, though pipelines restore, requeue and drain after it    *)
(* and the app is killed between them.                                     *)
THEOREM QuietSaveStays ==
  ASSUME DraftsAssumption PROVE Drafts!Spec => []Drafts!QuietSaveKept
  <1>1. Drafts!Init => QuietInv
    BY DEF Drafts!Init, QuietInv, Unlogged
  <1>. QED
    BY <1>1, InitDrafts, NextDrafts, NextQuiet, QuietMeans, PTL DEF Drafts!Spec
=============================================================================
