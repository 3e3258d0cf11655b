------------------------ MODULE ConsentGrantsProofs ------------------------
(***************************************************************************)
(* Theorems about ConsentGrants, for any number of grants, vouchers,       *)
(* requests of the organisation, queue rows and faults.                    *)
(***************************************************************************)
EXTENDS ConsentGrants, SequenceTheorems, TLAPS

Open == WithStatus("pending") \cup WithStatus("active")

(* While no two requests of the organisation overlapped, only one is       *)
(* between its statements, and what it read is still so.                   *)
AskInv ==
  ~overlapped => \A r \in Requesters : asking[r] # "idle" =>
    /\ \A q \in Requesters : asking[q] # "idle" => q = r
    /\ WithStatus("pending") = {}
    /\ asking[r] = "noActive" => WithStatus("active") = {}

(* The open grant is the one that was updated last.                        *)
OpenIsLast == ~overlapped => \A g \in Open : Last(order) = g

IInv == TypeOK /\ GateFollowsFarmer /\ AskInv /\ OpenIsLast

-----------------------------------------------------------------------------
(* `order` is a sequence in which a grant moves to the end.                *)

(* Removing one element shortens a sequence by one.                        *)
LEMMA RemoveAtType ==
  ASSUME NEW S, NEW s \in Seq(S), NEW i \in DOMAIN s
  PROVE  /\ RemoveAt(s, i) \in Seq(S)
         /\ Len(RemoveAt(s, i)) = Len(s) - 1
         /\ \A j \in 1..Len(s) - 1 : RemoveAt(s, i)[j] = IF j < i THEN s[j] ELSE s[j + 1]
  <1>. DEFINE front == SubSeq(s, 1, i - 1)
              back == SubSeq(s, i + 1, Len(s))
  <1>1. i \in 1..Len(s) /\ Len(s) \in Nat
    OBVIOUS
  <1>2. /\ front \in Seq(S) /\ Len(front) = i - 1
        /\ \A j \in 1..i - 1 : front[j] = s[j]
    BY <1>1, SubSeqProperties
  <1>3. /\ back \in Seq(S) /\ Len(back) = Len(s) - i
        /\ \A j \in 1..Len(s) - i : back[j] = s[i + j]
    BY <1>1, SubSeqProperties
  <1>. HIDE DEF front, back
  <1>4. RemoveAt(s, i) = front \o back
    BY DEF RemoveAt, front, back
  <1>5. /\ front \o back \in Seq(S) /\ Len(front \o back) = Len(s) - 1
        /\ \A j \in 1..Len(s) - 1 :
             (front \o back)[j] = IF j < i THEN front[j] ELSE back[j - (i - 1)]
    BY <1>1, <1>2, <1>3, ConcatProperties
  <1>6. ASSUME NEW j \in 1..Len(s) - 1
        PROVE  (front \o back)[j] = IF j < i THEN s[j] ELSE s[j + 1]
    <2>1. CASE j < i
      BY <1>1, <1>2, <1>5, <2>1
    <2>2. CASE ~(j < i)
      <3>1. j - (i - 1) \in 1..Len(s) - i /\ i + (j - (i - 1)) = j + 1
        BY <1>1, <2>2
      <3>. QED
        BY <1>3, <1>5, <2>2, <3>1
    <2>. QED
      BY <2>1, <2>2
  <1>. QED
    BY <1>4, <1>5, <1>6

(* An element that is moved to the end stays one.                          *)
LEMMA MoveToEnd ==
  ASSUME NEW S, NEW s \in Seq(S), NEW i \in DOMAIN s,
         NEW t, t = Append(RemoveAt(s, i), s[i])
  PROVE  /\ t \in Seq(S)
         /\ Len(t) = Len(s)
         /\ t # <<>>
         /\ Last(t) = s[i]
         /\ ToSet(t) = ToSet(s)
  <1>. DEFINE r == RemoveAt(s, i)
  <1>1. /\ r \in Seq(S) /\ Len(r) = Len(s) - 1
        /\ \A j \in 1..Len(s) - 1 : r[j] = IF j < i THEN s[j] ELSE s[j + 1]
    BY RemoveAtType
  <1>2. i \in 1..Len(s) /\ Len(s) \in Nat /\ s[i] \in S
    OBVIOUS
  <1>. HIDE DEF r
  <1>3. t = Append(r, s[i])
    BY DEF r
  <1>4. /\ t \in Seq(S) /\ Len(t) = Len(s) /\ DOMAIN t = 1..Len(s)
        /\ t[Len(s)] = s[i]
        /\ \A j \in 1..Len(s) - 1 : t[j] = r[j]
    BY <1>1, <1>2, <1>3
  <1>5. t # <<>> /\ Last(t) = s[i]
    BY <1>2, <1>4 DEF Last
  <1>6. \A j \in 1..Len(s) : \E k \in 1..Len(s) : t[k] = s[j]
    <2>1. ASSUME NEW j \in 1..Len(s) PROVE \E k \in 1..Len(s) : t[k] = s[j]
      <3>1. CASE j = i
        BY <1>2, <1>4, <3>1
      <3>2. CASE j < i
        <4>1. j \in 1..Len(s) - 1
          BY <1>2, <3>2
        <4>2. t[j] = s[j]
          BY <1>1, <1>4, <3>2, <4>1
        <4>. QED
          BY <4>2
      <3>3. CASE j > i
        <4>. DEFINE k == j - 1
        <4>1. k \in 1..Len(s) - 1 /\ k \in 1..Len(s) /\ ~(k < i) /\ k + 1 = j
          BY <1>2, <3>3
        <4>. HIDE DEF k
        <4>2. t[k] = s[j]
          BY <1>1, <1>4, <4>1
        <4>. QED
          BY <4>1, <4>2
      <3>4. j = i \/ j < i \/ j > i
        BY <1>2
      <3>. QED
        BY <3>1, <3>2, <3>3, <3>4
    <2>. QED
      BY <2>1
  <1>7. \A k \in 1..Len(s) : \E j \in 1..Len(s) : t[k] = s[j]
    <2>1. ASSUME NEW k \in 1..Len(s) PROVE \E j \in 1..Len(s) : t[k] = s[j]
      <3>1. CASE k = Len(s)
        BY <1>2, <1>4, <3>1
      <3>2. CASE k # Len(s)
        <4>1. k \in 1..Len(s) - 1 /\ k + 1 \in 1..Len(s)
          BY <1>2, <3>2
        <4>. QED
          BY <1>1, <1>4, <4>1
      <3>. QED
        BY <3>1, <3>2
    <2>. QED
      BY <2>1
  <1>8. ToSet(t) = ToSet(s)
    <2>1. ToSet(t) = {t[k] : k \in 1..Len(s)} /\ ToSet(s) = {s[k] : k \in 1..Len(s)}
      BY <1>2, <1>4 DEF ToSet
    <2>2. ToSet(t) \subseteq ToSet(s)
      BY <1>7, <2>1
    <2>3. ToSet(s) \subseteq ToSet(t)
      BY <1>6, <2>1
    <2>. QED
      BY <2>2, <2>3
  <1>. QED
    BY <1>4, <1>5, <1>8

(* What an appended element adds.                                          *)
LEMMA AppendedLast ==
  ASSUME NEW S, NEW s \in Seq(S), NEW e \in S
  PROVE  /\ Append(s, e) \in Seq(S)
         /\ Len(Append(s, e)) = Len(s) + 1
         /\ Append(s, e) # <<>>
         /\ Last(Append(s, e)) = e
         /\ ToSet(Append(s, e)) = ToSet(s) \cup {e}
  <1>1. /\ Append(s, e) \in Seq(S) /\ Len(Append(s, e)) = Len(s) + 1
        /\ Append(s, e)[Len(s) + 1] = e
        /\ \A i \in 1..Len(s) : Append(s, e)[i] = s[i]
    OBVIOUS
  <1>2. ToSet(Append(s, e)) = ToSet(s) \cup {e}
    BY <1>1 DEF ToSet
  <1>. QED
    BY <1>1, <1>2 DEF Last

-----------------------------------------------------------------------------
(* A grant that a statement selects is among those ever updated.           *)
LEMMA UpdatedGrants ==
  ASSUME TypeOK
  PROVE  /\ order \in Seq(Grants) /\ Len(order) \in Nat
         /\ order # <<>> => Last(order) \in Grants /\ status[Last(order)] # "none"
         /\ \A g \in Grants : status[g] # "none" => \E i \in DOMAIN order : order[i] = g
         /\ \A g \in Grants : status[g] # "none" => order # <<>>
  <1>1. order \in Seq(Grants) /\ ToSet(order) = {g \in Grants : status[g] # "none"}
    BY DEF TypeOK
  <1>2. \A g \in Grants : status[g] # "none" => \E i \in DOMAIN order : order[i] = g
    BY <1>1 DEF ToSet
  <1>3. \A i \in DOMAIN order : order[i] \in Grants /\ status[order[i]] # "none"
    BY <1>1 DEF ToSet
  <1>4. order # <<>> => Len(order) \in DOMAIN order
    BY <1>1
  <1>5. order # <<>> => Last(order) \in Grants /\ status[Last(order)] # "none"
    BY <1>3, <1>4 DEF Last
  <1>. QED
    BY <1>1, <1>2, <1>5

LEMMA TouchMovesToEnd ==
  ASSUME TypeOK, NEW g \in Grants, status[g] # "none"
  PROVE  /\ Touch(g) \in Seq(Grants) /\ Len(Touch(g)) = Len(order)
         /\ Touch(g) # <<>> /\ Last(Touch(g)) = g
         /\ ToSet(Touch(g)) = ToSet(order)
  <1>. DEFINE i == CHOOSE j \in DOMAIN order : order[j] = g
  <1>1. order \in Seq(Grants)
    BY DEF TypeOK
  <1>2. i \in DOMAIN order /\ order[i] = g
    BY UpdatedGrants
  <1>3. Touch(g) = Append(RemoveAt(order, i), order[i])
    BY <1>2 DEF Touch
  <1>. HIDE DEF i
  <1>. QED
    BY <1>1, <1>2, <1>3, MoveToEnd

(* What the update of a decision does to the grants.                       *)
LEMMA ApplyMoves ==
  ASSUME TypeOK, NEW req \in inflight, Apply(req)
  PROVE  /\ req.grant \in Grants /\ req.verb \in Verbs
         /\ status[req.grant] = Needs(req.verb)
         /\ status' = [status EXCEPT ![req.grant] = Outcome[req.verb]]
         /\ order' \in Seq(Grants) /\ Len(order') = Len(order) /\ ToSet(order') = ToSet(order)
         /\ order' # <<>> /\ Last(order') = req.grant
         /\ Gate' = Outcome[req.verb]
  <1>1. req.grant \in Grants /\ req.verb \in Verbs
    BY DEF TypeOK, Request
  <1>2. /\ status[req.grant] = Needs(req.verb) /\ order' = Touch(req.grant)
        /\ status' = [status EXCEPT ![req.grant] = Outcome[req.verb]]
    BY DEF Apply, Takes
  <1>3. status[req.grant] # "none"
    BY <1>1, <1>2 DEF Needs, Verbs
  <1>4. /\ order' \in Seq(Grants) /\ Len(order') = Len(order) /\ ToSet(order') = ToSet(order)
        /\ order' # <<>> /\ Last(order') = req.grant
    BY <1>1, <1>2, <1>3, TouchMovesToEnd
  <1>5. status'[req.grant] = Outcome[req.verb]
    BY <1>1, <1>2 DEF TypeOK
  <1>. QED
    BY <1>1, <1>2, <1>4, <1>5 DEF Gate

LEMMA InsertMoves ==
  ASSUME TypeOK, NEW r \in Requesters, InsertGrant(r)
  PROVE  \E g \in Grants :
           /\ status[g] = "none" /\ status' = [status EXCEPT ![g] = "pending"]
           /\ order' \in Seq(Grants) /\ Len(order') \in 0..MaxGrants
           /\ ToSet(order') = ToSet(order) \cup {g}
           /\ order' # <<>> /\ Last(order') = g /\ Gate' = "pending"
  <1>1. PICK g \in Grants : /\ status[g] = "none" /\ g = Len(order) + 1
                            /\ status' = [status EXCEPT ![g] = "pending"]
                            /\ order' = Append(order, g)
    BY DEF InsertGrant, WithStatus
  <1>2. order \in Seq(Grants)
    BY DEF TypeOK
  <1>3. /\ order' \in Seq(Grants) /\ Len(order') = Len(order) + 1
        /\ ToSet(order') = ToSet(order) \cup {g} /\ order' # <<>> /\ Last(order') = g
    BY <1>1, <1>2, AppendedLast
  <1>4. Len(order') \in 0..MaxGrants
    BY <1>1, <1>2, <1>3, ConstantsAssumption DEF Grants
  <1>5. status'[g] = "pending"
    BY <1>1 DEF TypeOK
  <1>. QED
    BY <1>1, <1>3, <1>4, <1>5 DEF Gate

(* Selling leaves everything but the packages alone.                       *)
LEMMA SellIsSale == Sell => SaleStep
  BY DEF Sell, ClockTicks, InsertPackage, LinkVouchers

(* Every other step leaves the grants alone.                               *)
LEMMA OnlyTwoMoves ==
  ASSUME [Next]_vars
  PROVE  \/ \E req \in inflight : Apply(req)
         \/ \E r \in Requesters : InsertGrant(r)
         \/ UNCHANGED <<status, order, latest, before>>
  <1>1. CASE UNCHANGED vars
    BY <1>1 DEF vars, serverVars
  <1>2. CASE Sell
    BY <1>2, SellIsSale DEF SaleStep
  <1>3. CASE Tap \/ TapEnds \/ TapQueued \/ List \/ Kill
    BY <1>3 DEF Tap, TapEnds, TapQueued, List, Kill, PhoneStep, serverVars
  <1>4. ASSUME NEW r \in Requesters, Ask(r) PROVE InsertGrant(r) \/ UNCHANGED <<status, order, latest, before>>
    BY <1>4 DEF Ask, SelectPending, SelectActive, AskStep
  <1>5. ASSUME NEW req \in inflight, ServerFails(req)
        PROVE UNCHANGED <<status, order, latest, before>>
    BY <1>5 DEF ServerFails
  <1>6. ASSUME NEW c \in Callers \cup {"nobody"}, Serve(c)
        PROVE (\E req \in inflight : Apply(req)) \/ UNCHANGED <<status, order, latest, before>>
    BY <1>6 DEF Serve, Check, Overtaken
  <1>7. ASSUME NEW c \in Callers, ConnectionBreaks(c)
        PROVE UNCHANGED <<status, order, latest, before>>
    BY <1>7 DEF ConnectionBreaks, PhoneStep, serverVars
  <1>8. ASSUME NEW c \in Processors, Run(c) PROVE UNCHANGED <<status, order, latest, before>>
    BY <1>8 DEF Run, Start, SendRow, RowDone, RowFailed, RunEnds, PhoneStep, serverVars
  <1>. QED
    BY <1>1, <1>2, <1>3, <1>4, <1>5, <1>6, <1>7, <1>8 DEF Next

LEMMA OnlySalesSell == [Next]_vars => UNCHANGED saleVars \/ Sell
  BY DEF Next, vars, serverVars, Tap, TapEnds, TapQueued, List, Kill, PhoneStep, Ask,
     SelectPending, SelectActive, InsertGrant, AskStep, ServerFails, Serve, Check, Apply,
     Overtaken, ServerKeepsRest, ConnectionBreaks, Run, Start, SendRow, RowDone, RowFailed, RunEnds

(* A package that is filed stays so, with its vouchers.                    *)
LEMMA FiledStays ==
  ASSUME TypeOK, [Next]_vars
  PROVE  /\ packages' \in [Packages -> Package] /\ recent' \subseteq Packages
         /\ Filed \subseteq Filed'
         /\ \A k \in Filed : packages'[k].vouchers = packages[k].vouchers
  <1>1. CASE UNCHANGED saleVars
    BY <1>1 DEF saleVars, Filed, TypeOK
  <1>2. CASE ClockTicks
    BY <1>2 DEF ClockTicks, Filed, TypeOK
  <1>3. ASSUME NEW k \in Packages, InsertPackage(k)
        PROVE  /\ packages' \in [Packages -> Package] /\ recent' \subseteq Packages
               /\ Filed \subseteq Filed'
               /\ \A q \in Filed : packages'[q].vouchers = packages[q].vouchers
    <2>1. PICK own \in BOOLEAN, vs \in SUBSET Vouchers :
            packages' = [packages EXCEPT ![k] = [step |-> "inserted", own |-> own, vouchers |-> vs]]
      BY <1>3 DEF InsertPackage
    <2>2. packages[k].step = "none" /\ recent' = recent \cup {k}
      BY <1>3 DEF InsertPackage
    <2>3. [step |-> "inserted", own |-> own, vouchers |-> vs] \in Package
      BY DEF Package
    <2>. QED
      BY <2>1, <2>2, <2>3 DEF Filed, TypeOK
  <1>4. ASSUME NEW k \in Packages, LinkVouchers(k)
        PROVE  /\ packages' \in [Packages -> Package] /\ recent' \subseteq Packages
               /\ Filed \subseteq Filed'
               /\ \A q \in Filed : packages'[q].vouchers = packages[q].vouchers
    BY <1>4 DEF LinkVouchers, Filed, TypeOK, Package
  <1>. QED
    BY <1>1, <1>2, <1>3, <1>4, OnlySalesSell DEF Sell

-----------------------------------------------------------------------------
(* Types                                                                   *)

ServerTypes ==
  /\ status \in [Grants -> Statuses]
  /\ order \in Seq(Grants) /\ Len(order) <= MaxGrants
  /\ ToSet(order) = {g \in Grants : status[g] # "none"}
  /\ overlapped \in BOOLEAN
  /\ packages \in [Packages -> Package] /\ recent \subseteq Packages
  /\ before \in [Grants -> SUBSET Packages]
  /\ asking \in [Requesters -> {"idle", "noPending", "noActive"}]
  /\ latest \in Verbs \cup {"nothing"}

PhoneTypes ==
  /\ queue \subseteq Row /\ lastId \in 0..MaxRows
  /\ shown \in [Grants -> Statuses]

CallTypes ==
  /\ inflight \subseteq Request
  /\ call \in [Callers -> Call]

LEMMA TypeParts == TypeOK <=> ServerTypes /\ PhoneTypes /\ CallTypes /\ faults \in 0..MaxFaults
  BY DEF TypeOK, ServerTypes, PhoneTypes, CallTypes

LEMMA ServerTypesKept == TypeOK /\ [Next]_vars => ServerTypes'
  <1>. SUFFICES ASSUME TypeOK, [Next]_vars PROVE ServerTypes'
    OBVIOUS
  <1>0. Outcome \in [Verbs -> Statuses]
    BY DEF Outcome, Verbs, Statuses
  <1>1. ASSUME NEW req \in inflight, Apply(req) PROVE ServerTypes'
    <2>1. status' \in [Grants -> Statuses]
      BY <1>0, <1>1, ApplyMoves DEF TypeOK
    <2>2. \A g \in Grants : status'[g] # "none" <=> status[g] # "none"
      BY <1>1, ApplyMoves DEF TypeOK, Outcome, Needs, Verbs
    <2>3. ToSet(order') = {g \in Grants : status'[g] # "none"}
      BY <1>1, <2>2, ApplyMoves DEF TypeOK
    <2>4. UNCHANGED <<overlapped, asking>> /\ latest' = req.verb
      BY <1>1 DEF Apply, ServerKeepsRest
    <2>5. before' \in [Grants -> SUBSET Packages]
      BY <1>1 DEF Apply, Created, TypeOK
    <2>. QED
      BY <1>1, <2>1, <2>3, <2>4, <2>5, ApplyMoves, FiledStays DEF TypeOK, ServerTypes
  <1>2. ASSUME NEW r \in Requesters, InsertGrant(r) PROVE ServerTypes'
    <2>1. PICK g \in Grants :
            /\ status[g] = "none" /\ status' = [status EXCEPT ![g] = "pending"]
            /\ order' \in Seq(Grants) /\ Len(order') \in 0..MaxGrants
            /\ ToSet(order') = ToSet(order) \cup {g}
      BY <1>2, InsertMoves
    <2>2. status' \in [Grants -> Statuses]
      BY <2>1 DEF TypeOK, Statuses
    <2>3. \A h \in Grants : status'[h] # "none" <=> h = g \/ status[h] # "none"
      BY <2>1 DEF TypeOK
    <2>4. ToSet(order') = {h \in Grants : status'[h] # "none"}
      BY <2>1, <2>3 DEF TypeOK
    <2>5. /\ UNCHANGED <<overlapped, before, latest>>
          /\ asking' = [asking EXCEPT ![r] = "idle"]
      BY <1>2 DEF InsertGrant, AskStep
    <2>6. Len(order') <= MaxGrants
      BY <2>1, ConstantsAssumption
    <2>7. asking' \in [Requesters -> {"idle", "noPending", "noActive"}]
      BY <2>5 DEF TypeOK
    <2>. QED
      BY <2>1, <2>2, <2>4, <2>5, <2>6, <2>7, FiledStays DEF TypeOK, ServerTypes
  <1>3. CASE UNCHANGED <<status, order, latest, before>>
    <2>2. overlapped' \in BOOLEAN /\ asking' \in [Requesters -> {"idle", "noPending", "noActive"}]
      <3>1. ASSUME NEW r \in Requesters, Ask(r)
            PROVE overlapped' \in BOOLEAN /\ asking' \in [Requesters -> {"idle", "noPending", "noActive"}]
        <4>1. overlapped' \in BOOLEAN
          BY <3>1 DEF Ask, SelectPending, SelectActive, InsertGrant, TypeOK
        <4>2. \E next \in {"idle", "noPending", "noActive"} : asking' = [asking EXCEPT ![r] = next]
          BY <3>1 DEF Ask, SelectPending, SelectActive, InsertGrant, AskStep
        <4>. QED
          BY <4>1, <4>2 DEF TypeOK
      <3>2. CASE ~\E r \in Requesters : Ask(r)
        <4>1. UNCHANGED <<asking, overlapped>>
          BY <3>2, SellIsSale DEF Next, vars, SaleStep, Tap, TapEnds, TapQueued, List, Kill, PhoneStep,
             ServerFails, Serve, Check, Apply, Overtaken, ServerKeepsRest,
             ConnectionBreaks, Run, Start, SendRow, RowDone, RowFailed, RunEnds
        <4>. QED
          BY <4>1 DEF TypeOK
      <3>. QED
        BY <3>1, <3>2
    <2>. QED
      BY <1>3, <2>2, FiledStays DEF TypeOK, ServerTypes
  <1>. QED
    BY <1>1, <1>2, <1>3, OnlyTwoMoves

LEMMA AnswerTypes ==
  ASSUME CallTypes, NEW c \in Callers \cup {"nobody"}, NEW stage \in {"yes", "no", "lost"},
         Answer(c, stage)
  PROVE  call' \in [Callers -> Call]
  <1>1. CASE c = "nobody"
    BY <1>1 DEF Answer, CallTypes
  <1>2. CASE c # "nobody"
    <2>1. call' = [call EXCEPT ![c].pc = stage] /\ c \in Callers
      BY <1>2 DEF Answer
    <2>. QED
      BY <2>1 DEF CallTypes, Call
  <1>. QED
    BY <1>1, <1>2

LEMMA SendTypes ==
  ASSUME CallTypes, NEW c \in Callers, NEW verb \in Verbs, NEW g \in Grants,
         NEW rows \in SUBSET Row, Send(c, verb, g, rows)
  PROVE  CallTypes'
  <1>1. [by |-> c, verb |-> verb, grant |-> g, checked |-> FALSE] \in Request
    BY DEF Request
  <1>2. [pc |-> "waiting", rows |-> rows] \in Call
    BY DEF Call
  <1>. QED
    BY <1>1, <1>2 DEF Send, CallTypes

LEMMA EnqueueTypes ==
  ASSUME PhoneTypes, NEW verb \in Verbs, NEW g \in Grants, Enqueue(verb, g)
  PROVE  queue' \subseteq Row /\ lastId' \in 0..MaxRows
  <1>1. CASE UNCHANGED <<queue, lastId>>
    BY <1>1 DEF PhoneTypes
  <1>2. CASE /\ lastId < MaxRows /\ lastId' = lastId + 1
             /\ queue' = queue \cup {[id |-> lastId + 1, verb |-> verb, grant |-> g]}
    <2>1. lastId + 1 \in 1..MaxRows
      BY <1>2, ConstantsAssumption DEF PhoneTypes
    <2>. QED
      BY <1>2, <2>1 DEF PhoneTypes, Row
  <1>. QED
    BY <1>1, <1>2 DEF Enqueue

LEMMA RunTypesKept ==
  ASSUME TypeOK, NEW c \in Processors, Run(c)
  PROVE  PhoneTypes' /\ CallTypes'
  <1>. USE TypeParts
  <1>1. c \in Callers
    BY DEF Callers
  <1>2. CASE Start(c)
    BY <1>1, <1>2 DEF Start, PhoneTypes, CallTypes, Call
  <1>3. CASE SendRow(c)
    <2>1. PICK row \in Row : Send(c, row.verb, row.grant, call[c].rows)
      BY <1>1, <1>3 DEF SendRow, Current, CallTypes, Call
    <2>2. row.verb \in Verbs /\ row.grant \in Grants /\ call[c].rows \in SUBSET Row
      BY <1>1 DEF Row, CallTypes, Call
    <2>3. CallTypes'
      BY <1>1, <2>1, <2>2, SendTypes
    <2>. QED
      BY <1>3, <2>3 DEF SendRow, PhoneTypes
  <1>4. CASE RowDone(c)
    BY <1>1, <1>4 DEF RowDone, NextRow, PhoneTypes, CallTypes, Call
  <1>5. CASE RowFailed(c)
    BY <1>1, <1>5 DEF RowFailed, NextRow, PhoneTypes, CallTypes, Call
  <1>6. CASE RunEnds(c)
    BY <1>1, <1>6 DEF RunEnds, PhoneTypes, CallTypes, Call
  <1>. QED
    BY <1>2, <1>3, <1>4, <1>5, <1>6 DEF Run

LEMMA ServeTypesKept ==
  ASSUME TypeOK, NEW req \in inflight,
         Check(req) \/ Apply(req) \/ Overtaken(req) \/ ServerFails(req)
  PROVE  PhoneTypes' /\ CallTypes'
  <1>. USE TypeParts
  <1>1. req \in Request /\ req.by \in Callers \cup {"nobody"}
    BY DEF CallTypes, Request
  <1>2. UNCHANGED <<queue, lastId, shown>>
    BY DEF Check, Apply, Overtaken, ServerFails, ServerKeepsRest
  <1>3. inflight' \subseteq Request
    <2>1. [req EXCEPT !.checked = TRUE] \in Request
      BY <1>1 DEF Request
    <2>2. inflight' \subseteq inflight \cup {[req EXCEPT !.checked = TRUE]}
      BY DEF Check, Apply, Overtaken, ServerFails
    <2>. QED
      BY <2>1, <2>2 DEF CallTypes
  <1>4. call' = call \/ \E stage \in {"yes", "no", "lost"} : Answer(req.by, stage)
    BY DEF Check, Apply, Overtaken, ServerFails
  <1>5. call' \in [Callers -> Call]
    BY <1>1, <1>4, AnswerTypes DEF CallTypes
  <1>. QED
    BY <1>2, <1>3, <1>5 DEF PhoneTypes, CallTypes

LEMMA ScreenTypesKept ==
  ASSUME TypeOK, Tap \/ TapEnds \/ TapQueued \/ List \/ Kill
  PROVE  PhoneTypes' /\ CallTypes'
  <1>. USE TypeParts
  <1>1. "tap" \in Callers /\ \A verb \in Verbs : Outcome[verb] \in Statuses
    BY DEF Callers, Outcome, Verbs, Statuses
  <1>2. CASE Tap
    <2>1. PICK g \in Grants, verb \in Verbs :
            \/ /\ Enqueue(verb, g)
               /\ shown' = [shown EXCEPT ![g] = Outcome[verb]]
               /\ UNCHANGED <<call, inflight>>
            \/ /\ Send("tap", verb, g, {[id |-> 1, verb |-> verb, grant |-> g]})
               /\ UNCHANGED <<queue, lastId, shown>>
      BY <1>2 DEF Tap
    <2>2. CASE Enqueue(verb, g) /\ shown' = [shown EXCEPT ![g] = Outcome[verb]]
               /\ UNCHANGED <<call, inflight>>
      BY <1>1, <2>2, EnqueueTypes DEF PhoneTypes, CallTypes
    <2>3. CASE /\ Send("tap", verb, g, {[id |-> 1, verb |-> verb, grant |-> g]})
               /\ UNCHANGED <<queue, lastId, shown>>
      <3>1. {[id |-> 1, verb |-> verb, grant |-> g]} \in SUBSET Row
        BY ConstantsAssumption DEF Row
      <3>. QED
        BY <1>1, <2>3, <3>1, SendTypes DEF PhoneTypes
    <2>. QED
      BY <2>1, <2>2, <2>3
  <1>3. CASE TapEnds
    BY <1>1, <1>3 DEF TapEnds, PhoneTypes, CallTypes, Idle, Call
  <1>4. CASE TapQueued
    <2>1. PICK d \in Row : Enqueue(d.verb, d.grant) /\ shown' = [shown EXCEPT ![d.grant] = Outcome[d.verb]]
      BY <1>1, <1>4 DEF TapQueued, CallTypes, Call
    <2>2. d.verb \in Verbs /\ d.grant \in Grants
      BY DEF Row
    <2>3. PhoneTypes'
      BY <1>1, <2>1, <2>2, EnqueueTypes DEF PhoneTypes
    <2>4. CallTypes'
      BY <1>1, <1>4 DEF TapQueued, CallTypes, Idle, Call
    <2>. QED
      BY <2>3, <2>4
  <1>5. CASE List
    BY <1>5 DEF List, PhoneStep, serverVars, ServerTypes, PhoneTypes, CallTypes, Callers, Idle, Call, Statuses
  <1>6. CASE Kill
    <2>1. inflight' \subseteq Request
      BY <1>6 DEF Kill, CallTypes, Request
    <2>. QED
      BY <1>6, <2>1 DEF Kill, PhoneTypes, CallTypes, Idle, Call, Statuses
  <1>. QED
    BY <1>2, <1>3, <1>4, <1>5, <1>6

LEMMA BreakTypesKept ==
  ASSUME TypeOK, NEW c \in Callers, ConnectionBreaks(c)
  PROVE  PhoneTypes' /\ CallTypes'
  <1>. USE TypeParts
  <1>1. inflight' \subseteq Request
    <2>1. CASE inflight' = inflight
      BY <2>1 DEF CallTypes
    <2>2. CASE inflight' # inflight
      <3>1. PICK req \in inflight :
              \/ inflight' = inflight \ {req}
              \/ inflight' = (inflight \ {req}) \cup {[req EXCEPT !.by = "nobody"]}
        BY <2>2 DEF ConnectionBreaks
      <3>2. [req EXCEPT !.by = "nobody"] \in Request
        BY DEF CallTypes, Request
      <3>. QED
        BY <3>1, <3>2 DEF CallTypes
    <2>. QED
      BY <2>1, <2>2
  <1>2. call' \in [Callers -> Call]
    BY DEF ConnectionBreaks, CallTypes, Call
  <1>. QED
    BY <1>1, <1>2 DEF ConnectionBreaks, PhoneTypes, CallTypes

LEMMA FaultsKept == TypeOK /\ [Next]_vars => faults' \in 0..MaxFaults
  <1>. SUFFICES ASSUME TypeOK, [Next]_vars PROVE faults' \in 0..MaxFaults
    OBVIOUS
  <1>1. Fault \/ faults' = faults
    BY SellIsSale DEF Next, vars, SaleStep, Tap, TapEnds, TapQueued, List, Kill, Ask,
       SelectPending, SelectActive, InsertGrant, AskStep, ServerFails, Serve, Check, Apply,
       Overtaken, ConnectionBreaks, Run, Start, SendRow, RowDone, RowFailed, RunEnds
  <1>. QED
    BY <1>1, ConstantsAssumption DEF Fault, TypeOK

LEMMA TypesKept == TypeOK /\ [Next]_vars => TypeOK'
  <1>. SUFFICES ASSUME TypeOK, [Next]_vars PROVE PhoneTypes' /\ CallTypes'
    <2>1. TypeOK' <=> ServerTypes' /\ PhoneTypes' /\ CallTypes' /\ faults' \in 0..MaxFaults
      BY DEF TypeOK, ServerTypes, PhoneTypes, CallTypes
    <2>. QED
      BY <2>1, ServerTypesKept, FaultsKept
  <1>1. ASSUME UNCHANGED <<deviceVars, inflight>> PROVE PhoneTypes' /\ CallTypes'
    BY <1>1, TypeParts DEF deviceVars, PhoneTypes, CallTypes
  <1>2. CASE UNCHANGED vars \/ Sell \/ \E r \in Requesters : Ask(r)
    BY <1>1, <1>2, SellIsSale DEF vars, SaleStep, Ask, SelectPending, SelectActive, InsertGrant, AskStep
  <1>3. CASE Tap \/ TapEnds \/ TapQueued \/ List \/ Kill
    BY <1>3, ScreenTypesKept
  <1>4. CASE \E req \in inflight : ServerFails(req)
    BY <1>4, ServeTypesKept
  <1>5. CASE \E c \in Callers \cup {"nobody"} : Serve(c)
    BY <1>5, ServeTypesKept DEF Serve
  <1>6. CASE \E c \in Callers : ConnectionBreaks(c)
    BY <1>6, BreakTypesKept
  <1>7. CASE \E c \in Processors : Run(c)
    BY <1>7, RunTypesKept
  <1>. QED
    BY <1>2, <1>3, <1>4, <1>5, <1>6, <1>7 DEF Next

-----------------------------------------------------------------------------
(* Safety                                                                  *)

LEMMA InitIInv == Init => IInv
  <1>. SUFFICES ASSUME Init PROVE IInv
    OBVIOUS
  <1>1. ServerTypes
    <2>1. order \in Seq(Grants) /\ Len(order) <= MaxGrants /\ ToSet(order) = {}
      BY ConstantsAssumption DEF Init, ToSet
    <2>. QED
      BY <2>1 DEF Init, ServerTypes, Statuses, NoPackage, Package
  <1>2. PhoneTypes /\ CallTypes /\ faults \in 0..MaxFaults
    BY ConstantsAssumption DEF Init, PhoneTypes, CallTypes, Statuses, Call, Idle
  <1>3. TypeOK
    BY <1>1, <1>2, TypeParts
  <1>4. GateFollowsFarmer /\ AskInv /\ OpenIsLast
    BY DEF Init, GateFollowsFarmer, Gate, AskInv, OpenIsLast, Open, WithStatus
  <1>. QED
    BY <1>3, <1>4 DEF IInv

LEMMA GateKept == IInv /\ [Next]_vars => GateFollowsFarmer'
  <1>. SUFFICES ASSUME IInv, [Next]_vars PROVE GateFollowsFarmer'
    OBVIOUS
  <1>. USE DEF IInv
  <1>1. ASSUME NEW req \in inflight, Apply(req) PROVE GateFollowsFarmer'
    <2>1. latest' = req.verb /\ req.verb \in Verbs /\ Gate' = Outcome[req.verb]
      BY <1>1, ApplyMoves DEF Apply
    <2>. QED
      BY <2>1 DEF GateFollowsFarmer, Outcome, Verbs
  <1>2. ASSUME NEW r \in Requesters, InsertGrant(r) PROVE GateFollowsFarmer'
    BY <1>2, InsertMoves DEF GateFollowsFarmer
  <1>3. CASE UNCHANGED <<status, order, latest>>
    BY <1>3 DEF GateFollowsFarmer, Gate
  <1>. QED
    BY <1>1, <1>2, <1>3, OnlyTwoMoves

(* A decision takes a grant out of the pending ones, and adds an active    *)
(* one only in exchange for a pending one.                                 *)
LEMMA ApplyShrinks ==
  ASSUME TypeOK, NEW req \in inflight, Apply(req)
  PROVE  /\ WithStatus("pending")' \subseteq WithStatus("pending")
         /\ req.grant \in Open
         /\ Open' \subseteq Open
         /\ WithStatus("pending") = {} => WithStatus("active")' \subseteq WithStatus("active")
  <1>1. /\ req.grant \in Grants /\ req.verb \in Verbs
        /\ status[req.grant] = Needs(req.verb)
        /\ status' = [status EXCEPT ![req.grant] = Outcome[req.verb]]
    BY ApplyMoves
  <1>2. /\ Outcome[req.verb] # "pending"
        /\ Needs(req.verb) \in {"pending", "active"}
        /\ Outcome[req.verb] = "active" => Needs(req.verb) = "pending"
    BY <1>1 DEF Outcome, Needs, Verbs
  <1>3. \A g \in Grants : status'[g] = IF g = req.grant THEN Outcome[req.verb] ELSE status[g]
    BY <1>1 DEF TypeOK
  <1>. QED
    BY <1>1, <1>2, <1>3 DEF Open, WithStatus

LEMMA OpenKept == IInv /\ [Next]_vars => AskInv' /\ OpenIsLast'
  <1>. SUFFICES ASSUME IInv, [Next]_vars, ~overlapped' PROVE AskInv' /\ OpenIsLast'
    BY DEF AskInv, OpenIsLast
  <1>. USE DEF IInv
  <1>1. ASSUME NEW req \in inflight, Apply(req) PROVE AskInv' /\ OpenIsLast'
    <2>1. UNCHANGED <<asking, overlapped>>
      BY <1>1 DEF Apply, ServerKeepsRest
    <2>2. AskInv'
      BY <1>1, <2>1, ApplyShrinks DEF AskInv
    <2>3. \A g \in Open : g = req.grant
      BY <1>1, <2>1, ApplyShrinks DEF OpenIsLast
    <2>4. OpenIsLast'
      BY <1>1, <2>3, ApplyShrinks, ApplyMoves DEF OpenIsLast
    <2>. QED
      BY <2>2, <2>4
  <1>2. ASSUME NEW r \in Requesters, InsertGrant(r) PROVE AskInv' /\ OpenIsLast'
    <2>1. /\ asking[r] = "noActive" /\ asking' = [asking EXCEPT ![r] = "idle"]
          /\ UNCHANGED overlapped
      BY <1>2 DEF InsertGrant, AskStep
    <2>2. Open = {} /\ \A q \in Requesters : asking'[q] = "idle"
      BY <2>1 DEF AskInv, Open, TypeOK
    <2>3. PICK g \in Grants : status' = [status EXCEPT ![g] = "pending"] /\ Last(order') = g
      BY <1>2, InsertMoves
    <2>4. Open' \subseteq {g}
      BY <2>2, <2>3 DEF Open, WithStatus, TypeOK
    <2>. QED
      BY <2>2, <2>3, <2>4 DEF AskInv, OpenIsLast
  <1>3. ASSUME NEW r \in Requesters, SelectPending(r) PROVE AskInv' /\ OpenIsLast'
    <2>1. /\ WithStatus("pending") = {} /\ UNCHANGED <<status, order>>
          /\ asking' = [asking EXCEPT ![r] = "noPending"]
          /\ ~overlapped /\ \A q \in Requesters : asking[q] = "idle"
      BY <1>3 DEF SelectPending, AskStep
    <2>2. \A q \in Requesters : asking'[q] = IF q = r THEN "noPending" ELSE "idle"
      BY <2>1 DEF TypeOK
    <2>3. WithStatus("pending")' = {} /\ Open' = Open
      BY <2>1 DEF WithStatus, Open
    <2>. QED
      BY <2>1, <2>2, <2>3 DEF AskInv, OpenIsLast
  <1>4. ASSUME NEW r \in Requesters, SelectActive(r) PROVE AskInv' /\ OpenIsLast'
    <2>1. /\ asking[r] = "noPending" /\ UNCHANGED <<status, order, overlapped>>
          /\ asking' = [asking EXCEPT ![r] = IF WithStatus("active") = {} THEN "noActive" ELSE "idle"]
      BY <1>4 DEF SelectActive, AskStep
    <2>2. \A q \in Requesters :
            /\ q # r => asking'[q] = asking[q]
            /\ asking'[r] = "noActive" => WithStatus("active") = {}
      BY <2>1 DEF TypeOK
    <2>3. /\ WithStatus("pending")' = WithStatus("pending")
          /\ WithStatus("active")' = WithStatus("active") /\ Open' = Open
      BY <2>1 DEF WithStatus, Open
    <2>. QED
      BY <2>1, <2>2, <2>3 DEF AskInv, OpenIsLast
  <1>5. CASE UNCHANGED <<status, order, asking, overlapped>>
    BY <1>5 DEF AskInv, OpenIsLast, Open, WithStatus
  <1>6. \/ \E req \in inflight : Apply(req)
        \/ \E r \in Requesters : InsertGrant(r) \/ SelectPending(r) \/ SelectActive(r)
        \/ UNCHANGED <<asking, overlapped>>
    BY SellIsSale DEF Next, vars, SaleStep, Tap, TapEnds, TapQueued, List, Kill, PhoneStep, Ask,
       ServerFails, Serve, Check, Overtaken, ServerKeepsRest,
       ConnectionBreaks, Run, Start, SendRow, RowDone, RowFailed, RunEnds
  <1>. QED
    BY <1>1, <1>2, <1>3, <1>4, <1>5, <1>6, OnlyTwoMoves

LEMMA NextIInv == IInv /\ [Next]_vars => IInv'
  BY TypesKept, GateKept, OpenKept DEF IInv

LEMMA Invariance == Spec => []IInv
  <1>1. Init => IInv
    BY InitIInv
  <1>2. IInv /\ [Next]_vars => IInv'
    BY NextIInv
  <1>. QED
    BY <1>1, <1>2, PTL DEF Spec

(* Every variable of the consent model keeps its type.                     *)
THEOREM TypeCorrect == Spec => []TypeOK
  BY Invariance, PTL DEF IInv

(* The organisation's gate is open under consent only while the farmer's   *)
(* last effective decision is an approval.                                 *)
THEOREM GateIsTheFarmers == Spec => []GateFollowsFarmer
  BY Invariance, PTL DEF IInv

(* Without overlapping requests there is one open grant, and the delivery  *)
(* check and the data gate agree.                                          *)
THEOREM OneGrantIsOpen == Spec => []OneOpenGrant
  <1>1. IInv => OneOpenGrant
    <2>. SUFFICES ASSUME IInv, ~overlapped
                  PROVE  /\ \A g, h \in Open : g = h
                         /\ CanDeliverTo = (Gate = "active")
      BY DEF OneOpenGrant, Open
    <2>1. \A g \in Open : Last(order) = g
      BY DEF IInv, OpenIsLast
    <2>2. CanDeliverTo => Gate = "active"
      <3>. SUFFICES ASSUME NEW g \in Grants, status[g] = "active" PROVE Gate = "active"
        BY DEF CanDeliverTo, WithStatus
      <3>1. g \in Open /\ order # <<>>
        BY UpdatedGrants DEF IInv, Open, WithStatus
      <3>. QED
        BY <2>1, <3>1 DEF Gate
    <2>3. Gate = "active" => CanDeliverTo
      BY UpdatedGrants DEF IInv, Gate, CanDeliverTo, WithStatus
    <2>. QED
      BY <2>1, <2>2, <2>3 DEF CanDeliverTo
  <1>. QED
    BY <1>1, Invariance, PTL

(* Whatever is replayed, a grant only moves forward.                       *)
THEOREM DecisionsStand == Spec => NoDecisionUndone
  <1>. DEFINE Forward(g) ==
         status'[g] # status[g] =>
           <<status[g], status'[g]>> \in
             {<<"none", "pending">>, <<"pending", "active">>, <<"pending", "denied">>,
              <<"active", "revoked">>}
  <1>1. IInv /\ [Next]_vars => \A g \in Grants : Forward(g)
    <2>. SUFFICES ASSUME IInv, [Next]_vars, NEW g \in Grants PROVE Forward(g)
      OBVIOUS
    <2>1. ASSUME NEW req \in inflight, Apply(req) PROVE Forward(g)
      <3>1. /\ req.verb \in Verbs /\ status[req.grant] = Needs(req.verb)
            /\ status' = [status EXCEPT ![req.grant] = Outcome[req.verb]]
        BY <2>1, ApplyMoves DEF IInv
      <3>2. CASE g # req.grant
        BY <3>1, <3>2 DEF IInv, TypeOK
      <3>3. CASE g = req.grant
        BY <3>1, <3>3 DEF IInv, TypeOK, Outcome, Needs, Verbs
      <3>. QED
        BY <3>2, <3>3
    <2>2. ASSUME NEW r \in Requesters, InsertGrant(r) PROVE Forward(g)
      BY <2>2, InsertMoves DEF IInv, TypeOK
    <2>3. CASE UNCHANGED status
      BY <2>3
    <2>. QED
      BY <2>1, <2>2, <2>3, OnlyTwoMoves
  <1>2. IInv /\ [Next]_vars => [\A g \in Grants : Forward(g)]_status
    BY <1>1
  <1>. QED
    BY <1>2, Invariance, PTL DEF Spec, NoDecisionUndone

(* A readable voucher of a package filed under the farmer becomes          *)
(* unreadable only by a new request of the organisation, or a revocation   *)
(* in the millisecond of the package's creation.                           *)
THEOREM SoldLineageSurvives == Spec => SoldStaysReadable
  <1>. DEFINE Hidden(v) == CanReadVoucher(v) /\ ~CanReadVoucher(v)' /\ Member
              Safe == VouchersOf(Filed \ recent)
  <1>1. IInv /\ [Next]_vars => \A v \in Safe : Hidden(v) => Gate' = "pending"
    <2>. SUFFICES ASSUME IInv, [Next]_vars, NEW v \in Safe, Hidden(v) PROVE Gate' = "pending"
      OBVIOUS
    <2>1. ~CanReadNewData' /\ v \notin SoldLineage'
      BY DEF CanReadVoucher
    <2>2. PICK k \in Filed \ recent : v \in packages[k].vouchers
      BY DEF VouchersOf
    <2>3. k \in Packages /\ k \in Filed' /\ v \in packages'[k].vouchers
      BY <2>2, FiledStays DEF IInv, Filed
    <2>4. \A ks : k \in ks => v \in VouchersOf(Filed \cap ks)' /\ v \in VouchersOf(Filed)'
      BY <2>3 DEF VouchersOf
    <2>5. ASSUME NEW req \in inflight, Apply(req) PROVE FALSE
      <3>1. /\ req.grant \in Grants /\ req.verb \in Verbs
            /\ Gate' = Outcome[req.verb] /\ Last(order') = req.grant
        BY <2>5, ApplyMoves DEF IInv
      <3>2. CASE req.verb = "approve"
        BY <2>1, <3>1, <3>2 DEF CanReadNewData, Outcome, Verbs
      <3>3. CASE req.verb = "deny"
        <4>1. Gate' = "denied"
          BY <3>1, <3>3 DEF Outcome, Verbs
        <4>. QED
          BY <2>1, <2>4, <4>1 DEF SoldLineage
      <3>4. CASE req.verb = "revoke"
        <4>1. Gate' = "revoked"
          BY <3>1, <3>4 DEF Outcome, Verbs
        <4>2. before'[req.grant] = Created \ recent
          BY <2>5, <3>1, <3>4 DEF Apply, IInv, TypeOK
        <4>3. k \in before'[Last(order')]
          BY <2>2, <3>1, <4>2 DEF Created, Filed
        <4>. QED
          BY <2>1, <2>4, <4>1, <4>3 DEF SoldLineage, VouchersOf
      <3>. QED
        BY <3>1, <3>2, <3>3, <3>4 DEF Verbs
    <2>6. CASE \E r \in Requesters : InsertGrant(r)
      BY <2>6, InsertMoves DEF IInv
    <2>7. CASE UNCHANGED <<status, order, before>>
      <3>1. Gate' = Gate
        BY <2>7 DEF Gate
      <3>2. SoldLineage \subseteq SoldLineage'
        <4>1. \A ks : VouchersOf(Filed \cap ks) \subseteq UNION {packages'[q].vouchers : q \in Filed' \cap ks}
          BY FiledStays DEF IInv, VouchersOf
        <4>2. VouchersOf(Filed) \subseteq VouchersOf(Filed)'
          BY FiledStays DEF IInv, VouchersOf
        <4>. QED
          BY <2>7, <3>1, <4>1, <4>2 DEF SoldLineage, VouchersOf
      <3>. QED
        BY <2>1, <3>1, <3>2 DEF CanReadVoucher, CanReadNewData
    <2>. QED
      BY <2>5, <2>6, <2>7, OnlyTwoMoves
  <1>2. IInv /\ [Next]_vars => [\A v \in Safe : Hidden(v) => Gate' = "pending"]_vars
    BY <1>1
  <1>. QED
    BY <1>2, Invariance, PTL DEF Spec, SoldStaysReadable
=============================================================================
