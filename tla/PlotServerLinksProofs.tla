----------------------- MODULE PlotServerLinksProofs -----------------------
(***************************************************************************)
(* That posting plots makes no second row for a plot and none beside a row *)
(* without client id that bears its name, for any plots and names, any     *)
(* first rows the database allows, and any pipelines, screens and faults.  *)
(***************************************************************************)
EXTENDS PlotServerLinks, SequenceTheorems, FiniteSetTheorems, TLAPS

Entered == UNION {ToSet(list) : list \in FirstRows}
Clients == Ids \cup {Nobody} \cup {r.client : r \in Entered}
Names == {NameOf[p] : p \in Ids} \cup {r.name : r \in Entered}
Row == [client : Clients, name : Names, over : SUBSET Ids]

(* A plot has one row, under its name; a row without client id is the only *)
(* one of its name this phone may have made or may claim.                  *)
RowsOk(table) ==
  /\ table \in Seq(Row)
  /\ \A i \in DOMAIN table : table[i].client \in Ids => table[i].name = NameOf[table[i].client]
  /\ \A i, j \in DOMAIN table :
       table[i].client = table[j].client /\ table[i].client \in Ids => i = j
  /\ \A i, j \in DOMAIN table :
       /\ table[i].name = table[j].name
       /\ table[i].client = Nobody /\ table[j].client \in Ids \cup {Nobody}
       => i = j

(* What an old list says of a row still holds, except that it had no       *)
(* client id.                                                              *)
Past(list, table) ==
  \A i \in DOMAIN list :
    /\ i \in DOMAIN table /\ list[i].name = table[i].name
    /\ list[i].client \in {Nobody, table[i].client}

Shape(o) == o = [at |-> o.at, part |-> o.part, links |-> o.links, list |-> o.list,
                 todo |-> o.todo, row |-> o.row, saved |-> o.saved, failed |-> o.failed]

(* What a pipeline or a screen remembers: a list from the past, plots, and *)
(* while it creates a plot's row the answers it had.                       *)
Remembers(o, table) ==
  /\ Shape(o) /\ o.todo \subseteq Ids /\ Past(o.list, table)
  /\ o.at \in {"post", "gate", "lookup", "claim", "insert"} => o.todo # {}
  /\ o.at = "claim" => /\ o.row \in DOMAIN table
                       /\ table[o.row].name = NameOf[First(o.todo)]
  /\ o.at = "insert" => Orphans(table, First(o.todo)) = {}

IInv ==
  /\ RowsOk(rows)
  /\ cache = NoList \/ Past(cache, rows)
  /\ late \subseteq Ids
  /\ op = [a \in Callers |-> op[a]]
  /\ \A a \in Callers : Remembers(op[a], rows)

-----------------------------------------------------------------------------
(* Of some places in a sequence one is the first ...                       *)
LEMMA FirstPlace ==
  ASSUME NEW n \in Nat, NEW T, T \subseteq 1..n, T # {}
  PROVE  \E x \in T : \A y \in T : x <= y
  <1>. DEFINE heads == {1..y : y \in T}
  <1>1. IsWellFoundedOn(StrictSubsetOrdering(1..n), SUBSET (1..n))
    <2>1. IsFiniteSet(1..n)
      BY FS_Interval
    <2>. QED
      BY <2>1, FS_StrictSubsetOrderingWellFounded, FS_FiniteSubsetsOfFinite
  <1>2. heads \subseteq SUBSET (1..n)
    BY \A y \in T : 1..y \subseteq 1..n
  <1>3. heads # {}
    OBVIOUS
  <1>4. \E a \in heads : \A b \in heads : ~(<<b, a>> \in StrictSubsetOrdering(1..n))
    <2>. HIDE DEF heads
    <2>. QED
      BY <1>1, <1>2, <1>3, WFMin
  <1>5. PICK x \in T : \A y \in T : ~(<<1..y, 1..x>> \in StrictSubsetOrdering(1..n))
    BY <1>4
  <1>6. ASSUME NEW y \in T, y < x PROVE FALSE
    <2>1. 1..y \subseteq 1..x /\ x \in 1..x /\ x \notin 1..y /\ 1..x \subseteq 1..n
      BY <1>6
    <2>. QED
      BY <1>5, <2>1 DEF StrictSubsetOrdering
  <1>. QED
    BY <1>6

(* ... and one the last.                                                   *)
LEMMA LastPlace ==
  ASSUME NEW n \in Nat, NEW T, T \subseteq 1..n, T # {}
  PROVE  \E x \in T : \A y \in T : x >= y
  <1>. DEFINE mirror == {n + 1 - y : y \in T}
  <1>1. mirror \subseteq 1..n
    BY \A y \in T : n + 1 - y \in 1..n
  <1>2. mirror # {}
    OBVIOUS
  <1>3. \E x \in mirror : \A y \in mirror : x <= y
    <2>. HIDE DEF mirror
    <2>. QED
      BY <1>1, <1>2, FirstPlace
  <1>4. PICK x \in T : \A y \in T : n + 1 - x <= n + 1 - y
    BY <1>3
  <1>5. \A y \in T : x >= y
    BY <1>4, \A y \in T : y \in 1..n
  <1>. HIDE DEF mirror
  <1>. QED
    BY <1>5

(* The first of some plots, the newest of some rows.                       *)
LEMMA FirstIsOne ==
  ASSUME NEW plots, plots \subseteq Ids, plots # {}
  PROVE  First(plots) \in plots
  <1>. DEFINE Place(p) == CHOOSE i \in DOMAIN LocalPlots : LocalPlots[i] = p
              places == {Place(p) : p \in plots}
  <1>1. /\ LocalPlots \in Seq(Ids) /\ Len(LocalPlots) \in Nat
        /\ DOMAIN LocalPlots = 1..Len(LocalPlots)
    BY PlotsAssumption
  <1>2. \A p \in Ids : Place(p) \in 1..Len(LocalPlots)
    <2>1. \A p \in Ids : \E i \in DOMAIN LocalPlots : LocalPlots[i] = p
      BY DEF Ids, ToSet
    <2>. QED
      BY <1>1, <2>1
  <1>. HIDE DEF Place
  <1>3. places \subseteq 1..Len(LocalPlots)
    BY <1>2
  <1>4. places # {}
    OBVIOUS
  <1>5. \E x \in places : \A y \in places : x <= y
    <2>. HIDE DEF places
    <2>. QED
      BY <1>1, <1>3, <1>4, FirstPlace
  <1>6. \E p \in plots : \A q \in plots : Place(p) <= Place(q)
    BY <1>5
  <1>7. First(plots) = CHOOSE p \in plots : \A q \in plots : Place(p) <= Place(q)
    BY DEF First, Place
  <1>. QED
    BY <1>6, <1>7

LEMMA NewestIsOne ==
  ASSUME NEW n \in Nat, NEW is, is \subseteq 1..n, is # {}
  PROVE  Newest(is) \in is
  <1>1. \E i \in is : \A j \in is : i >= j
    BY LastPlace
  <1>. QED
    BY <1>1 DEF Newest, Max

(* The first rows are of the shape of all rows.                            *)
LEMMA FirstRowsOk ==
  ASSUME NEW list \in FirstRows
  PROVE  RowsOk(list)
  <1>1. /\ list \in Seq(ToSet(list))
        /\ \A r \in ToSet(list) :
               /\ r = [client |-> r.client, name |-> r.name, over |-> r.over]
               /\ r.client \notin Ids /\ r.over \subseteq Ids
        /\ \A i, j \in DOMAIN list :
               list[i].name = list[j].name /\ list[i].client = list[j].client
               /\ list[i].client = Nobody => i = j
    BY FirstRowsAssumption
  <1>2. ToSet(list) \subseteq Row
    <2>1. \A r \in ToSet(list) : r.client \in Clients /\ r.name \in Names
      BY DEF Clients, Names, Entered
    <2>. QED
      BY <1>1, <2>1 DEF Row
  <1>3. list \in Seq(Row)
    BY <1>1, <1>2, SeqMonotonic
  <1>4. \A i \in DOMAIN list : list[i] \in ToSet(list)
    BY DEF ToSet
  <1>5. \A i, j \in DOMAIN list :
          /\ list[i].name = list[j].name
          /\ list[i].client = Nobody /\ list[j].client \in Ids \cup {Nobody}
          => i = j
    <2>. SUFFICES ASSUME NEW i \in DOMAIN list, NEW j \in DOMAIN list,
                         list[i].name = list[j].name, list[i].client = Nobody,
                         list[j].client \in Ids \cup {Nobody}
                  PROVE  i = j
      OBVIOUS
    <2>1. list[j].client = Nobody
      BY <1>1, <1>4
    <2>. QED
      BY <1>1, <2>1
  <1>. QED
    BY <1>1, <1>3, <1>4, <1>5 DEF RowsOk

-----------------------------------------------------------------------------
(* How the table grows: a row is claimed, or added.                        *)
LEMMA PastOfPast ==
  ASSUME NEW list, NEW table, NEW next, Past(list, table), Past(table, next)
  PROVE  Past(list, next)
  BY DEF Past

LEMMA Claimed ==
  ASSUME NEW table, RowsOk(table), NEW p \in Ids, NEW i \in Orphans(table, p),
         NEW next, next = [table EXCEPT ![i].client = p]
  PROVE  /\ RowsOk(next) /\ Past(table, next)
         /\ \A q : Orphans(table, q) = {} => Orphans(next, q) = {}
  <1>1. /\ i \in DOMAIN table /\ table[i].name = NameOf[p] /\ table[i].client = Nobody
        /\ table \in Seq(Row) /\ table[i] \in Row
    BY DEF Orphans, Namesakes, RowsOk
  <1>. DEFINE r == [client |-> p, name |-> NameOf[p], over |-> table[i].over]
  <1>2. r \in Row /\ r.client = p /\ r.name = NameOf[p]
    BY <1>1 DEF Row, Clients, Names
  <1>3. [table[i] EXCEPT !.client = p] = r
    BY <1>1 DEF Row
  <1>. HIDE DEF r
  <1>4. next = [table EXCEPT ![i] = r]
    BY <1>3
  <1>5. /\ next \in Seq(Row) /\ DOMAIN next = DOMAIN table
        /\ \A j \in DOMAIN table : next[j] = IF j = i THEN r ELSE table[j]
    BY <1>1, <1>2, <1>4
  <1>6. Nobody \notin Ids
    BY PlotsAssumption
  <1>7. \A j \in DOMAIN table : table[j].client = p => FALSE
    BY <1>1, <1>6 DEF RowsOk
  <1>8. RowsOk(next)
    BY <1>1, <1>2, <1>5, <1>6, <1>7 DEF RowsOk
  <1>9. Past(table, next)
    BY <1>1, <1>2, <1>5 DEF Past
  <1>10. \A q : Orphans(table, q) = {} => Orphans(next, q) = {}
    BY <1>1, <1>2, <1>5, <1>6 DEF Orphans, Namesakes
  <1>. QED
    BY <1>8, <1>9, <1>10

LEMMA RowAdded ==
  ASSUME NEW table, RowsOk(table), NEW p \in Ids,
         OwnRows(table, p) = {}, Orphans(table, p) = {},
         NEW next, next = Append(table, [client |-> p, name |-> NameOf[p], over |-> {p}])
  PROVE  /\ RowsOk(next) /\ Past(table, next)
         /\ \A q : Orphans(table, q) = {} => Orphans(next, q) = {}
  <1>. DEFINE r == [client |-> p, name |-> NameOf[p], over |-> {p}]
  <1>1. r \in Row /\ r.client = p /\ r.name = NameOf[p]
    BY DEF Row, Clients, Names
  <1>. HIDE DEF r
  <1>2. next = Append(table, r) /\ table \in Seq(Row)
    BY DEF r, RowsOk
  <1>3. /\ next \in Seq(Row) /\ DOMAIN next = DOMAIN table \cup {Len(table) + 1}
        /\ Len(table) + 1 \notin DOMAIN table
        /\ next[Len(table) + 1] = r
        /\ \A j \in DOMAIN table : next[j] = table[j]
    BY <1>1, <1>2
  <1>4. Nobody \notin Ids
    BY PlotsAssumption
  <1>5. \A j \in DOMAIN table :
          table[j].client # p /\ (table[j].client = Nobody => table[j].name # NameOf[p])
    BY DEF OwnRows, Orphans, Namesakes
  <1>6. RowsOk(next)
    BY <1>1, <1>3, <1>4, <1>5 DEF RowsOk
  <1>7. Past(table, next)
    BY <1>3 DEF Past
  <1>8. \A q : Orphans(table, q) = {} => Orphans(next, q) = {}
    BY <1>1, <1>3, <1>4 DEF Orphans, Namesakes
  <1>. QED
    BY <1>6, <1>7, <1>8

-----------------------------------------------------------------------------
(* Steps that leave the rows alone.                                        *)

\* The stages in which what a caller remembers is about the rows of today.
Creating == {"post", "gate", "lookup", "claim", "insert"}

LEMMA OutsideCreation ==
  ASSUME NEW o, NEW table, Remembers(o, table), NEW next, Shape(next),
         next.todo \subseteq Ids, Past(next.list, table), next.at \notin Creating
  PROVE  Remembers(next, table)
  BY DEF Remembers, Creating

LEMMA CallerMoves ==
  ASSUME IInv, NEW a \in Callers, NEW next, Remembers(next, rows), UNCHANGED rows,
         op' = [op EXCEPT ![a] = next],
         cache' = NoList \/ Past(cache', rows), late' \subseteq Ids
  PROVE  IInv'
  BY DEF IInv

(* The usual case: one caller goes on, and asks the server to create nothing. *)
LEMMA QuietStep ==
  ASSUME IInv, NEW a \in Callers, NEW next, Shape(next), next.todo \subseteq Ids,
         Past(next.list, rows), next.at \notin Creating,
         op' = [op EXCEPT ![a] = next],
         cache' = NoList \/ Past(cache', rows), UNCHANGED <<rows, late>>
  PROVE  IInv'
  <1>1. Remembers(op[a], rows)
    BY DEF IInv
  <1>2. Remembers(next, rows)
    BY <1>1, OutsideCreation
  <1>. QED
    BY <1>2, CallerMoves DEF IInv

LEMMA NothingPast ==
  ASSUME NEW table
  PROVE  Past(<<>>, table)
  BY DEF Past

LEMMA IdleQuiet ==
  Shape(Idle) /\ Idle.todo = {} /\ Idle.list = <<>> /\ Idle.at = "idle"
  BY DEF Shape, Idle

(* A stage is left for another.                                            *)
LEMMA GoingRemembers ==
  ASSUME IInv, NEW a \in Callers, NEW at, at \notin Creating, Going(a, at),
         cache' = NoList \/ Past(cache', rows), UNCHANGED <<rows, late>>
  PROVE  IInv'
  <1>1. PICK o : o = op[a]
    OBVIOUS
  <1>2. Shape(o) /\ o.todo \subseteq Ids /\ Past(o.list, rows)
    BY <1>1 DEF IInv, Remembers
  <1>3. PICK next : next = [o EXCEPT !.at = at]
    OBVIOUS
  <1>4. Shape(next) /\ next.todo = o.todo /\ next.list = o.list /\ next.at = at
    BY <1>2, <1>3 DEF Shape
  <1>5. op' = [op EXCEPT ![a] = next]
    BY <1>1, <1>3 DEF Going
  <1>. QED
    BY <1>2, <1>4, <1>5, QuietStep

-----------------------------------------------------------------------------
(* Fetching and reconciling                                                *)

LEMMA AskingQuiet ==
  ASSUME IInv, NEW o, Shape(o), NEW next, next = Asking(o)
  PROVE  /\ Shape(next) /\ next.todo = o.todo /\ next.at \notin Creating
         /\ Past(o.list, rows) => Past(next.list, rows)
  <1>1. CASE cache = NoList
    <2>1. next = [o EXCEPT !.at = "asked"]
      BY <1>1 DEF Asking
    <2>. QED
      BY <2>1 DEF Shape, Creating
  <1>2. CASE cache # NoList
    <2>1. next = [o EXCEPT !.at = "known", !.list = cache]
      BY <1>2 DEF Asking
    <2>2. Past(cache, rows)
      BY <1>2 DEF IInv
    <2>. QED
      BY <2>1, <2>2 DEF Shape, Creating
  <1>. QED
    BY <1>1, <1>2

LEMMA StartUploadKeeps ==
  ASSUME IInv, NEW a \in Callers, StartUpload(a)
  PROVE  IInv'
  <1>1. PICK next : next = [Idle EXCEPT !.at = "asked", !.part = "upload", !.links = stored]
    OBVIOUS
  <1>2. Shape(next) /\ next.todo = {} /\ next.at \notin Creating /\ next.list = <<>>
    BY <1>1 DEF Shape, Idle, Creating
  <1>3. op' = [op EXCEPT ![a] = next]
    BY <1>1 DEF StartUpload
  <1>. QED
    BY <1>2, <1>3, QuietStep, NothingPast DEF StartUpload, IInv

LEMMA StartRefreshKeeps ==
  ASSUME IInv, NEW a \in Callers, StartRefresh(a)
  PROVE  IInv'
  <1>1. PICK part \in {"early", "late"} :
          op' = [op EXCEPT ![a] = Asking([Idle EXCEPT !.part = part, !.links = stored])]
    BY DEF StartRefresh
  <1>2. PICK o : o = [Idle EXCEPT !.part = part, !.links = stored]
    OBVIOUS
  <1>3. Shape(o) /\ o.todo = {} /\ o.list = <<>>
    BY <1>2 DEF Shape, Idle
  <1>4. PICK next : next = Asking(o)
    OBVIOUS
  <1>5. Shape(next) /\ next.todo = {} /\ next.at \notin Creating /\ Past(next.list, rows)
    BY <1>3, <1>4, AskingQuiet, NothingPast
  <1>6. op' = [op EXCEPT ![a] = next]
    BY <1>1, <1>2, <1>4
  <1>. QED
    BY <1>5, <1>6, QuietStep DEF StartRefresh, IInv

LEMMA ListServedKeeps ==
  ASSUME IInv, NEW a \in Callers, ListServed(a)
  PROVE  IInv'
  <1>1. PICK o : o = op[a]
    OBVIOUS
  <1>2. Shape(o) /\ o.todo \subseteq Ids
    BY <1>1 DEF IInv, Remembers
  <1>3. PICK next : next = [o EXCEPT !.at = "listed", !.list = rows]
    OBVIOUS
  <1>4. Shape(next) /\ next.todo = o.todo /\ next.list = rows /\ next.at \notin Creating
    BY <1>2, <1>3 DEF Shape, Creating
  <1>5. op' = [op EXCEPT ![a] = next]
    BY <1>1, <1>3 DEF ListServed
  <1>6. Past(rows, rows)
    BY DEF Past
  <1>. QED
    BY <1>2, <1>4, <1>5, <1>6, QuietStep DEF ListServed, IInv

LEMMA DrainOrEndQuiet ==
  ASSUME NEW o, NEW all, NEW next, next = DrainOrEnd(o, all)
  PROVE  Shape(next) /\ next.todo = {} /\ next.list = <<>> /\ next.at \notin Creating
  <1>1. CASE all /\ ~o.failed
    <2>1. next = [Idle EXCEPT !.at = "drain", !.part = "drain"]
      BY <1>1 DEF DrainOrEnd
    <2>. QED
      BY <2>1 DEF Idle, Shape, Creating
  <1>2. CASE ~(all /\ ~o.failed)
    BY <1>2, IdleQuiet DEF DrainOrEnd, Creating
  <1>. QED
    BY <1>1, <1>2

LEMMA FetchFailsKeeps ==
  ASSUME IInv, NEW a \in Callers, FetchFails(a)
  PROVE  IInv'
  <1>1. PICK o : o = op[a]
    OBVIOUS
  <1>2. Shape(o) /\ o.todo \subseteq Ids
    BY <1>1 DEF IInv, Remembers
  <1>3. PICK next : /\ op' = [op EXCEPT ![a] = next]
                    /\ \/ next = DrainOrEnd(o, \A p \in Ids : stored[p] # 0)
                       \/ next = DrainOrEnd(o, TRUE)
                       \/ next = [o EXCEPT !.at = "known", !.list = <<>>, !.links = stored]
                       \/ next = Idle
    <2>. DEFINE end == CASE o.part = "upload" -> DrainOrEnd(o, \A p \in Ids : stored[p] # 0)
           [] o.part = "final" -> DrainOrEnd(o, TRUE)
           [] o.part = "drain" -> [o EXCEPT !.at = "known", !.list = <<>>, !.links = stored]
           [] OTHER -> Idle
    <2>1. op' = [op EXCEPT ![a] = end]
      BY <1>1 DEF FetchFails
    <2>. QED
      BY <2>1
  <1>4. /\ Shape(next) /\ next.todo \subseteq Ids /\ Past(next.list, rows)
        /\ next.at \notin Creating
    <2>1. CASE next = DrainOrEnd(o, \A p \in Ids : stored[p] # 0) \/ next = DrainOrEnd(o, TRUE)
      BY <2>1, DrainOrEndQuiet, NothingPast
    <2>2. CASE next = [o EXCEPT !.at = "known", !.list = <<>>, !.links = stored]
      <3>1. Shape(next) /\ next.todo = o.todo /\ next.list = <<>> /\ next.at = "known"
        BY <1>2, <2>2 DEF Shape
      <3>. QED
        BY <1>2, <3>1, NothingPast DEF Creating
    <2>3. CASE next = Idle
      BY <2>3, IdleQuiet, NothingPast DEF Creating
    <2>. QED
      BY <1>3, <2>1, <2>2, <2>3
  <1>. QED
    BY <1>3, <1>4, QuietStep DEF FetchFails, IInv

LEMMA ReconcileKeeps ==
  ASSUME IInv, NEW a \in Callers, Reconcile(a)
  PROVE  IInv'
  <1>1. PICK o : o = op[a]
    OBVIOUS
  <1>2. Shape(o) /\ o.todo \subseteq Ids /\ Past(o.list, rows)
    BY <1>1 DEF IInv, Remembers
  <1>3. PICK next, new :
          /\ op' = [op EXCEPT ![a] = next]
          /\ next = [o EXCEPT !.links = new, !.at = "open"] \/ next = Idle
    <2>. DEFINE loaded == IF o.part = "late" THEN stored ELSE o.links
                new == Reconciled(o.list, loaded)
    <2>1. op' = [op EXCEPT ![a] = [o EXCEPT !.links = new, !.at = "open"]]
          \/ op' = [op EXCEPT ![a] = Idle]
      BY <1>1 DEF Reconcile
    <2>. HIDE DEF new
    <2>. QED
      BY <2>1
  <1>4. /\ Shape(next) /\ next.todo \subseteq Ids /\ Past(next.list, rows)
        /\ next.at \notin Creating
    <2>1. CASE next = [o EXCEPT !.links = new, !.at = "open"]
      <3>1. Shape(next) /\ next.todo = o.todo /\ next.list = o.list /\ next.at = "open"
        BY <1>2, <2>1 DEF Shape
      <3>. QED
        BY <1>2, <3>1 DEF Creating
    <2>2. CASE next = Idle
      BY <2>2, IdleQuiet, NothingPast DEF Creating
    <2>. QED
      BY <1>3, <2>1, <2>2
  <1>5. cache' = NoList \/ Past(cache', rows)
    BY <1>1, <1>2 DEF Reconcile, IInv
  <1>. QED
    BY <1>3, <1>4, <1>5, QuietStep DEF Reconcile

-----------------------------------------------------------------------------
(* Persisting the links                                                    *)

LEMMA OpenPersistKeeps ==
  ASSUME IInv, NEW a \in Callers, OpenPersist(a)
  PROVE  IInv'
  <1>1. PICK o : o = op[a]
    OBVIOUS
  <1>2. Shape(o) /\ Past(o.list, rows)
    BY <1>1 DEF IInv, Remembers
  <1>3. PICK todo \in SUBSET Ids :
          op' = [op EXCEPT ![a] = [o EXCEPT !.at = "persist", !.todo = todo]]
    <2>. DEFINE todo == {p \in Ids : o.links[p] # 0 \/ stored[p] # 0}
    <2>1. op' = [op EXCEPT ![a] = [o EXCEPT !.at = "persist", !.todo = todo]]
      BY <1>1 DEF OpenPersist, IInv
    <2>2. todo \in SUBSET Ids
      OBVIOUS
    <2>. HIDE DEF todo
    <2>. QED
      BY <2>1, <2>2
  <1>4. PICK next : next = [o EXCEPT !.at = "persist", !.todo = todo]
    OBVIOUS
  <1>5. Shape(next) /\ next.todo = todo /\ next.list = o.list /\ next.at \notin Creating
    BY <1>2, <1>4 DEF Shape, Creating
  <1>. QED
    BY <1>2, <1>3, <1>4, <1>5, QuietStep DEF OpenPersist, IInv

LEMMA PersistLinkKeeps ==
  ASSUME IInv, NEW a \in Callers, PersistLink(a)
  PROVE  IInv'
  <1>1. PICK o : o = op[a]
    OBVIOUS
  <1>2. Shape(o) /\ o.todo \subseteq Ids /\ Past(o.list, rows) /\ o.at = "persist"
    BY <1>1 DEF IInv, Remembers, PersistLink
  <1>3. PICK p : op' = [op EXCEPT ![a] = [o EXCEPT !.todo = o.todo \ {p}]]
    BY <1>1 DEF PersistLink, IInv
  <1>4. PICK next : next = [o EXCEPT !.todo = o.todo \ {p}]
    OBVIOUS
  <1>5. Shape(next) /\ next.todo = o.todo \ {p} /\ next.list = o.list /\ next.at = "persist"
    BY <1>2, <1>4 DEF Shape
  <1>. QED
    BY <1>2, <1>3, <1>4, <1>5, QuietStep DEF PersistLink, IInv, Creating

(* Posting starts with plots, or does not start.                           *)
LEMMA PostingRemembers ==
  ASSUME NEW o, NEW table, Shape(o), Past(o.list, table), NEW next, next = Posting(o)
  PROVE  Remembers(next, table)
  <1>. DEFINE todo == Unsynced(o.list, o.links)
  <1>1. todo \subseteq Ids
    BY DEF Unsynced
  <1>2. \/ todo = {} /\ next = DrainOrEnd(o, TRUE)
        \/ todo # {} /\ next = [o EXCEPT !.at = "post", !.todo = todo, !.saved = FALSE]
    BY DEF Posting
  <1>. HIDE DEF todo
  <1>3. CASE next = DrainOrEnd(o, TRUE)
    BY <1>3, DrainOrEndQuiet, NothingPast DEF Remembers, Creating
  <1>4. CASE todo # {} /\ next = [o EXCEPT !.at = "post", !.todo = todo, !.saved = FALSE]
    <2>1. Shape(next) /\ next.todo = todo /\ next.list = o.list /\ next.at = "post"
      BY <1>4 DEF Shape
    <2>. QED
      BY <1>1, <1>4, <2>1 DEF Remembers
  <1>. QED
    BY <1>2, <1>3, <1>4

LEMMA PersistDoneKeeps ==
  ASSUME IInv, NEW a \in Callers, PersistDone(a)
  PROVE  IInv'
  <1>1. PICK o : o = op[a]
    OBVIOUS
  <1>2. Shape(o) /\ Past(o.list, rows)
    BY <1>1 DEF IInv, Remembers
  <1>3. PICK next : /\ op' = [op EXCEPT ![a] = next]
                    /\ \/ next = [o EXCEPT !.at = "adopt", !.todo = Ids]
                       \/ next = Posting(o)
                       \/ next = DrainOrEnd(o, TRUE)
                       \/ next = Idle
    <2>. DEFINE end == CASE o.part = "upload" -> [o EXCEPT !.at = "adopt", !.todo = Ids]
                         [] o.part = "adopt" -> Posting(o)
                         [] o.part = "final" -> DrainOrEnd(o, TRUE)
                         [] OTHER -> Idle
    <2>1. op' = [op EXCEPT ![a] = end]
      BY <1>1 DEF PersistDone
    <2>. QED
      BY <2>1
  <1>4. Remembers(next, rows)
    <2>1. CASE next = [o EXCEPT !.at = "adopt", !.todo = Ids]
      <3>1. Shape(next) /\ next.todo = Ids /\ next.list = o.list /\ next.at = "adopt"
        BY <1>2, <2>1 DEF Shape
      <3>. QED
        BY <1>2, <3>1 DEF Remembers
    <2>2. CASE next = Posting(o)
      BY <1>2, <2>2, PostingRemembers
    <2>3. CASE next = DrainOrEnd(o, TRUE)
      BY <2>3, DrainOrEndQuiet, NothingPast DEF Remembers, Creating
    <2>4. CASE next = Idle
      BY <2>4, IdleQuiet, NothingPast DEF Remembers
    <2>. QED
      BY <1>3, <2>1, <2>2, <2>3, <2>4
  <1>. QED
    BY <1>3, <1>4, CallerMoves DEF PersistDone, IInv

-----------------------------------------------------------------------------
(* Steps that claim or add a row                                           *)

(* What callers remember stays right when the table grows.                 *)
LEMMA StillRemembers ==
  ASSUME NEW table, NEW next, Past(table, next),
         \A p \in Ids : Orphans(table, p) = {} => Orphans(next, p) = {},
         NEW o, Remembers(o, table)
  PROVE  Remembers(o, next)
  <1>1. Past(o.list, next)
    BY PastOfPast DEF Remembers
  <1>2. ASSUME o.at = "insert" PROVE Orphans(next, First(o.todo)) = {}
    <2>1. First(o.todo) \in Ids /\ Orphans(table, First(o.todo)) = {}
      BY <1>2, FirstIsOne DEF Remembers
    <2>. QED
      BY <2>1
  <1>3. ASSUME o.at = "claim"
        PROVE  o.row \in DOMAIN next /\ next[o.row].name = NameOf[First(o.todo)]
    BY <1>3 DEF Remembers, Past
  <1>. QED
    BY <1>1, <1>2, <1>3 DEF Remembers

LEMMA TableGrows ==
  ASSUME IInv, RowsOk(rows'), Past(rows, rows'),
         \A p \in Ids : Orphans(rows, p) = {} => Orphans(rows', p) = {},
         late' \subseteq Ids, UNCHANGED <<cache, op>>
  PROVE  IInv'
  <1>1. \A a \in Callers : Remembers(op[a], rows')
    BY StillRemembers DEF IInv
  <1>2. cache = NoList \/ Past(cache, rows')
    BY PastOfPast DEF IInv
  <1>. QED
    BY <1>1, <1>2 DEF IInv

(* The same when a caller goes on to a stage that asks nothing of the rows. *)
LEMMA TableGrowsFor ==
  ASSUME IInv, RowsOk(rows'), Past(rows, rows'),
         \A p \in Ids : Orphans(rows, p) = {} => Orphans(rows', p) = {},
         NEW a \in Callers, NEW next, Remembers(next, rows), op' = [op EXCEPT ![a] = next],
         UNCHANGED <<cache, late>>
  PROVE  IInv'
  <1>1. \A b \in Callers : Remembers(op[b], rows')
    BY StillRemembers DEF IInv
  <1>2. cache = NoList \/ Past(cache, rows')
    BY PastOfPast DEF IInv
  <1>3. Remembers(next, rows')
    BY StillRemembers
  <1>. QED
    BY <1>1, <1>2, <1>3 DEF IInv

LEMMA NoGrowth ==
  ASSUME NEW table
  PROVE  Past(table, table)
  BY DEF Past

(* A row an old list confirms is still the plot's, or still to be claimed. *)
LEMMA ConfirmedRow ==
  ASSUME NEW table, RowsOk(table), NEW list, Past(list, table), NEW p \in Ids,
         NEW i, i = Confirmation(list, p), i # 0
  PROVE  i \in DOMAIN table /\ (table[i].client = Nobody => i \in Orphans(table, p))
  <1>. DEFINE n == Len(table)
  <1>1. n \in Nat /\ DOMAIN table = 1..n /\ DOMAIN list \subseteq 1..n
    BY DEF RowsOk, Past
  <1>2. Nobody \notin Ids
    BY PlotsAssumption
  <1>. HIDE DEF n
  <1>3. CASE OwnRows(list, p) # {}
    <2>1. i \in OwnRows(list, p)
      BY <1>1, <1>3, NewestIsOne DEF Confirmation, OwnRows
    <2>. QED
      BY <1>1, <1>2, <2>1 DEF OwnRows, Past
  <1>4. CASE OwnRows(list, p) = {} /\ Orphans(list, p) # {}
    <2>1. i \in Orphans(list, p)
      BY <1>1, <1>4, NewestIsOne DEF Confirmation, Orphans, Namesakes
    <2>. QED
      BY <1>1, <2>1 DEF Orphans, Namesakes, Past
  <1>5. CASE OwnRows(list, p) = {} /\ Orphans(list, p) = {}
    <2>1. i = Newest(Strays(list, p)) /\ Strays(list, p) # {}
      BY <1>5 DEF Confirmation, Newest
    <2>2. i \in Strays(list, p)
      BY <1>1, <2>1, NewestIsOne DEF Strays, Namesakes
    <2>3. i \in DOMAIN list /\ list[i].client \notin Ids \cup {Nobody}
      BY <2>2 DEF Strays, Namesakes
    <2>. QED
      BY <1>1, <2>3 DEF Past
  <1>. QED
    BY <1>3, <1>4, <1>5

LEMMA PatchKeeps ==
  ASSUME IInv, NEW a \in Callers, Patch(a)
  PROVE  IInv'
  <1>1. PICK o : o = op[a]
    OBVIOUS
  <1>2. Shape(o) /\ o.todo \subseteq Ids /\ Past(o.list, rows) /\ RowsOk(rows)
    BY <1>1 DEF IInv, Remembers
  <1>. DEFINE todo == Adoptable(o)
              p == First(todo)
              i == Confirmation(o.list, p)
  <1>3. /\ todo # {}
        /\ (rows' = [rows EXCEPT ![i].client = p] /\ rows[i].client = Nobody) \/ UNCHANGED rows
        /\ op' = [op EXCEPT ![a] = [o EXCEPT !.at = "adopted", !.row = i, !.todo = todo]]
        /\ UNCHANGED <<cache, late>>
    BY <1>1 DEF Patch
  <1>4. todo \subseteq Ids /\ \A q \in todo : Confirmation(o.list, q) # 0
    BY <1>2 DEF Adoptable
  <1>. HIDE DEF todo
  <1>5. p \in Ids /\ i # 0
    BY <1>3, <1>4, FirstIsOne
  <1>6. i \in DOMAIN rows /\ (rows[i].client = Nobody => i \in Orphans(rows, p))
    BY <1>2, <1>5, ConfirmedRow
  <1>. HIDE DEF p, i
  <1>7. PICK next : next = [o EXCEPT !.at = "adopted", !.row = i, !.todo = todo]
    OBVIOUS
  <1>8. Shape(next) /\ next.todo = todo /\ next.list = o.list /\ next.at = "adopted"
    BY <1>2, <1>7 DEF Shape
  <1>9. Remembers(next, rows)
    BY <1>2, <1>4, <1>8 DEF Remembers
  <1>10. /\ RowsOk(rows') /\ Past(rows, rows')
         /\ \A q \in Ids : Orphans(rows, q) = {} => Orphans(rows', q) = {}
    <2>1. CASE rows' = [rows EXCEPT ![i].client = p] /\ rows[i].client = Nobody
      BY <1>2, <1>5, <1>6, <2>1, Claimed
    <2>2. CASE UNCHANGED rows
      BY <1>2, <2>2, NoGrowth
    <2>. QED
      BY <1>3, <2>1, <2>2
  <1>. QED
    BY <1>3, <1>7, <1>9, <1>10, TableGrowsFor

LEMMA SaveAdoptedKeeps ==
  ASSUME IInv, NEW a \in Callers, SaveAdopted(a)
  PROVE  IInv'
  <1>1. PICK o, p : o = op[a] /\ p = First(o.todo)
    OBVIOUS
  <1>2. Shape(o) /\ o.todo \subseteq Ids /\ Past(o.list, rows)
    BY <1>1 DEF IInv, Remembers
  <1>3. PICK next : next = [o EXCEPT !.at = "adopt", !.saved = TRUE,
                                     !.links[p] = o.row, !.todo = o.todo \ {p}]
    OBVIOUS
  <1>4. op' = [op EXCEPT ![a] = next]
    BY <1>1, <1>3 DEF SaveAdopted
  <1>5. /\ Shape(next) /\ next.todo = o.todo \ {p} /\ next.list = o.list
        /\ next.at \notin Creating
    BY <1>2, <1>3 DEF Shape, Creating
  <1>. QED
    BY <1>2, <1>4, <1>5, QuietStep DEF SaveAdopted, IInv

LEMMA AdoptDoneKeeps ==
  ASSUME IInv, NEW a \in Callers, AdoptDone(a)
  PROVE  IInv'
  <1>1. PICK o : o = op[a]
    OBVIOUS
  <1>2. Shape(o) /\ o.todo \subseteq Ids /\ Past(o.list, rows)
    BY <1>1 DEF IInv, Remembers
  <1>3. PICK next : /\ op' = [op EXCEPT ![a] = next]
                    /\ next = [o EXCEPT !.at = "open", !.part = "adopt"] \/ next = Posting(o)
    <2>1. op' = [op EXCEPT ![a] = IF o.saved THEN [o EXCEPT !.at = "open", !.part = "adopt"]
                                  ELSE Posting(o)]
      BY <1>1 DEF AdoptDone
    <2>. QED
      BY <2>1
  <1>4. Remembers(next, rows)
    <2>1. CASE next = [o EXCEPT !.at = "open", !.part = "adopt"]
      <3>1. Shape(next) /\ next.todo = o.todo /\ next.list = o.list /\ next.at = "open"
        BY <1>2, <2>1 DEF Shape
      <3>. QED
        BY <1>2, <3>1 DEF Remembers
    <2>2. CASE next = Posting(o)
      BY <1>2, <2>2, PostingRemembers
    <2>. QED
      BY <1>3, <2>1, <2>2
  <1>. QED
    BY <1>3, <1>4, CallerMoves DEF AdoptDone, IInv

-----------------------------------------------------------------------------
(* Creating a plot's row                                                   *)

LEMMA FindByClientIdKeeps ==
  ASSUME IInv, NEW a \in Callers, FindByClientId(a)
  PROVE  IInv'
  <1>1. PICK o : o = op[a]
    OBVIOUS
  <1>2. /\ Shape(o) /\ o.todo \subseteq Ids /\ o.todo # {} /\ Past(o.list, rows)
        /\ Remembers(o, rows)
    BY <1>1 DEF IInv, Remembers, FindByClientId
  <1>. DEFINE is == OwnRows(rows, First(o.todo))
  <1>3. PICK next : next = IF is = {}
                           THEN [o EXCEPT !.at = IF Walked THEN "gate" ELSE "lookup"]
                           ELSE [o EXCEPT !.at = "answered", !.row = Newest(is)]
    OBVIOUS
  <1>4. op' = [op EXCEPT ![a] = next]
    BY <1>1, <1>3 DEF FindByClientId, Going, IInv
  <1>. HIDE DEF is
  <1>5. /\ Shape(next) /\ next.todo = o.todo /\ next.list = o.list
        /\ next.at \in {"gate", "lookup", "answered"}
    BY <1>2, <1>3 DEF Shape
  <1>6. Remembers(next, rows)
    BY <1>2, <1>5 DEF Remembers
  <1>. QED
    BY <1>4, <1>6, CallerMoves DEF FindByClientId, IInv

LEMMA CheckGeometryKeeps ==
  ASSUME IInv, NEW a \in Callers, CheckGeometry(a)
  PROVE  IInv'
  <1>1. PICK o : o = op[a]
    OBVIOUS
  <1>2. /\ Shape(o) /\ o.todo \subseteq Ids /\ o.todo # {} /\ Past(o.list, rows)
    BY <1>1 DEF IInv, Remembers, CheckGeometry
  <1>3. PICK at \in {"failed", "lookup", "error500"} : Going(a, at)
    BY DEF CheckGeometry
  <1>4. PICK next : next = [o EXCEPT !.at = at]
    OBVIOUS
  <1>5. op' = [op EXCEPT ![a] = next]
    BY <1>1, <1>3, <1>4 DEF Going
  <1>6. Shape(next) /\ next.todo = o.todo /\ next.list = o.list /\ next.at = at
    BY <1>2, <1>4 DEF Shape
  <1>7. Remembers(next, rows)
    BY <1>2, <1>3, <1>6 DEF Remembers
  <1>. QED
    BY <1>5, <1>7, CallerMoves DEF CheckGeometry, IInv

LEMMA FindOrphanKeeps ==
  ASSUME IInv, NEW a \in Callers, FindOrphan(a)
  PROVE  IInv'
  <1>1. PICK o : o = op[a]
    OBVIOUS
  <1>2. /\ Shape(o) /\ o.todo \subseteq Ids /\ o.todo # {} /\ Past(o.list, rows)
    BY <1>1 DEF IInv, Remembers, FindOrphan
  <1>. DEFINE is == Orphans(rows, First(o.todo))
  <1>3. PICK next : next = IF is = {} THEN [o EXCEPT !.at = "insert"]
                           ELSE [o EXCEPT !.at = "claim", !.row = Newest(is)]
    OBVIOUS
  <1>4. op' = [op EXCEPT ![a] = next]
    BY <1>1, <1>3 DEF FindOrphan, Going, IInv
  <1>. HIDE DEF is
  <1>5. CASE is = {}
    <2>1. Shape(next) /\ next.todo = o.todo /\ next.list = o.list /\ next.at = "insert"
      BY <1>2, <1>3, <1>5 DEF Shape
    <2>2. Remembers(next, rows)
      BY <1>2, <1>5, <2>1 DEF Remembers, is
    <2>. QED
      BY <1>4, <2>2, CallerMoves DEF FindOrphan, IInv
  <1>6. CASE is # {}
    <2>1. /\ Shape(next) /\ next.todo = o.todo /\ next.list = o.list /\ next.at = "claim"
          /\ next.row = Newest(is)
      BY <1>2, <1>3, <1>6 DEF Shape
    <2>2. Newest(is) \in is
      <3>1. Len(rows) \in Nat /\ is \subseteq 1..Len(rows)
        BY DEF IInv, RowsOk, is, Orphans, Namesakes
      <3>. QED
        BY <1>6, <3>1, NewestIsOne
    <2>3. next.row \in DOMAIN rows /\ rows[next.row].name = NameOf[First(o.todo)]
      BY <2>1, <2>2 DEF is, Orphans, Namesakes
    <2>4. Remembers(next, rows)
      BY <1>2, <2>1, <2>3 DEF Remembers
    <2>. QED
      BY <1>4, <2>4, CallerMoves DEF FindOrphan, IInv
  <1>. QED
    BY <1>5, <1>6

LEMMA ClaimOrphanKeeps ==
  ASSUME IInv, NEW a \in Callers, ClaimOrphan(a)
  PROVE  IInv'
  <1>1. PICK o, p, i : o = op[a] /\ p = First(o.todo) /\ i = o.row
    OBVIOUS
  <1>2. /\ Shape(o) /\ o.todo \subseteq Ids /\ Past(o.list, rows) /\ RowsOk(rows)
        /\ o.todo # {} /\ i \in DOMAIN rows /\ rows[i].name = NameOf[p]
    BY <1>1 DEF IInv, Remembers, ClaimOrphan
  <1>3. p \in Ids
    BY <1>1, <1>2, FirstIsOne
  <1>4. PICK next : next = [o EXCEPT !.at = "answered"]
    OBVIOUS
  <1>5. Shape(next) /\ next.todo = o.todo /\ next.list = o.list /\ next.at = "answered"
    BY <1>2, <1>4 DEF Shape
  <1>6. Remembers(next, rows)
    BY <1>2, <1>5 DEF Remembers
  <1>7. /\ op' = [op EXCEPT ![a] = next] /\ UNCHANGED <<cache, late>>
        /\ rows' = IF rows[i].client = Nobody THEN [rows EXCEPT ![i].client = p] ELSE rows
    BY <1>1, <1>4 DEF ClaimOrphan, Going
  <1>8. /\ RowsOk(rows') /\ Past(rows, rows')
        /\ \A q \in Ids : Orphans(rows, q) = {} => Orphans(rows', q) = {}
    <2>1. CASE rows[i].client = Nobody
      <3>1. i \in Orphans(rows, p)
        BY <1>2, <2>1 DEF Orphans, Namesakes
      <3>. QED
        BY <1>2, <1>3, <1>7, <2>1, <3>1, Claimed
    <2>2. CASE rows[i].client # Nobody
      BY <1>2, <1>7, <2>2, NoGrowth
    <2>. QED
      BY <2>1, <2>2
  <1>. QED
    BY <1>6, <1>7, <1>8, TableGrowsFor

LEMMA InsertRowKeeps ==
  ASSUME IInv, NEW a \in Callers, InsertRow(a)
  PROVE  IInv'
  <1>1. PICK o, p : o = op[a] /\ p = First(o.todo)
    OBVIOUS
  <1>2. /\ Shape(o) /\ o.todo \subseteq Ids /\ Past(o.list, rows) /\ RowsOk(rows)
        /\ o.todo # {} /\ Orphans(rows, p) = {}
    BY <1>1 DEF IInv, Remembers, InsertRow
  <1>3. p \in Ids
    BY <1>1, <1>2, FirstIsOne
  <1>4. /\ UNCHANGED <<cache, late>>
        /\ UNCHANGED rows \/ (OwnRows(rows, p) = {} /\ rows' = Added(p))
    BY <1>1 DEF InsertRow
  <1>5. \/ op' = [op EXCEPT ![a] = [o EXCEPT !.at = "error500"]]
        \/ op' = [op EXCEPT ![a] = [o EXCEPT !.at = "answered", !.row = Len(rows) + 1]]
        \/ op' = [op EXCEPT ![a] = [o EXCEPT !.at = "failed"]]
    <2>1. op = [b \in Callers |-> op[b]]
      BY DEF IInv
    <2>. QED
      BY <1>1, <2>1 DEF InsertRow, Going
  <1>6. PICK next : /\ op' = [op EXCEPT ![a] = next]
                    /\ \/ next = [o EXCEPT !.at = "error500"]
                       \/ next = [o EXCEPT !.at = "answered", !.row = Len(rows) + 1]
                       \/ next = [o EXCEPT !.at = "failed"]
    BY <1>5
  <1>7. /\ Shape(next) /\ next.todo = o.todo /\ next.list = o.list
        /\ next.at \in {"error500", "answered", "failed"}
    BY <1>2, <1>6 DEF Shape
  <1>8. Remembers(next, rows)
    BY <1>2, <1>7 DEF Remembers
  <1>9. /\ RowsOk(rows') /\ Past(rows, rows')
        /\ \A q \in Ids : Orphans(rows, q) = {} => Orphans(rows', q) = {}
    <2>1. CASE OwnRows(rows, p) = {} /\ rows' = Added(p)
      BY <1>2, <1>3, <2>1, RowAdded DEF Added
    <2>2. CASE UNCHANGED rows
      BY <1>2, <2>2, NoGrowth
    <2>. QED
      BY <1>4, <2>1, <2>2
  <1>. QED
    BY <1>4, <1>6, <1>8, <1>9, TableGrowsFor

LEMMA AnswerLostKeeps ==
  ASSUME IInv, NEW a \in Callers, AnswerLost(a)
  PROVE  IInv'
  <1>1. PICK o : o = op[a]
    OBVIOUS
  <1>2. Shape(o) /\ o.todo \subseteq Ids /\ Past(o.list, rows) /\ Remembers(o, rows)
    BY <1>1 DEF IInv, Remembers
  <1>3. /\ o.at \in {"gate", "lookup", "claim", "insert", "answered"}
        /\ late' = IF o.at = "answered" THEN late ELSE late \cup {First(o.todo)}
        /\ UNCHANGED <<rows, cache>>
    BY <1>1 DEF AnswerLost
  <1>4. late' \subseteq Ids
    <2>1. CASE o.at = "answered"
      BY <1>3, <2>1 DEF IInv
    <2>2. CASE o.at # "answered"
      <3>1. First(o.todo) \in Ids
        BY <1>2, <1>3, <2>2, FirstIsOne DEF Remembers
      <3>. QED
        BY <1>3, <2>2, <3>1 DEF IInv
    <2>. QED
      BY <2>1, <2>2
  <1>5. PICK next : next = [o EXCEPT !.at = "failed"]
    OBVIOUS
  <1>6. op' = [op EXCEPT ![a] = next]
    BY <1>1, <1>5 DEF AnswerLost, Going
  <1>7. Shape(next) /\ next.todo = o.todo /\ next.list = o.list /\ next.at = "failed"
    BY <1>2, <1>5 DEF Shape
  <1>8. Remembers(next, rows)
    BY <1>2, <1>7 DEF Remembers
  <1>. QED
    BY <1>3, <1>4, <1>6, <1>8, CallerMoves DEF IInv

LEMMA CreateLateKeeps ==
  ASSUME IInv, NEW p \in Ids, CreateLate(p)
  PROVE  IInv'
  <1>1. RowsOk(rows) /\ late' \subseteq Ids /\ UNCHANGED <<cache, op>>
    BY DEF CreateLate, IInv
  <1>. DEFINE is == Orphans(rows, p)
  <1>2. /\ RowsOk(rows') /\ Past(rows, rows')
        /\ \A q \in Ids : Orphans(rows, q) = {} => Orphans(rows', q) = {}
    <2>. DEFINE done == OwnRows(rows, p) # {} \/ Overlapped(p)
    <2>1. CASE done
      BY <1>1, <2>1, NoGrowth DEF CreateLate
    <2>2. CASE ~done /\ is # {}
      <3>1. rows' = [rows EXCEPT ![Newest(is)].client = p]
        BY <2>2 DEF CreateLate
      <3>2. Len(rows) \in Nat /\ is \subseteq 1..Len(rows)
        BY <1>1 DEF RowsOk, Orphans, Namesakes
      <3>3. Newest(is) \in is
        BY <2>2, <3>2, NewestIsOne
      <3>. QED
        BY <1>1, <3>1, <3>3, Claimed
    <2>3. CASE ~done /\ is = {}
      <3>1. rows' = Added(p)
        BY <2>3 DEF CreateLate
      <3>. QED
        BY <1>1, <2>3, <3>1, RowAdded DEF Added
    <2>. QED
      BY <2>1, <2>2, <2>3
  <1>. QED
    BY <1>1, <1>2, TableGrows

LEMMA EnterByHandKeeps ==
  ASSUME IInv, EnterByHand
  PROVE  IInv'
  <1>1. rows = <<>> /\ (\A a \in Callers : op[a].at # "insert") /\ UNCHANGED <<cache, late, op>>
    BY DEF EnterByHand
  <1>2. RowsOk(rows')
    BY FirstRowsOk DEF EnterByHand
  <1>3. Past(rows, rows')
    BY <1>1, NothingPast
  <1>4. \A a \in Callers : Remembers(op[a], rows')
    <2>. SUFFICES ASSUME NEW a \in Callers PROVE Remembers(op[a], rows')
      OBVIOUS
    <2>1. Remembers(op[a], rows) /\ op[a].at # "insert"
      BY <1>1 DEF IInv
    <2>2. Past(op[a].list, rows')
      BY <1>3, <2>1, PastOfPast DEF Remembers
    <2>3. op[a].at # "claim"
      BY <1>1, <2>1 DEF Remembers
    <2>. QED
      BY <2>1, <2>2, <2>3 DEF Remembers
  <1>5. cache = NoList \/ Past(cache, rows')
    BY <1>3, PastOfPast DEF IInv
  <1>. QED
    BY <1>1, <1>2, <1>4, <1>5 DEF IInv

LEMMA RefetchKeeps ==
  ASSUME IInv, NEW a \in Callers, Refetch(a)
  PROVE  IInv'
  <1>1. PICK o, list, is : /\ o = op[a]
                           /\ list = IF cache = NoList THEN rows ELSE cache
                           /\ is = OwnRows(list, First(o.todo))
    OBVIOUS
  <1>2. Shape(o) /\ o.todo \subseteq Ids /\ Past(o.list, rows)
    BY <1>1 DEF IInv, Remembers
  <1>3. Past(list, rows)
    BY <1>1, NoGrowth DEF IInv
  <1>4. op = [b \in Callers |-> op[b]]
    BY DEF IInv
  <1>5. \/ /\ cache' = list
           /\ op' = [op EXCEPT ![a] = [o EXCEPT !.at = IF is = {} THEN "failed" ELSE "answered",
                                               !.row = Newest(is)]]
        \/ Going(a, "failed") /\ UNCHANGED cache
    BY <1>1, <1>4 DEF Refetch
  <1>6. CASE Going(a, "failed") /\ UNCHANGED cache
    BY <1>6, GoingRemembers DEF Refetch, Creating, IInv
  <1>7. CASE /\ cache' = list
             /\ op' = [op EXCEPT ![a] = [o EXCEPT !.at = IF is = {} THEN "failed" ELSE "answered",
                                                 !.row = Newest(is)]]
    <2>1. PICK next : next = [o EXCEPT !.at = IF is = {} THEN "failed" ELSE "answered",
                                       !.row = Newest(is)]
      OBVIOUS
    <2>2. /\ Shape(next) /\ next.todo = o.todo /\ next.list = o.list
          /\ next.at \in {"failed", "answered"}
      BY <1>2, <2>1 DEF Shape
    <2>3. op' = [op EXCEPT ![a] = next]
      BY <1>7, <2>1
    <2>4. UNCHANGED <<rows, late>>
      BY DEF Refetch
    <2>. QED
      BY <1>2, <1>3, <1>7, <2>2, <2>3, <2>4, QuietStep DEF Creating
  <1>. QED
    BY <1>5, <1>6, <1>7

(* The next plot is posted only if there is one.                           *)
LEMMA OnwardRemembers ==
  ASSUME NEW o, NEW table, Shape(o), o.todo \subseteq Ids, Past(o.list, table),
         NEW next, next = Onward(o)
  PROVE  Remembers(next, table)
  <1>1. CASE o.todo # {} /\ next = [o EXCEPT !.at = "post"]
    <2>1. Shape(next) /\ next.todo = o.todo /\ next.list = o.list /\ next.at = "post"
      BY <1>1 DEF Shape
    <2>. QED
      BY <1>1, <2>1 DEF Remembers
  <1>2. CASE next = [o EXCEPT !.at = "final", !.part = "final"]
    <2>1. Shape(next) /\ next.todo = o.todo /\ next.list = o.list /\ next.at = "final"
      BY <1>2 DEF Shape
    <2>. QED
      BY <2>1 DEF Remembers
  <1>3. CASE next = Idle
    BY <1>3, IdleQuiet, NothingPast DEF Remembers
  <1>. QED
    BY <1>1, <1>2, <1>3 DEF Onward

LEMMA SaveCreatedKeeps ==
  ASSUME IInv, NEW a \in Callers, SaveCreated(a)
  PROVE  IInv'
  <1>1. PICK o, p : o = op[a] /\ p = First(o.todo)
    OBVIOUS
  <1>2. Shape(o) /\ o.todo \subseteq Ids /\ Past(o.list, rows)
    BY <1>1 DEF IInv, Remembers
  <1>3. PICK saved : saved = [o EXCEPT !.saved = TRUE, !.links[p] = o.row, !.todo = o.todo \ {p}]
    OBVIOUS
  <1>4. Shape(saved) /\ saved.todo = o.todo \ {p} /\ saved.list = o.list
    BY <1>2, <1>3 DEF Shape
  <1>5. op' = [op EXCEPT ![a] = Onward(saved)]
    BY <1>1, <1>3 DEF SaveCreated
  <1>6. Remembers(Onward(saved), rows)
    BY <1>2, <1>4, OnwardRemembers
  <1>. QED
    BY <1>5, <1>6, CallerMoves DEF SaveCreated, IInv

LEMMA PlotFailedKeeps ==
  ASSUME IInv, NEW a \in Callers, PlotFailed(a)
  PROVE  IInv'
  <1>1. PICK o : o = op[a]
    OBVIOUS
  <1>2. Shape(o) /\ o.todo \subseteq Ids /\ Past(o.list, rows)
    BY <1>1 DEF IInv, Remembers
  <1>3. PICK rest \in {o.todo \ {First(o.todo)}, {}} :
          op' = [op EXCEPT ![a] = Onward([o EXCEPT !.failed = TRUE, !.todo = rest])]
    BY <1>1 DEF PlotFailed
  <1>4. PICK left : left = [o EXCEPT !.failed = TRUE, !.todo = rest]
    OBVIOUS
  <1>5. Shape(left) /\ left.todo = rest /\ left.list = o.list
    BY <1>2, <1>4 DEF Shape
  <1>6. Remembers(Onward(left), rows)
    BY <1>2, <1>3, <1>5, OnwardRemembers
  <1>7. op' = [op EXCEPT ![a] = Onward(left)]
    BY <1>3, <1>4
  <1>. QED
    BY <1>6, <1>7, CallerMoves DEF PlotFailed, IInv

LEMMA FetchFinalKeeps ==
  ASSUME IInv, NEW a \in Callers, FetchFinal(a)
  PROVE  IInv'
  BY GoingRemembers DEF FetchFinal, Creating

LEMMA StartDrainKeeps ==
  ASSUME IInv, NEW a \in Callers, StartDrain(a)
  PROVE  IInv'
  <1>1. PICK o : o = op[a]
    OBVIOUS
  <1>2. Shape(o) /\ o.todo \subseteq Ids /\ Past(o.list, rows)
    BY <1>1 DEF IInv, Remembers
  <1>3. PICK loaded : loaded = [o EXCEPT !.links = stored]
    OBVIOUS
  <1>4. Shape(loaded) /\ loaded.todo = o.todo /\ loaded.list = o.list
    BY <1>2, <1>3 DEF Shape
  <1>5. op' = [op EXCEPT ![a] = Asking(loaded)]
    BY <1>1, <1>3 DEF StartDrain
  <1>6. PICK next : next = Asking(loaded)
    OBVIOUS
  <1>7. Shape(next) /\ next.todo = o.todo /\ next.at \notin Creating /\ Past(next.list, rows)
    BY <1>2, <1>4, <1>6, AskingQuiet
  <1>. QED
    BY <1>2, <1>5, <1>6, <1>7, QuietStep DEF StartDrain, IInv

LEMMA KillKeeps ==
  ASSUME IInv, Kill
  PROVE  IInv'
  <1>1. \A a \in Callers : op'[a] = Idle
    BY DEF Kill
  <1>2. late' \subseteq Ids
    <2>1. \A a \in Callers : op[a].at \in Creating => First(op[a].todo) \in Ids
      BY FirstIsOne DEF IInv, Remembers, Creating
    <2>. QED
      BY <2>1 DEF Kill, IInv, Creating
  <1>3. \A a \in Callers : Remembers(op'[a], rows)
    BY <1>1, IdleQuiet, NothingPast DEF Remembers
  <1>4. /\ op' = [a \in Callers |-> op'[a]] /\ UNCHANGED rows /\ cache' = NoList
    BY DEF Kill
  <1>. QED
    BY <1>2, <1>3, <1>4 DEF IInv

LEMMA CacheExpiresKeeps ==
  ASSUME IInv, CacheExpires
  PROVE  IInv'
  BY DEF CacheExpires, IInv

-----------------------------------------------------------------------------
(* What a step keeps, and what follows.                                    *)

LEMMA CallerStepKeeps ==
  ASSUME IInv, NEW a \in Callers, CallerStep(a)
  PROVE  IInv'
  <1>1. CASE StartUpload(a) \/ StartRefresh(a) \/ ListServed(a) \/ FetchFails(a) \/ Reconcile(a)
    BY <1>1, StartUploadKeeps, StartRefreshKeeps, ListServedKeeps, FetchFailsKeeps, ReconcileKeeps
  <1>2. CASE OpenPersist(a) \/ PersistLink(a) \/ PersistDone(a)
    BY <1>2, OpenPersistKeeps, PersistLinkKeeps, PersistDoneKeeps
  <1>3. CASE Patch(a) \/ SaveAdopted(a) \/ AdoptDone(a)
    BY <1>3, PatchKeeps, SaveAdoptedKeeps, AdoptDoneKeeps
  <1>4. CASE \/ FindByClientId(a) \/ CheckGeometry(a) \/ FindOrphan(a)
             \/ ClaimOrphan(a) \/ InsertRow(a)
    BY <1>4, FindByClientIdKeeps, CheckGeometryKeeps, FindOrphanKeeps,
       ClaimOrphanKeeps, InsertRowKeeps
  <1>5. CASE AnswerLost(a) \/ Refetch(a) \/ SaveCreated(a) \/ PlotFailed(a)
    BY <1>5, AnswerLostKeeps, RefetchKeeps, SaveCreatedKeeps, PlotFailedKeeps
  <1>6. CASE FetchFinal(a) \/ StartDrain(a)
    BY <1>6, FetchFinalKeeps, StartDrainKeeps
  <1>. QED
    BY <1>1, <1>2, <1>3, <1>4, <1>5, <1>6 DEF CallerStep

(* The table of rows that all lookups rely on is kept by every step.       *)
THEOREM RowsStayOk == Spec => []IInv
  <1>1. ASSUME Init PROVE IInv
    <2>1. RowsOk(rows)
      BY <1>1, FirstRowsOk DEF Init
    <2>2. \A a \in Callers : op[a] = Idle
      BY <1>1 DEF Init
    <2>3. \A a \in Callers : Remembers(op[a], rows)
      BY <2>2, IdleQuiet, NothingPast DEF Remembers
    <2>4. cache = NoList /\ late = {} /\ op = [a \in Callers |-> op[a]]
      BY <1>1 DEF Init
    <2>. QED
      BY <2>1, <2>3, <2>4 DEF IInv
  <1>2. ASSUME IInv, [Next]_vars PROVE IInv'
    <2>1. ASSUME NEW a \in Callers, CallerStep(a) PROVE IInv'
      BY <1>2, <2>1, CallerStepKeeps
    <2>2. ASSUME NEW p \in Ids, CreateLate(p) PROVE IInv'
      BY <1>2, <2>2, CreateLateKeeps
    <2>3. CASE EnterByHand \/ CacheExpires \/ Kill
      BY <1>2, <2>3, EnterByHandKeeps, CacheExpiresKeeps, KillKeeps
    <2>4. CASE UNCHANGED vars
      BY <1>2, <2>4 DEF IInv, vars
    <2>. QED
      BY <1>2, <2>1, <2>2, <2>3, <2>4 DEF Next
  <1>. QED
    BY <1>1, <1>2, PTL DEF Spec

(* However often a plot is posted it makes no second row, and a row without *)
(* client id that bears its name is claimed, not duplicated.               *)
THEOREM NoSecondRow == Spec => []NoDuplicateUpload
  <1>1. IInv => NoDuplicateUpload
    <2>. SUFFICES ASSUME RowsOk(rows) PROVE NoDuplicateUpload
      BY DEF IInv
    <2>1. \A p \in Ids : \A i, j \in OwnRows(rows, p) : i = j
      BY DEF RowsOk, OwnRows
    <2>2. ASSUME NEW p \in Ids, NEW i \in Orphans(rows, p)
          PROVE  Namesakes(rows, p, Ids \cup {Nobody}) = {i}
      BY DEF RowsOk, Orphans, Namesakes
    <2>. QED
      BY <2>1, <2>2 DEF NoDuplicateUpload
  <1>. QED
    BY <1>1, RowsStayOk, PTL
=============================================================================
