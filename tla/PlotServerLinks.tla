-------------------------- MODULE PlotServerLinks --------------------------
(***************************************************************************)
(* How a plot mapped on the phone gets a row on the server, and how the    *)
(* phone remembers which row it is.  A pipeline fetches the server's list, *)
(* reconciles the stored links with it, adopts rows that look like its     *)
(* plots, posts the others and drains the queue; screens fetch the list    *)
(* and reconcile on their own, without the pipeline's lock.                *)
(*                                                                         *)
(* features/sync/plotServerSync.ts, features/plots/plotServerLink.ts,      *)
(* features/plots/backendPlotMatch.ts, processPendingSyncQueue.ts and, on  *)
(* the server, plots.service.ts.  One action per stretch between two       *)
(* awaits, or per SQL statement.                                           *)
(***************************************************************************)
EXTENDS Integers, Sequences, FiniteSets, FiniteSetsExt, SequencesExt

CONSTANTS
    LocalPlots,   \* the plots on the phone, in the order the code visits them
    NameOf,       \* the display name of each; all are of one kind and area
    Walked,       \* are they polygons (else points)?
    FirstRows,    \* what the server may hold at first: sequences of rows
    Discrepant,   \* plots whose declared area the server finds too far off
    Pipelines,    \* syncs that may run side by side
    Screens,      \* screens that refresh the links
    Nobody,       \* the client id of a row that has none
    MaxFaults     \* bound on failed requests, lost answers and kills

Ids == ToSet(LocalPlots)

ASSUME PlotsAssumption ==
    /\ LocalPlots \in Seq(Ids) /\ IsInjective(LocalPlots)
    /\ DOMAIN NameOf = Ids
    /\ Walked \in BOOLEAN /\ Discrepant \subseteq Ids /\ Nobody \notin Ids
    /\ MaxFaults \in Nat

\* This phone has uploaded nothing, and the database lets a farmer have one
\* row of a name without client id (sql/tb_v16_050_plot_duplicate_prevention.sql).
ASSUME FirstRowsAssumption ==
    \A list \in FirstRows :
        /\ list \in Seq(ToSet(list))
        /\ \A r \in ToSet(list) : 
               /\ r = [client |-> r.client, name |-> r.name, over |-> r.over]
               /\ r.client \notin Ids /\ r.over \subseteq Ids
        /\ \A i, j \in DOMAIN list :
               list[i].name = list[j].name /\ list[i].client = list[j].client
               /\ list[i].client = Nobody => i = j

VARIABLES
    rows,     \* the farmer's rows on the server, by age; a row's id is its place
    stored,   \* plot_legal: the row each plot is linked to, 0 for none
    cache,    \* the list the phone keeps of them, or NoList
    late,     \* plots the server is creating for a caller that left
    op,       \* what each pipeline and screen remembers across its awaits
    unclaimed,   \* history: has a request that claims a row failed?
    faults

vars == <<rows, stored, cache, late, op, unclaimed, faults>>

Callers == Pipelines \cup Screens
NoList == <<[client |-> Nobody, name |-> Nobody, over |-> {}]>>
NoLinks == [p \in Ids |-> 0]
Idle == [at |-> "idle", part |-> "none", links |-> NoLinks, list |-> <<>>,
         todo |-> {}, row |-> 0, saved |-> FALSE, failed |-> FALSE]

(***************************************************************************)
(* Which row stands for a plot.  A row has a client id, a name and the     *)
(* plots of the phone whose boundary it overlaps (`over`), those of the    *)
(* phone itself overlapping none of each other.                            *)
(***************************************************************************)
OwnRows(list, p) == {i \in DOMAIN list : list[i].client = p}

Namesakes(list, p, clients) ==
    {i \in DOMAIN list : list[i].name = NameOf[p] /\ list[i].client \in clients}

Newest(is) == IF is = {} THEN 0 ELSE Max(is)

\* Rows without a client id that bear the plot's name.
Orphans(list, p) == Namesakes(list, p, {Nobody})

\* Rows of that name under a client id that no plot of this phone has.
Strays(list, p) ==
    Namesakes(list, p, {list[i].client : i \in DOMAIN list} \ (Ids \cup {Nobody}))

Confirmation(list, p) ==
    IF OwnRows(list, p) # {} THEN Newest(OwnRows(list, p))
    ELSE IF Orphans(list, p) # {} THEN Newest(Orphans(list, p))
    ELSE Newest(Strays(list, p))

\* Also when the row has become another plot's.
TrustedIfListed(list, p, i) == i \in DOMAIN list

\* A link is kept while its row is listed and is not another plot's.
Trusted(list, p, i) == i \in DOMAIN list /\ list[i].client \notin Ids \ {p}

Resolved(list, p, i) == IF Trusted(list, p, i) THEN i ELSE Confirmation(list, p)

\* A kept link is not compared with the rows claimed so far; a new one is.
Claim(list, acc, p) ==
    LET i == Resolved(list, p, acc.links[p])
        good == Trusted(list, p, acc.links[p]) \/ i \notin acc.claimed
    IN  [links |-> [acc.links EXCEPT ![p] = IF good THEN i ELSE 0],
         claimed |-> IF good THEN acc.claimed \cup ({i} \ {0}) ELSE acc.claimed]

Reconciled(list, links) ==
    FoldLeft(LAMBDA acc, p : Claim(list, acc, p),
             [links |-> links, claimed |-> {}], LocalPlots).links

Unsynced(list, links) == {p \in Ids : Resolved(list, p, links[p]) = 0}

\* Loops visit the plots in the order of the phone's list.
First(plots) ==
    LET Place(p) == CHOOSE i \in DOMAIN LocalPlots : LocalPlots[i] = p
    IN  CHOOSE p \in plots : \A q \in plots : Place(p) <= Place(q)

(***************************************************************************)
(* Fetching the list.                                                      *)
(***************************************************************************)
Init ==
    /\ rows \in FirstRows
    /\ stored = NoLinks
    /\ cache = NoList
    /\ late = {}
    /\ op = [a \in Callers |-> Idle]
    /\ unclaimed = FALSE
    /\ faults = 0

Fault == faults < MaxFaults /\ faults' = faults + 1

\* What a fetch gives at once when the phone has a list, else it asks.
Asking(o) == IF cache = NoList THEN [o EXCEPT !.at = "asked"]
             ELSE [o EXCEPT !.at = "known", !.list = cache]

\* uploadUnsyncedPlotsForFarmer loads the links and forgets the cached list.
StartUpload(a) ==
    /\ a \in Pipelines /\ op[a].at = "idle"
    /\ cache' = NoList
    /\ op' = [op EXCEPT ![a] = [Idle EXCEPT !.at = "asked", !.part = "upload",
                                            !.links = stored]]
    /\ UNCHANGED <<rows, stored, late, unclaimed, faults>>

\* A screen loads the links before the list ("early") or after it ("late").
StartRefresh(a) ==
    /\ a \in Screens /\ op[a].at = "idle"
    /\ \E part \in {"early", "late"} :
         op' = [op EXCEPT ![a] = Asking([Idle EXCEPT !.part = part, !.links = stored])]
    /\ UNCHANGED <<rows, stored, cache, late, unclaimed, faults>>

ListServed(a) ==
    /\ op[a].at = "asked"
    /\ op' = [op EXCEPT ![a].at = "listed", ![a].list = rows]
    /\ UNCHANGED <<rows, stored, cache, late, unclaimed, faults>>

\* After an upload whose plots all got a row, or a failed fetch with every
\* plot linked, the pipeline goes on to drain the queue.
DrainOrEnd(o, all) ==
    IF all /\ ~o.failed THEN [Idle EXCEPT !.at = "drain", !.part = "drain"] ELSE Idle

\* A failed fetch ends an upload or a refresh; the drain goes on without rows.
FetchFails(a) ==
    /\ op[a].at \in {"asked", "listed"} /\ Fault
    /\ LET o == op[a] IN
       op' = [op EXCEPT ![a] =
         CASE o.part = "upload" -> DrainOrEnd(o, \A p \in Ids : stored[p] # 0)
           [] o.part = "final" -> DrainOrEnd(o, TRUE)
           [] o.part = "drain" -> [o EXCEPT !.at = "known", !.list = <<>>, !.links = stored]
           [] OTHER -> Idle]
    /\ UNCHANGED <<rows, stored, cache, late, unclaimed>>

\* The list is here: reconcile, and persist (screens: maybe only a change).
\* A list from the server becomes the one the phone keeps, however old it is.
Reconcile(a) ==
    /\ op[a].at \in {"listed", "known"}
    /\ cache' = IF op[a].at = "listed" THEN op[a].list ELSE cache
    /\ LET o == op[a]
           loaded == IF o.part = "late" THEN stored ELSE o.links
           new == Reconciled(o.list, loaded)
           next == [o EXCEPT !.links = new, !.at = "open"]
       IN  \/ op' = [op EXCEPT ![a] = next]
                /\ (o.part = "drain" => new # loaded)
           \/ /\ o.part \in {"drain", "early", "late"} /\ new = loaded
              /\ op' = [op EXCEPT ![a] = Idle]
    /\ UNCHANGED <<rows, stored, late, unclaimed, faults>>

(***************************************************************************)
(* persistPlotServerLinks: look what is stored, then clear or save each.   *)
(***************************************************************************)
OpenPersist(a) ==
    /\ op[a].at = "open"
    /\ op' = [op EXCEPT ![a].at = "persist",
                        ![a].todo = {p \in Ids :
                                      op[a].links[p] # 0 \/ stored[p] # 0}]
    /\ UNCHANGED <<rows, stored, cache, late, unclaimed, faults>>

\* Cleared links go first.
PersistLink(a) ==
    /\ op[a].at = "persist" /\ op[a].todo # {}
    /\ \E p \in op[a].todo :
         /\ op[a].links[p] # 0 => \A q \in op[a].todo : op[a].links[q] # 0
         /\ stored' = [stored EXCEPT ![p] = op[a].links[p]]
         /\ op' = [op EXCEPT ![a].todo = @ \ {p}]
    /\ UNCHANGED <<rows, cache, late, unclaimed, faults>>

\* An upload goes on to adopt rows, then to post; the others are done.
Posting(o) ==
    LET todo == Unsynced(o.list, o.links) IN
    IF todo = {} THEN DrainOrEnd(o, TRUE)
    ELSE [o EXCEPT !.at = "post", !.todo = todo, !.saved = FALSE]

PersistDone(a) ==
    /\ op[a].at = "persist" /\ op[a].todo = {}
    /\ LET o == op[a] IN
       op' = [op EXCEPT ![a] =
         CASE o.part = "upload" -> [o EXCEPT !.at = "adopt", !.todo = Ids]
           [] o.part = "adopt" -> Posting(o)
           [] o.part = "final" -> DrainOrEnd(o, TRUE)
           [] OTHER -> Idle]
    /\ UNCHANGED <<rows, stored, cache, late, unclaimed, faults>>

(***************************************************************************)
(* reconcileOrphanServerPlotLink for each plot, from the same old list.    *)
(***************************************************************************)
Adoptable(o) == {p \in o.todo : Confirmation(o.list, p) \notin {0, o.links[p]}}

\* The PATCH claims the row unless it has a client id; it is best effort.
Patch(a) ==
    /\ op[a].at = "adopt" /\ Adoptable(op[a]) # {}
    /\ LET o == op[a]
           p == First(Adoptable(o))
           i == Confirmation(o.list, p)
       IN  /\ \/ /\ rows' = IF rows[i].client = Nobody
                            THEN [rows EXCEPT ![i].client = p] ELSE rows
                 /\ UNCHANGED <<unclaimed, faults>>
              \/ Fault /\ unclaimed' = TRUE /\ UNCHANGED rows
           /\ op' = [op EXCEPT ![a] = [o EXCEPT !.at = "adopted", !.row = i,
                                          !.todo = Adoptable(o)]]
    /\ UNCHANGED <<stored, cache, late>>

SaveAdopted(a) ==
    /\ op[a].at = "adopted"
    /\ LET o == op[a]
           p == First(o.todo)
       IN  /\ stored' = [stored EXCEPT ![p] = o.row]
           /\ op' = [op EXCEPT ![a] = [o EXCEPT !.at = "adopt", !.saved = TRUE,
                               !.links[p] = o.row, !.todo = @ \ {p}]]
    /\ UNCHANGED <<rows, cache, late, unclaimed, faults>>

AdoptDone(a) ==
    /\ op[a].at = "adopt" /\ Adoptable(op[a]) = {}
    /\ LET o == op[a] IN
       op' = [op EXCEPT ![a] = IF o.saved THEN [o EXCEPT !.at = "open", !.part = "adopt"]
                               ELSE Posting(o)]
    /\ UNCHANGED <<rows, stored, cache, late, unclaimed, faults>>

(***************************************************************************)
(* POST /v1/plots: look the client id up, check a polygon, look an orphan  *)
(* up, insert; the database lets a client id have one row.                 *)
(***************************************************************************)
Going(a, at) == op' = [op EXCEPT ![a].at = at]

FindByClientId(a) ==
    /\ op[a].at = "post"
    /\ LET is == OwnRows(rows, First(op[a].todo)) IN
       IF is = {} THEN Going(a, IF Walked THEN "gate" ELSE "lookup")
       ELSE op' = [op EXCEPT ![a].at = "answered", ![a].row = Newest(is)]
    /\ UNCHANGED <<rows, stored, cache, late, unclaimed, faults>>

\* GEO-105: the farmer's rows, orphans included, may not overlap the polygon.
Overlapped(p) == Walked /\ \E i \in DOMAIN rows : p \in rows[i].over

\* runPolygonGeometryQualityGate: 400, or 500 if its audit row fails.
CheckGeometry(a) ==
    /\ op[a].at = "gate"
    /\ \/ Going(a, IF Overlapped(First(op[a].todo)) THEN "failed" ELSE "lookup")
            /\ UNCHANGED faults
       \/ Fault /\ Going(a, "error500")
    /\ UNCHANGED <<rows, stored, cache, late, unclaimed>>

FindOrphan(a) ==
    /\ op[a].at = "lookup"
    /\ LET is == Orphans(rows, First(op[a].todo)) IN
       IF is = {} THEN Going(a, "insert")
       ELSE op' = [op EXCEPT ![a].at = "claim", ![a].row = Newest(is)]
    /\ UNCHANGED <<rows, stored, cache, late, unclaimed, faults>>

\* Another request may have claimed the orphan: it is answered all the same.
ClaimOrphan(a) ==
    /\ op[a].at = "claim"
    /\ rows' = IF rows[op[a].row].client = Nobody
               THEN [rows EXCEPT ![op[a].row].client = First(op[a].todo)] ELSE rows
    /\ Going(a, "answered")
    /\ UNCHANGED <<stored, cache, late, unclaimed, faults>>

Added(p) == Append(rows, [client |-> p, name |-> NameOf[p], over |-> {p}])

\* Without the unique index.
InsertUnchecked(a) ==
    /\ op[a].at = "insert"
    /\ rows' = Added(First(op[a].todo))
    /\ op' = [op EXCEPT ![a].at = "answered", ![a].row = Len(rows) + 1]
    /\ UNCHANGED <<stored, cache, late, unclaimed, faults>>

\* The area is compared, and the audit row written, after the insertion.
InsertRow(a) ==
    /\ op[a].at = "insert"
    /\ LET p == First(op[a].todo) IN
       IF OwnRows(rows, p) # {}
       THEN UNCHANGED <<rows, faults>> /\ Going(a, "error500")
       ELSE /\ rows' = Added(p)
            /\ \/ p \notin Discrepant /\ UNCHANGED faults
                    /\ op' = [op EXCEPT ![a].at = "answered", ![a].row = Len(rows) + 1]
               \/ p \in Discrepant /\ UNCHANGED faults /\ Going(a, "failed")
               \/ p \notin Discrepant /\ Fault /\ Going(a, "error500")
    /\ UNCHANGED <<stored, cache, late, unclaimed>>

\* The caller gives up waiting, or never hears the answer.
AnswerLost(a) ==
    /\ op[a].at \in {"gate", "lookup", "claim", "insert", "answered"} /\ Fault
    /\ late' = IF op[a].at = "answered" THEN late ELSE late \cup {First(op[a].todo)}
    /\ Going(a, "failed")
    /\ UNCHANGED <<rows, stored, cache, unclaimed>>

\* What a request does for a caller that left.
CreateLate(p) ==
    /\ p \in late /\ late' = late \ {p}
    /\ rows' = IF OwnRows(rows, p) # {} \/ Overlapped(p) THEN rows
               ELSE IF Orphans(rows, p) # {}
               THEN [rows EXCEPT ![Newest(Orphans(rows, p))].client = p]
               ELSE Added(p)
    /\ UNCHANGED <<stored, cache, op, unclaimed, faults>>

\* The plot is entered by hand: such rows have no client id.  Once this phone has
\* created its row, or is about to, the entry is a double no lookup can prevent.
EnterByHand ==
    /\ rows = <<>> /\ \A a \in Callers : op[a].at # "insert"
    /\ rows' \in FirstRows \ {rows}
    /\ UNCHANGED <<stored, cache, late, op, unclaimed, faults>>

\* After a 500 the phone looks for its row in the list it has, or a new one.
Refetch(a) ==
    /\ op[a].at = "error500"
    /\ LET list == IF cache = NoList THEN rows ELSE cache
           is == OwnRows(list, First(op[a].todo))
       IN  \/ /\ cache' = list /\ UNCHANGED faults
              /\ op' = [op EXCEPT ![a].at = IF is = {} THEN "failed" ELSE "answered",
                                  ![a].row = Newest(is)]
           \/ cache = NoList /\ Fault /\ Going(a, "failed") /\ UNCHANGED cache
    /\ UNCHANGED <<rows, stored, late, unclaimed>>

\* All plots are through: if any got a row, fetch and reconcile once more.
Onward(o) ==
    IF o.todo # {} THEN [o EXCEPT !.at = "post"]
    ELSE IF o.saved THEN [o EXCEPT !.at = "final", !.part = "final"]
    ELSE Idle

SaveCreated(a) ==
    /\ op[a].at = "answered"
    /\ LET o == op[a]
           p == First(o.todo)
       IN  /\ stored' = [stored EXCEPT ![p] = o.row]
           /\ op' = [op EXCEPT ![a] = Onward([o EXCEPT !.saved = TRUE, !.links[p] = o.row,
                                                       !.todo = @ \ {p}])]
    /\ UNCHANGED <<rows, cache, late, unclaimed, faults>>

\* A failed plot is passed over; after some failures the others are too.
PlotFailed(a) ==
    /\ op[a].at = "failed"
    /\ \E rest \in {op[a].todo \ {First(op[a].todo)}, {}} :
         op' = [op EXCEPT ![a] = Onward([op[a] EXCEPT !.failed = TRUE, !.todo = rest])]
    /\ UNCHANGED <<rows, stored, cache, late, unclaimed, faults>>

FetchFinal(a) ==
    /\ op[a].at = "final"
    /\ cache' = NoList
    /\ Going(a, "asked")
    /\ UNCHANGED <<rows, stored, late, unclaimed, faults>>

\* processPendingSyncQueue loads the links and takes the list it can get.
StartDrain(a) ==
    /\ op[a].at = "drain"
    /\ op' = [op EXCEPT ![a] = Asking([@ EXCEPT !.links = stored])]
    /\ UNCHANGED <<rows, stored, cache, late, unclaimed, faults>>

CacheExpires ==
    /\ cache # NoList /\ cache' = NoList
    /\ UNCHANGED <<rows, stored, late, op, unclaimed, faults>>

\* The app dies; what it asked for, the server may still do.
Kill ==
    /\ \E a \in Callers : op[a] # Idle
    /\ Fault
    /\ op' = [a \in Callers |-> Idle]
    /\ cache' = NoList
    /\ late' = late \cup {First(op[a].todo) :
                  a \in {b \in Callers : op[b].at \in {"post", "gate", "lookup", "claim", "insert"}}}
    /\ UNCHANGED <<rows, stored, unclaimed>>

CallerStep(a) ==
    \/ StartUpload(a) \/ StartRefresh(a) \/ ListServed(a) \/ FetchFails(a)
    \/ Reconcile(a) \/ OpenPersist(a) \/ PersistLink(a) \/ PersistDone(a)
    \/ Patch(a) \/ SaveAdopted(a) \/ AdoptDone(a)
    \/ FindByClientId(a) \/ CheckGeometry(a) \/ FindOrphan(a) \/ ClaimOrphan(a) \/ InsertRow(a)
    \/ AnswerLost(a) \/ Refetch(a) \/ SaveCreated(a) \/ PlotFailed(a)
    \/ FetchFinal(a) \/ StartDrain(a)

Next ==
    \/ \E a \in Callers : CallerStep(a)
    \/ \E p \in Ids : CreateLate(p)
    \/ EnterByHand \/ CacheExpires \/ Kill

Spec == Init /\ [][Next]_vars

\* Another sync is started sooner or later, and one that runs goes on.
FairSpec == Spec /\ \A a \in Pipelines : WF_vars(CallerStep(a))

-----------------------------------------------------------------------------
(***************************************************************************)
(* However often a plot is posted - by syncs side by side, after a lost    *)
(* answer, a server error or a kill - it makes no second row, and a row    *)
(* without a client id (of an old upload, or entered by hand before) is    *)
(* claimed, not duplicated.                                                *)
(***************************************************************************)
NoDuplicateUpload ==
    \A p \in Ids :
        /\ \A i, j \in OwnRows(rows, p) : i = j
        /\ \A i \in Orphans(rows, p) : Namesakes(rows, p, Ids \cup {Nobody}) = {i}

\* No row can stand for the plot, and one that overlaps it keeps it from having its own.
Refused(p) == Confirmation(rows, p) = 0 /\ Overlapped(p)

(***************************************************************************)
(* In the end every plot is linked to a row of its own and stays so, also  *)
(* plots of one name, and although lists that were asked for before a plot *)
(* was created, and a drain whose fetch failed, clear links - unless       *)
(* another plot of its name was given the row with its boundary, whose     *)
(* overlap then refuses it: it ends up linked to none.  (If a request that *)
(* claims a row failed, that is never made again, and two plots of one     *)
(* name may share the row for good.)                                       *)
(***************************************************************************)
EndUpLinkedApart ==
    <>[](unclaimed \/ \A p \in Ids :
           IF Refused(p) THEN stored[p] = 0
           ELSE stored[p] # 0 /\ \A q \in Ids \ {p} : stored[q] # stored[p])

=============================================================================
