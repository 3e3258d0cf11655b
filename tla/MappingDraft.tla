---------------------------- MODULE MappingDraft ----------------------------
(***************************************************************************)
(* The draft of a walk in progress: kept in SQLite, logged by the server   *)
(* as plot_mapping_draft_saved and plot_mapping_draft_cleared, and         *)
(* restored from that log by every pipeline (plotMappingDraft.ts).  The    *)
(* walk screen saves 1.2 s after any change and 1.2 s after it is opened   *)
(* (useMappingDraftCloudSync.ts).  One phone, one farmer, new plots only.  *)
(***************************************************************************)
EXTENDS AuditCalls

CONSTANT MaxClears   \* bound of the model: drafts cleared on the screen

ASSUME KindsAssumption == Kinds = {"saved", "cleared"} /\ MaxVersions["cleared"] = 1
ASSUME ClearsAssumption == MaxClears \in Nat

VARIABLES
  draft,     \* updatedAt of the draft with points in plot_mapping_drafts; 0 for none
  clock,     \* updatedAt of the last save
  clears,    \* how often the screen cleared the draft
  walk,      \* the walk screen: is it open, has it points, is its timer armed
  offer,     \* the resume prompt is showing
  run,       \* the pipeline, and what it fetched
  quiet      \* history: the farmer's last act was a save that nothing crossed

screenVars == <<walk, offer>>
draftVars == <<draft, clock, clears, quiet>>
vars == <<callVars, draftVars, screenVars, run>>

Stamps == 0..MaxVersions["saved"]
NotRunning == [pc |-> "idle"]
Closed == [open |-> FALSE, points |-> FALSE, armed |-> FALSE]

TypeOK ==
  /\ CallsTypeOK
  /\ draft \in Stamps /\ clock \in Stamps /\ draft <= clock /\ clears \in 0..MaxClears
  /\ walk \in [open : BOOLEAN, points : BOOLEAN, armed : BOOLEAN] /\ (walk.open \/ walk = Closed)
  /\ offer \in BOOLEAN /\ (offer => walk.open)
  /\ run.pc \in {"idle", "fetched", "persist", "queue", "queueing", "draining"}
  /\ run.pc \in {"fetched", "persist"} => run.saved \in Stamps
  /\ quiet \in BOOLEAN

Init ==
  /\ CallsInit /\ draft = 0 /\ clock = 0 /\ clears = 0
  /\ walk = Closed /\ offer = FALSE
  /\ run = NotRunning /\ quiet = FALSE

-----------------------------------------------------------------------------
(* The walk screen                                                         *)

ScreenOnly == UNCHANGED <<callVars, draftVars, run>>

Open ==
  /\ ~walk.open
  /\ walk' = [Closed EXCEPT !.open = TRUE, !.armed = TRUE]
  /\ offer' = (draft > 0)
  /\ ScreenOnly

Resume ==
  /\ offer /\ offer' = FALSE
  /\ walk' = [walk EXCEPT !.points = TRUE, !.armed = TRUE]
  /\ ScreenOnly

Cancel == offer /\ offer' = FALSE /\ UNCHANGED walk /\ ScreenOnly

\* A point is added, or reset() drops them all.
Change ==
  /\ walk.open /\ ~offer
  /\ \E p \in BOOLEAN : walk' = [walk EXCEPT !.points = p, !.armed = TRUE]
  /\ UNCHANGED offer /\ ScreenOnly

\* Leaving the screen clears the timer.
Close == walk.open /\ walk' = Closed /\ offer' = FALSE /\ ScreenOnly

\* clearPlotMappingDraft, then the event.
Clear(c) ==
  /\ clears < MaxClears /\ clears' = clears + 1
  /\ draft' = 0 /\ quiet' = FALSE
  /\ Begin(c, "cleared", 1) /\ UNCHANGED <<clock, run, faults>>

\* No pipeline runs, and no other call.
Alone(c) == run.pc = "idle" /\ \A d \in Callers \ {c} : At(d, "idle")

\* saveAndSyncPlotMappingDraft
Autosave(c) ==
  /\ walk.armed /\ walk' = [walk EXCEPT !.armed = FALSE]
  /\ IF walk.points
       THEN /\ clock < MaxVersions["saved"] /\ clock' = clock + 1 /\ draft' = clock'
            /\ quiet' = (Alone(c) /\ \A r, q \in rows : r.key = q.key => r = q)
            /\ Begin(c, "saved", clock') /\ UNCHANGED <<clears, run, faults>>
       ELSE Clear(c)
  /\ UNCHANGED offer

\* finishNewPlotSave: the screen keeps its points and its timer.
SavePlot(c) == walk.points /\ Clear(c) /\ UNCHANGED screenVars

-----------------------------------------------------------------------------
(* restorePlotMappingDraftFromServer, then enqueueFarmerCloudSyncActions    *)

PipelineOnly == UNCHANGED <<clock, clears, quiet, screenVars>>
Crosses == quiet' = (quiet /\ \A c \in Callers : At(c, "idle"))
Starts == Crosses /\ UNCHANGED <<clock, clears, screenVars>>

\* The newest event of each kind; `cleared` when the clear is the newer one.
Fetch ==
  /\ run.pc = "idle"
  /\ run' = [pc |-> "fetched", saved |-> Latest("saved"),
             cleared |-> log # <<>> /\ Last(log).kind = "cleared"]
  /\ UNCHANGED <<callVars, draft>> /\ Starts

\* Unreachable, or an expired session taken for an empty log.
FetchFails ==
  /\ run.pc = "idle" /\ Fault /\ run' = [pc |-> "queue"]
  /\ UNCHANGED <<rows, marker, call, drain, log, draft>> /\ Starts

RestoreClears ==
  /\ run.pc = "fetched" /\ run.cleared
  /\ draft' = 0 /\ run' = [pc |-> "queue"]
  /\ UNCHANGED callVars /\ PipelineOnly

\* Whatever the phone has is replaced.
LoadLocalUnasked ==
  /\ run.pc = "fetched" /\ ~run.cleared
  /\ run' = IF run.saved = 0 THEN [pc |-> "queue"] ELSE [run EXCEPT !.pc = "persist"]
  /\ UNCHANGED <<callVars, draft>> /\ PipelineOnly

\* The server's draft is wanted only when it is the newer one.
LoadLocal ==
  /\ run.pc = "fetched" /\ ~run.cleared
  /\ run' = IF run.saved = 0 \/ (draft > 0 /\ draft >= run.saved)
              THEN [pc |-> "queue"] ELSE [run EXCEPT !.pc = "persist"]
  /\ UNCHANGED <<callVars, draft>> /\ PipelineOnly

RestoreDraft ==
  /\ run.pc = "persist"
  /\ draft' = run.saved /\ run' = [pc |-> "queue"]
  /\ UNCHANGED callVars /\ PipelineOnly

\* The draft is left to the screen.
RequeueNothing ==
  /\ run.pc = "queue" /\ run' = [pc |-> "queueing"]
  /\ UNCHANGED <<callVars, draft>> /\ PipelineOnly

Requeue ==
  /\ run.pc = "queue" /\ run' = [pc |-> "queueing"]
  /\ IF draft = 0 THEN UNCHANGED callVars
                  ELSE Begin("pipeline", "saved", draft) /\ UNCHANGED faults
  /\ UNCHANGED draft /\ PipelineOnly

Drain ==
  /\ run.pc = "queueing" /\ At("pipeline", "idle")
  /\ Load /\ run' = [pc |-> "draining"]
  /\ UNCHANGED draft /\ PipelineOnly

End ==
  /\ run.pc = "draining" /\ DrainDone
  /\ run' = NotRunning /\ drain' = Idle
  /\ UNCHANGED <<rows, marker, call, log, faults, draft>> /\ PipelineOnly

Kill ==
  /\ Fault /\ CallsDie /\ run' = NotRunning
  /\ walk' = Closed /\ offer' = FALSE
  /\ Crosses /\ UNCHANGED <<draft, clock, clears>>

-----------------------------------------------------------------------------
InCall == UNCHANGED <<draftVars, screenVars, run>>

Pipeline ==
  \/ Fetch \/ RestoreClears \/ LoadLocal \/ RestoreDraft \/ Requeue \/ Drain \/ End
  \/ (CallStep("pipeline") \/ DrainStep) /\ InCall

Next ==
  \/ Open \/ Resume \/ Cancel \/ Change \/ Close \/ FetchFails \/ Kill \/ Pipeline
  \/ \E c \in Screens : Autosave(c) \/ SavePlot(c) \/ (CallStep(c) /\ InCall)
  \/ (SendRowFails \/ \E c \in Callers : CallFails(c)) /\ InCall

Fairness ==
  /\ WF_vars(Pipeline)
  /\ \A c \in Screens : WF_vars(CallStep(c) /\ InCall)

Spec == Init /\ [][Next]_vars
FairSpec == Spec /\ Fairness

-----------------------------------------------------------------------------
(* Properties                                                              *)

(* A save queued while no pipeline and no other save ran, before the app   *)
(* died and with no duplicate rows around, is never lost from everywhere,  *)
(* although a later pipeline may delete it on the phone, fetch an older    *)
(* draft and queue what it finds.  Any other save can be lost: rows are    *)
(* updated and deleted by id, and the compaction may keep the older        *)
(* payload.                                                                *)
Holds(s) ==
  \/ draft = s \/ s \in Logged("saved")
  \/ \E r \in rows : r.key = "saved" /\ r.body = s
  \/ \E c \in Callers : ~At(c, "idle") /\ call[c].kind = "saved" /\ call[c].body = s

QuietSaveKept == quiet => Holds(clock)

(* "In-progress walk - plot_mapping_drafts + plot_mapping_draft_saved      *)
(* audit" (FEAT-002): a draft that stays on the phone is logged.           *)
DraftIsLogged == \A s \in Stamps \ {0} : draft = s ~> s \in Logged("saved") \/ draft # s

(* When the farmer rests, the phone and the log come to agree for good on  *)
(* the draft that a new phone would restore.                               *)
OnServer == IF log = <<>> \/ Last(log).kind = "cleared" THEN 0 ELSE Latest("saved")
PhoneAndServerAgree == <>[](draft = OnServer)
=============================================================================
