------------------------- MODULE MappingDraftProofs -------------------------
(***************************************************************************)
(* The theorems about the draft of a walk, for every set of screens and    *)
(* every bound.  AuditCallsProofs proves them beside those of              *)
(* DeclarationSync, as both rest on the same lemmas about calls and        *)
(* drains, for the MappingDraft it takes with INSTANCE.  Here they are     *)
(* those of the module itself: definition by definition the two agree.     *)
(***************************************************************************)
EXTENDS MappingDraft, TLAPS

\* What a declaration would be does not matter to a draft.
Calls == INSTANCE AuditCallsProofs WITH Gated <- {}, newest <- clock, restore <- run

(* The terms of both ...                                                   *)
LEMMA SameTerms ==
  /\ Calls!Drafts!Idle = Idle /\ Calls!Drafts!Callers = Callers
  /\ Calls!Drafts!Event = Event /\ Calls!Drafts!Row = Row /\ Calls!Drafts!NewId = NewId
  /\ Calls!Drafts!vars = vars /\ Calls!Drafts!callVars = callVars
  /\ Calls!Drafts!Closed = Closed /\ Calls!Drafts!NotRunning = NotRunning
  /\ Calls!Drafts!Stamps = Stamps
  /\ \A c, pc : Calls!Drafts!At(c, pc) <=> At(c, pc)
  /\ \A k : Calls!Drafts!Logged(k) = Logged(k) /\ Calls!Drafts!Latest(k) = Latest(k)
  /\ \A k, v : Calls!Drafts!AppendEvent(k, v) = AppendEvent(k, v)
  BY DEF Calls!Drafts!Idle, Idle, Calls!Drafts!Callers, Callers,
         Calls!Drafts!Event, Event, Calls!Drafts!Row, Row, Calls!Drafts!NewId,
         NewId, Calls!Drafts!UsedIds, UsedIds, Calls!Drafts!vars, vars,
         Calls!Drafts!callVars, callVars, Calls!Drafts!draftVars, draftVars,
         Calls!Drafts!screenVars, screenVars, Calls!Drafts!Closed, Closed,
         Calls!Drafts!NotRunning, NotRunning, Calls!Drafts!Stamps, Stamps,
         Calls!Drafts!At, At, Calls!Drafts!Logged, Logged,
         Calls!Drafts!Latest, Latest, Calls!Drafts!Max, Max,
         Calls!Drafts!AppendEvent, AppendEvent, Calls!Drafts!ToSet, ToSet,
         Calls!Drafts!RemoveAt, RemoveAt

(* ... their calls ...                                                     *)
LEMMA SameCalls ==
  ASSUME NEW c
  PROVE  /\ Calls!Drafts!CallStep(c) <=> CallStep(c)
         /\ Calls!Drafts!CallFails(c) <=> CallFails(c)
         /\ \A k, v : Calls!Drafts!Begin(c, k, v) <=> Begin(c, k, v)
  BY SameTerms
     DEF Calls!Drafts!CallStep, CallStep, Calls!Drafts!CallFails, CallFails,
         Calls!Drafts!Begin, Begin, Calls!Drafts!LookUp, LookUp,
         Calls!Drafts!Update, Update, Calls!Drafts!Insert, Insert,
         Calls!Drafts!PostSucceeds, PostSucceeds, Calls!Drafts!Find, Find,
         Calls!Drafts!Delete, Delete, Calls!Drafts!Mark, Mark,
         Calls!Drafts!NoSession, NoSession, Calls!Drafts!PostFails, PostFails,
         Calls!Drafts!Offline, Offline, Calls!Drafts!Fault, Fault,
         Calls!Drafts!Enqueued, Enqueued, Calls!Drafts!Becomes, Becomes,
         Calls!Drafts!Goes, Goes, Calls!Drafts!FirstMatch, FirstMatch,
         Calls!Drafts!Older, Older, Calls!Drafts!WithoutIds, WithoutIds

(* ... their drains ...                                                    *)
LEMMA SameDrain ==
  /\ Calls!Drafts!DrainStep <=> DrainStep
  /\ Calls!Drafts!SendRowFails <=> SendRowFails
  /\ Calls!Drafts!Load <=> Load
  /\ Calls!Drafts!DrainDone <=> DrainDone
  /\ Calls!Drafts!Fault <=> Fault
  /\ Calls!Drafts!CallsDie <=> CallsDie
  BY SameTerms
     DEF Calls!Drafts!DrainStep, DrainStep, Calls!Drafts!SendRowFails,
         SendRowFails, Calls!Drafts!SendRow, SendRow, Calls!Drafts!MarkRow,
         MarkRow, Calls!Drafts!DeleteRow, DeleteRow, Calls!Drafts!RowFailed,
         RowFailed, Calls!Drafts!DrainRow, DrainRow, Calls!Drafts!NextInLine,
         NextInLine, Calls!Drafts!MarkAttempt, MarkAttempt,
         Calls!Drafts!WithoutIds, WithoutIds, Calls!Drafts!DrainKeepsRest,
         DrainKeepsRest, Calls!Drafts!Load, Load, Calls!Drafts!DeleteRows,
         DeleteRows, Calls!Drafts!Keeps, Keeps, Calls!Drafts!Older, Older,
         Calls!Drafts!DrainDone, DrainDone, Calls!Drafts!Fault, Fault,
         Calls!Drafts!CallsDie, CallsDie

(* ... their screens ...                                                   *)
LEMMA SameScreen ==
  /\ Calls!Drafts!Open <=> Open
  /\ Calls!Drafts!Resume <=> Resume
  /\ Calls!Drafts!Cancel <=> Cancel
  /\ Calls!Drafts!Change <=> Change
  /\ Calls!Drafts!Close <=> Close
  /\ Calls!Drafts!InCall <=> InCall
  /\ \A c : Calls!Drafts!Autosave(c) <=> Autosave(c)
  /\ \A c : Calls!Drafts!SavePlot(c) <=> SavePlot(c)
  <1>. USE DEF Calls!Drafts!callVars, callVars, Calls!Drafts!draftVars, draftVars,
               Calls!Drafts!screenVars, screenVars, Calls!Drafts!ScreenOnly, ScreenOnly
  <1>1. Calls!Drafts!Open <=> Open
    BY DEF Calls!Drafts!Open, Open, Calls!Drafts!Closed, Closed
  <1>2. Calls!Drafts!Resume <=> Resume
    BY DEF Calls!Drafts!Resume, Resume, Calls!Drafts!Closed, Closed
  <1>3. Calls!Drafts!Cancel <=> Cancel
    BY DEF Calls!Drafts!Cancel, Cancel, Calls!Drafts!Closed, Closed
  <1>4. Calls!Drafts!Change <=> Change
    BY DEF Calls!Drafts!Change, Change, Calls!Drafts!Closed, Closed
  <1>5. Calls!Drafts!Close <=> Close
    BY DEF Calls!Drafts!Close, Close, Calls!Drafts!Closed, Closed
  <1>6. Calls!Drafts!InCall <=> InCall
    BY DEF Calls!Drafts!InCall, InCall
  <1>7. \A c : Calls!Drafts!Autosave(c) <=> Autosave(c)
    BY DEF Calls!Drafts!Autosave, Autosave, Calls!Drafts!Clear, Clear,
       Calls!Drafts!Alone, Alone, Calls!Drafts!Begin, Begin, Calls!Drafts!At,
       At, Calls!Drafts!Callers, Callers, Calls!Drafts!Becomes, Becomes
  <1>8. \A c : Calls!Drafts!SavePlot(c) <=> SavePlot(c)
    BY DEF Calls!Drafts!SavePlot, SavePlot, Calls!Drafts!Clear, Clear,
       Calls!Drafts!Alone, Alone, Calls!Drafts!Begin, Begin, Calls!Drafts!At,
       At, Calls!Drafts!Callers, Callers, Calls!Drafts!Becomes, Becomes
  <1>. QED
    BY <1>1, <1>2, <1>3, <1>4, <1>5, <1>6, <1>7, <1>8

(* ... and their pipelines.                                                *)
LEMMA SamePipeline ==
  /\ Calls!Drafts!Pipeline <=> Pipeline
  /\ Calls!Drafts!FetchFails <=> FetchFails
  /\ Calls!Drafts!Kill <=> Kill
  <1>. USE DEF Calls!Drafts!callVars, callVars, Calls!Drafts!screenVars, screenVars,
               Calls!Drafts!PipelineOnly, PipelineOnly, Calls!Drafts!At, At
  <1>1. Calls!Drafts!Crosses <=> Crosses
    BY DEF Calls!Drafts!Crosses, Crosses, Calls!Drafts!Callers, Callers
  <1>2. Calls!Drafts!Starts <=> Starts
    BY <1>1 DEF Calls!Drafts!Starts, Starts
  <1>3. Calls!Drafts!Fetch <=> Fetch
    BY <1>2, SameTerms DEF Calls!Drafts!Fetch, Fetch, Calls!Drafts!Last, Last
  <1>4. Calls!Drafts!RestoreClears <=> RestoreClears
    BY DEF Calls!Drafts!RestoreClears, RestoreClears
  <1>5. Calls!Drafts!LoadLocal <=> LoadLocal
    BY DEF Calls!Drafts!LoadLocal, LoadLocal
  <1>6. Calls!Drafts!RestoreDraft <=> RestoreDraft
    BY DEF Calls!Drafts!RestoreDraft, RestoreDraft
  <1>7. Calls!Drafts!Requeue <=> Requeue
    BY SameCalls DEF Calls!Drafts!Requeue, Requeue
  <1>8. Calls!Drafts!Drain <=> Drain
    BY SameDrain DEF Calls!Drafts!Drain, Drain
  <1>9. Calls!Drafts!End <=> End
    BY SameDrain, SameTerms DEF Calls!Drafts!End, End
  <1>10. Calls!Drafts!FetchFails <=> FetchFails
    BY <1>2, SameDrain DEF Calls!Drafts!FetchFails, FetchFails
  <1>11. Calls!Drafts!Kill <=> Kill
    BY <1>1, SameDrain, SameTerms DEF Calls!Drafts!Kill, Kill
  <1>12. Calls!Drafts!Pipeline <=> Pipeline
    BY <1>3, <1>4, <1>5, <1>6, <1>7, <1>8, <1>9, SameCalls, SameDrain,
       SameScreen DEF Calls!Drafts!Pipeline, Pipeline
  <1>. QED
    BY <1>1, <1>2, <1>3, <1>4, <1>5, <1>6, <1>7, <1>8, <1>9, <1>10, <1>11, <1>12

LEMMA SameNext == Calls!Drafts!Next <=> Next
  BY SameTerms, SameCalls, SameDrain, SameScreen, SamePipeline DEF Calls!Drafts!Next, Next

LEMMA SameInit == Calls!Drafts!Init <=> Init
  BY SameTerms
     DEF Calls!Drafts!Init, Init, Calls!Drafts!CallsInit, CallsInit

LEMMA SameSpec == Calls!Drafts!Spec <=> Spec
  <1>1. [Calls!Drafts!Next]_(Calls!Drafts!vars) <=> [Next]_vars
    BY SameNext DEF Calls!Drafts!vars, vars, Calls!Drafts!callVars, callVars,
       Calls!Drafts!draftVars, draftVars, Calls!Drafts!screenVars, screenVars
  <1>. QED
    BY <1>1, SameInit, PTL DEF Calls!Drafts!Spec, Spec

LEMMA SameProperties ==
  /\ Calls!Drafts!TypeOK <=> TypeOK
  /\ Calls!Drafts!QuietSaveKept <=> QuietSaveKept
  BY SameTerms
     DEF Calls!Drafts!TypeOK, TypeOK, Calls!Drafts!CallsTypeOK, CallsTypeOK,
         Calls!Drafts!QuietSaveKept, QuietSaveKept, Calls!Drafts!Holds, Holds

(* What AuditCallsProofs supposes of its constants.                        *)
LEMMA Supposed ==
  /\ /\ MaxVersions \in [Kinds -> Nat] /\ {MaxRows, MaxFaults} \subseteq Nat
     /\ "pipeline" \notin Screens /\ Marked \subseteq Kinds
  /\ {} \subseteq Kinds
  /\ Calls!DraftsAssumption
  BY BoundsAssumption, KindsAssumption, ClearsAssumption DEF Calls!DraftsAssumption

(* The draft, the walk screen, what a pipeline fetched of the log and the  *)
(* calls that queue the draft keep their types: whatever is fetched,       *)
(* restored or queued again, no draft is newer than the last save.         *)
THEOREM TypeCorrect == Spec => []TypeOK
  <1>1. Calls!Drafts!Spec => []Calls!Drafts!TypeOK
    BY Supposed, Calls!DraftTypesCorrect
  <1>. QED
    BY <1>1, SameSpec, SameProperties, PTL

(* A save of the draft that no other call and no pipeline crossed, and     *)
(* that found no duplicate rows, is never lost from everywhere: until the  *)
(* server has logged it, it is on the phone, in the queue or in the call   *)
(* that queues it, though pipelines restore, requeue and drain after it    *)
(* and the app is killed between them.                                     *)
THEOREM QuietSaveStays == Spec => []QuietSaveKept
  <1>1. Calls!Drafts!Spec => []Calls!Drafts!QuietSaveKept
    BY Supposed, Calls!QuietSaveStays
  <1>. QED
    BY <1>1, SameSpec, SameProperties, PTL
=============================================================================
