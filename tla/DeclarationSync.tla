--------------------------- MODULE DeclarationSync ---------------------------
(***************************************************************************)
(* The farmer's declarations and preferences on their way to the server's  *)
(* audit_log.  A screen saves a new version and queues it; every pipeline  *)
(* queues again, from the profile it was given when it started: the        *)
(* declarations whose marker is unset                                      *)
(* (enqueuePendingDeclarationAuditsForDevice) and always the preferences   *)
(* (enqueueFarmerCloudSyncActions), and then drains the queue.             *)
(***************************************************************************)
EXTENDS AuditCalls

CONSTANT Gated   \* the kinds that are declarations

ASSUME GatedAssumption == Gated \subseteq Kinds

VARIABLES
  newest,    \* version of each document in SQLite; 0 before the first
  run        \* the pipeline: the profile it holds and the kinds still to queue

vars == <<callVars, newest, run>>

NotRunning == [pc |-> "idle"]

TypeOK ==
  /\ CallsTypeOK
  /\ \A k \in Kinds : newest[k] \in 0..MaxVersions[k]
  /\ run.pc \in {"idle", "queueing", "draining"}
  /\ run.pc = "queueing" => run.left \subseteq Kinds /\ \A k \in Kinds : run.held[k] <= newest[k]

Init == CallsInit /\ newest = [k \in Kinds |-> 0] /\ run = NotRunning

\* ProducerDeclarationsSection, PlotAttestationsCard, setFarmer: the app may
\* die between saving the document and queueing it.
Save(c, k) ==
  /\ newest[k] < MaxVersions[k] /\ newest' = [newest EXCEPT ![k] = @ + 1]
  /\ \/ Begin(c, k, newest[k] + 1) /\ UNCHANGED faults
     \/ Fault /\ CallsDie
  /\ run' = IF call' = [d \in Callers |-> Idle] THEN NotRunning ELSE run

Start ==
  /\ run.pc = "idle"
  /\ run' = [pc |-> "queueing", held |-> newest, left |-> Kinds]
  /\ UNCHANGED <<callVars, newest>>

\* Every kind only while its marker is unset.
SkipsAllMarked(k) == run.held[k] = 0 \/ k \in marker

\* Declarations are left to the screens.
SkipsDeclarations(k) == run.held[k] = 0 \/ k \in Gated

\* Nothing declared, or isDeclarationAuditSynced.
Skips(k) == run.held[k] = 0 \/ (k \in Gated /\ k \in marker)

\* The declarations come first.
Turn(k) == k \in run.left /\ (k \in Gated \/ run.left \cap Gated = {})

Requeue(k) ==
  /\ run.pc = "queueing" /\ Turn(k) /\ At("pipeline", "idle")
  /\ run' = [run EXCEPT !.left = @ \ {k}]
  /\ IF Skips(k) THEN UNCHANGED callVars
                 ELSE Begin("pipeline", k, run.held[k]) /\ UNCHANGED faults
  /\ UNCHANGED newest

Drain ==
  /\ run.pc = "queueing" /\ run.left = {} /\ At("pipeline", "idle")
  /\ Load /\ run' = [pc |-> "draining"] /\ UNCHANGED newest

\* The upload of a plot failed: skipQueueDrain.
SkipDrain ==
  /\ run.pc = "queueing" /\ run.left = {} /\ At("pipeline", "idle")
  /\ Fault /\ run' = NotRunning
  /\ UNCHANGED <<rows, marker, call, drain, log, newest>>

End ==
  /\ run.pc = "draining" /\ DrainDone
  /\ run' = NotRunning /\ drain' = Idle
  /\ UNCHANGED <<rows, marker, call, log, faults, newest>>

Kill == Fault /\ CallsDie /\ run' = NotRunning /\ UNCHANGED newest

-----------------------------------------------------------------------------
Pipeline ==
  \/ Start \/ Drain \/ End
  \/ \E k \in Kinds : Requeue(k)
  \/ (CallStep("pipeline") \/ DrainStep) /\ UNCHANGED <<newest, run>>

Next ==
  \/ Pipeline \/ SkipDrain \/ Kill
  \/ \E c \in Screens : \/ \E k \in Kinds : Save(c, k)
                        \/ CallStep(c) /\ UNCHANGED <<newest, run>>
  \/ (SendRowFails \/ \E c \in Callers : CallFails(c)) /\ UNCHANGED <<newest, run>>

(* Pipelines are started again and again (connectivity, foreground, "Sync  *)
(* now"); a call that is under way goes on unless the app is killed.       *)
Fairness ==
  /\ WF_vars(Pipeline)
  /\ \A c \in Screens : WF_vars(CallStep(c) /\ UNCHANGED <<newest, run>>)

Spec == Init /\ [][Next]_vars
FairSpec == Spec /\ Fairness

-----------------------------------------------------------------------------
(* Properties                                                              *)

(* The marker a pipeline trusts is set only when the server has logged a   *)
(* declaration of that kind, whichever calls and kills came in between.    *)
MarkerMeansLogged == \A k \in marker : Logged(k) # {}

(* "Re-queue signed declarations that never reached Supabase audit_log"    *)
(* (queueDeclarationAuditSync.ts:164): what the farmer declared is logged  *)
(* in the end, wherever the app died and however queue rows were lost.     *)
DeclaredIsLogged == \A k \in Kinds : newest[k] > 0 ~> Logged(k) # {}

(* "restore uses latest event" (farmer-artifact-sync-registry.md): for     *)
(* what every pipeline queues, the latest event is in the end the newest   *)
(* version, though old payloads are sent late, sent twice or kept by the   *)
(* compaction.                                                             *)
NewestWins == \A k \in Kinds \ Gated : <>[](Latest(k) = newest[k])
=============================================================================
