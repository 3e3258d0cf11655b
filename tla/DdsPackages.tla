---------------------------- MODULE DdsPackages ----------------------------
(***************************************************************************)
(* Filing of vouchers: operators gather vouchers in a package, generate    *)
(* its artifacts after a preflight, and submit it under an idempotency     *)
(* key (tracebud-backend/src/harvest/harvest.service.ts).                  *)
(*                                                                         *)
(* A request is a sequence of statements with no transaction around them,  *)
(* several requests run at a time, and a statement may fail.  Every action *)
(* is one statement with the code up to the next.                          *)
(***************************************************************************)
EXTENDS Naturals, FiniteSets

CONSTANTS
  Vouchers,
  Keys,           \* idempotency keys: one per click of the dashboard
  DestinationKeys,\* those of importers and compliance managers
  Clients,        \* requests in progress at a time
  MaxPackages, MaxReferences, MaxFaults  \* bounds of the model

ASSUME BoundsAssumption ==
  /\ DestinationKeys \subseteq Keys
  /\ {MaxPackages, MaxReferences, MaxFaults} \subseteq Nat

Packages == 1..MaxPackages
NoReference == 0             \* traces_reference null
References == 1..MaxReferences

VARIABLES
  verified,      \* vouchers of plots verified as free of deforestation
  flagged,       \* vouchers with an open blocker: tenure review, rejected evidence
  sealed,        \* packages in a sealed shipment header
  status,        \* dds_package.status; "none" before the insert
  links,         \* dds_package_voucher
  reference,     \* dds_package.traces_reference
  accepted,      \* audit_log: reference of the latest accepted submission per key
  metered,       \* packages whose destination submit is billed
  op,            \* the request each client waits for
  told,          \* outcomes clients were told: status "submitted"
  minted,        \* references made up so far
  overlapped,    \* history: packages submitted again before a reference was recorded
  faults

tables == <<status, links, reference, accepted, metered>>
world == <<verified, flagged, sealed>>
vars == <<world, tables, op, told, minted, overlapped, faults>>

Idle == [pc |-> "idle"]
Statuses == {"none", "draft", "package_generated", "submission_inflight", "submitted"}

TypeOK ==
  /\ {verified, flagged} \subseteq SUBSET Vouchers
  /\ {sealed, metered, overlapped} \subseteq SUBSET Packages
  /\ status \in [Packages -> Statuses]
  /\ links \subseteq Packages \X Vouchers
  /\ reference \in [Packages -> {NoReference} \cup References]
  /\ accepted \in [Packages \X Keys -> {NoReference} \cup References]
  /\ DOMAIN op = Clients
  /\ \A c \in Clients : op[c].pc \in {"idle", "creating", "linking", "generating",
                                      "starting", "recording", "accepting", "metering"}
  /\ told \subseteq [package : Packages, key : Keys, ref : References]
  /\ minted \in 0..MaxReferences /\ faults \in 0..MaxFaults

Init ==
  /\ verified \in SUBSET Vouchers /\ flagged \in SUBSET Vouchers /\ sealed = {}
  /\ status = [p \in Packages |-> "none"]
  /\ links = {} /\ metered = {}
  /\ reference = [p \in Packages |-> NoReference]
  /\ accepted = [submission \in Packages \X Keys |-> NoReference]
  /\ op = [c \in Clients |-> Idle]
  /\ told = {} /\ minted = 0 /\ overlapped = {} /\ faults = 0

Becomes(c, next) == op' = [op EXCEPT ![c] = next]
Fault == faults < MaxFaults /\ faults' = faults + 1
In(p) == {v \in Vouchers : <<p, v>> \in links}

-----------------------------------------------------------------------------
(* createDdsPackage                                                        *)

\* Refused unless every voucher is free and from a verified plot.
CheckVouchers(c) ==
  /\ op[c] = Idle
  /\ \E chosen \in (SUBSET verified) \ {{}} :
       /\ \A p \in Packages : In(p) \cap chosen = {}
       /\ Becomes(c, [pc |-> "creating", chosen |-> chosen])
  /\ UNCHANGED <<world, tables, told, minted, overlapped, faults>>

InsertPackage(c) ==
  /\ op[c].pc = "creating"
  /\ \E p \in Packages :
       /\ status[p] = "none" /\ \A q \in 1..(p - 1) : status[q] # "none"
       /\ status' = [status EXCEPT ![p] = "draft"]
       /\ Becomes(c, [pc |-> "linking", package |-> p, chosen |-> op[c].chosen])
  /\ UNCHANGED <<world, links, reference, accepted, metered, told, minted, overlapped, faults>>

\* The columns of the insert swapped.
LinkSwapped(c) ==
  /\ op[c].pc = "linking"
  /\ links' = links \cup (op[c].chosen \X {op[c].package})
  /\ Becomes(c, Idle)
  /\ UNCHANGED <<world, status, reference, accepted, metered, told, minted, overlapped, faults>>

LinkVouchers(c) ==
  /\ op[c].pc = "linking"
  /\ links' = links \cup ({op[c].package} \X op[c].chosen)
  /\ Becomes(c, Idle)
  /\ UNCHANGED <<world, status, reference, accepted, metered, told, minted, overlapped, faults>>

-----------------------------------------------------------------------------
(* generateDdsPackageArtifacts                                             *)

\* A tenure document awaits review or failed, or evidence was rejected.
Flagged(p) == In(p) \cap flagged # {}

\* The rule RULE-MISSING-VOUCHERS dropped.
BlockedIfFlagged(p) == Flagged(p)

\* evaluateDdsPackageReadiness: status "blocked"; warnings block nothing.
Blocked(p) == In(p) = {} \/ Flagged(p)

Preflight(c) ==
  /\ op[c] = Idle
  /\ \E p \in Packages :
       /\ status[p] # "none" /\ ~Blocked(p)
       /\ Becomes(c, [pc |-> "generating", package |-> p])
  /\ UNCHANGED <<world, tables, told, minted, overlapped, faults>>

\* Whatever the status has become, or already was.
MarkGenerated(c) ==
  /\ op[c].pc = "generating"
  /\ status' = [status EXCEPT ![op[c].package] = "package_generated"]
  /\ Becomes(c, Idle)
  /\ UNCHANGED <<world, links, reference, accepted, metered, told, minted, overlapped, faults>>

-----------------------------------------------------------------------------
(* submitDdsPackage                                                        *)

Outcome(p, k, ref) == [package |-> p, key |-> k, ref |-> ref]

\* The latest audit row of this package and key, if any.
Prior(p, k) == {accepted[<<p, k>>]} \ {NoReference}

\* A prior outcome is returned as it is, and appended to the audit log again.
Submit(c) ==
  /\ op[c] = Idle
  /\ \E p \in Packages, k \in Keys :
       /\ status[p] # "none"
       /\ \/ /\ Prior(p, k) = {}
             /\ Becomes(c, [pc |-> "starting", package |-> p, key |-> k])
             /\ told' = told
          \/ /\ \E ref \in Prior(p, k) : told' = told \cup {Outcome(p, k, ref)}
             /\ op' = op
  /\ UNCHANGED <<world, tables, minted, overlapped, faults>>

\* A reference made up although there is one.
MintReference(p) == minted + 1

\* inflightRes.rows[0].traces_reference ?? `TRACES-${random}`
ReferenceFor(p) == IF reference[p] = NoReference THEN minted + 1 ELSE reference[p]

MarkInflight(c) ==
  /\ op[c].pc = "starting"
  /\ LET p == op[c].package
         ref == ReferenceFor(p)
     IN /\ ref \in References
        /\ minted' = IF ref > minted THEN ref ELSE minted
        /\ status' = [status EXCEPT ![p] = "submission_inflight"]
        /\ overlapped' = overlapped \cup
             {q \in {p} : \E d \in Clients : op[d].pc = "recording" /\ op[d].package = q}
        /\ Becomes(c, [pc |-> "recording", package |-> p, key |-> op[c].key, ref |-> ref])
  /\ UNCHANGED <<world, links, reference, accepted, metered, told, faults>>

RecordSubmitted(c) ==
  /\ op[c].pc = "recording"
  /\ status' = [status EXCEPT ![op[c].package] = "submitted"]
  /\ reference' = [reference EXCEPT ![op[c].package] = op[c].ref]
  /\ Becomes(c, [op[c] EXCEPT !.pc = "accepting"])
  /\ UNCHANGED <<world, links, accepted, metered, told, minted, overlapped, faults>>

\* The audit row may fail to be written, and nobody learns of it.
AppendAccepted(c) ==
  /\ op[c].pc = "accepting"
  /\ LET o == op[c]
     IN /\ \/ /\ accepted' = [accepted EXCEPT ![<<o.package, o.key>>] = o.ref]
              /\ faults' = faults
           \/ accepted' = accepted /\ Fault
        /\ IF o.key \in DestinationKeys
             THEN Becomes(c, [o EXCEPT !.pc = "metering"]) /\ told' = told
             ELSE Becomes(c, Idle) /\ told' = told \cup {Outcome(o.package, o.key, o.ref)}
  /\ UNCHANGED <<world, status, links, reference, metered, minted, overlapped>>

\* "Destination DDS submit requires a sealed upstream shipment."
Meter(c) ==
  /\ op[c].pc = "metering"
  /\ LET o == op[c]
     IN IF o.package \in sealed
          THEN /\ metered' = metered \cup {o.package}
               /\ told' = told \cup {Outcome(o.package, o.key, o.ref)}
          ELSE metered' = metered /\ told' = told
  /\ Becomes(c, Idle)
  /\ UNCHANGED <<world, status, links, reference, accepted, minted, overlapped, faults>>

-----------------------------------------------------------------------------
\* A query fails or the server stops: the statements made so far remain.
RequestFails(c) ==
  /\ op[c] # Idle /\ Fault
  /\ Becomes(c, Idle)
  /\ UNCHANGED <<world, tables, told, minted, overlapped>>

\* A reviewer settles a tenure document, or a parser or reviewer objects to one.
Review ==
  /\ \E v \in Vouchers : flagged' = IF v \in flagged THEN flagged \ {v} ELSE flagged \cup {v}
  /\ UNCHANGED <<verified, sealed, tables, op, told, minted, overlapped, faults>>

\* validateShipmentDeclaredWeight: the packages together weigh something.
WeightCovered(packages) == \E p \in packages : In(p) # {}

SealShipment ==
  /\ \E packages \in SUBSET Packages :
       WeightCovered(packages) /\ sealed' = sealed \cup packages
  /\ UNCHANGED <<verified, flagged, tables, op, told, minted, overlapped, faults>>

Request(c) ==
  \/ CheckVouchers(c) \/ InsertPackage(c) \/ LinkVouchers(c)
  \/ Preflight(c) \/ MarkGenerated(c)
  \/ Submit(c) \/ MarkInflight(c) \/ RecordSubmitted(c) \/ AppendAccepted(c) \/ Meter(c)
  \/ RequestFails(c)

Next == Review \/ SealShipment \/ \E c \in Clients : Request(c)

Spec == Init /\ [][Next]_vars

-----------------------------------------------------------------------------
(* Properties                                                              *)

(* A reference told to an operator is the one the package keeps, across    *)
(* retries under any key, failures between the statements, lost audit rows *)
(* and generating again.  Only a submission that started before an earlier *)
(* one had recorded its reference can replace it.                          *)
ReferenceIsStable ==
  \A o \in told : o.package \notin overlapped => o.ref = reference[o.package]

(* No artifacts are generated for a package left empty by a creation that  *)
(* failed half way, nor for one whose vouchers are not linked yet.  (It    *)
(* can still be submitted: a submission runs no preflight.)                *)
EmptyNotGenerated ==
  \A p \in Packages : In(p) = {} => status[p] # "package_generated"
=============================================================================
