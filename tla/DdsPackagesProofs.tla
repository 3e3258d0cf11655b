------------------------- MODULE DdsPackagesProofs -------------------------
(***************************************************************************)
(* That a package keeps the reference operators were told, and that no     *)
(* empty package has artifacts, for any vouchers, keys, clients, packages, *)
(* references and faults.                                                  *)
(***************************************************************************)
EXTENDS DdsPackages, TLAPS

(* What a request remembers at each of its stages.                         *)
Creations == [pc : {"creating"}, chosen : (SUBSET Vouchers) \ {{}}]
Linkings == [pc : {"linking"}, package : Packages, chosen : (SUBSET Vouchers) \ {{}}]
Generations == [pc : {"generating"}, package : Packages]
Starts == [pc : {"starting"}, package : Packages, key : Keys]
Submissions == [pc : {"recording", "accepting", "metering"}, package : Packages,
                key : Keys, ref : References]
Requests == {Idle} \cup Creations \cup Linkings \cup Generations \cup Starts \cup Submissions

TypeInv == TypeOK /\ op \in [Clients -> Requests]

(* Who is between minting a reference and recording it, for a package.     *)
Recording(c, p) == op[c].pc = "recording" /\ op[c].package = p

(* The submissions of a package that did not overlap agree on its          *)
(* reference once it has one; before, nobody has recorded or told any.     *)
AgreedOn(p) ==
  /\ \A c, d \in Clients : Recording(c, p) /\ Recording(d, p) => c = d
  /\ \A c \in Clients :
       Recording(c, p) /\ reference[p] # NoReference => op[c].ref = reference[p]
  /\ \A c \in Clients :
       op[c].pc \in {"accepting", "metering"} /\ op[c].package = p => op[c].ref = reference[p]
  /\ \A k \in Keys : accepted[<<p, k>>] \in {NoReference, reference[p]}
  /\ \A o \in told : o.package = p => o.ref = reference[p]

ReferenceInv == \A p \in Packages \ overlapped : AgreedOn(p)

(* A package has vouchers from the preflight on.                           *)
FilledInv ==
  /\ EmptyNotGenerated
  /\ \A c \in Clients : op[c].pc = "generating" => In(op[c].package) # {}

IInv == TypeInv /\ ReferenceInv /\ FilledInv

-----------------------------------------------------------------------------
(* What a request is at a stage follows from the stage.                    *)
LEMMA StageShape ==
  ASSUME TypeInv, NEW c \in Clients
  PROVE  /\ op[c] \in Requests
         /\ op[c].pc = "creating" => op[c] \in Creations
         /\ op[c].pc = "linking" => op[c] \in Linkings
         /\ op[c].pc = "generating" => op[c] \in Generations
         /\ op[c].pc = "starting" => op[c] \in Starts
         /\ op[c].pc \in {"recording", "accepting", "metering"} => op[c] \in Submissions
  BY DEF TypeInv, Requests, Idle, Creations, Linkings, Generations, Starts, Submissions

LEMMA StageOf ==
  ASSUME NEW o \in Requests
  PROVE  o.pc \in {"idle", "creating", "linking", "generating",
                   "starting", "recording", "accepting", "metering"}
  BY DEF Requests, Idle, Creations, Linkings, Generations, Starts, Submissions

(* One client goes on, the others stay where they are.                     *)
LEMMA Moved ==
  ASSUME TypeInv, NEW c \in Clients, NEW next \in Requests, Becomes(c, next)
  PROVE  /\ op' \in [Clients -> Requests]
         /\ DOMAIN op' = Clients
         /\ \A d \in Clients : op'[d] = IF d = c THEN next ELSE op[d]
         /\ \A d \in Clients : op'[d].pc \in {"idle", "creating", "linking", "generating",
                                 "starting", "recording", "accepting", "metering"}
  BY StageOf DEF TypeInv, Becomes

(* A step that brings no submission further leaves references agreed.      *)
LEMMA AgreementKept ==
  ASSUME TypeInv, ReferenceInv, NEW c \in Clients, NEW next \in Requests, Becomes(c, next),
         next.pc \notin {"recording", "accepting", "metering"},
         UNCHANGED <<reference, accepted, told, overlapped>>
  PROVE  ReferenceInv'
  <1>. SUFFICES ASSUME NEW p \in Packages \ overlapped PROVE AgreedOn(p)'
    BY DEF ReferenceInv
  <1>. QED
    BY Moved DEF ReferenceInv, AgreedOn, Recording

LEMMA FilledKept ==
  ASSUME TypeInv, FilledInv, NEW c \in Clients, NEW next \in Requests, Becomes(c, next),
         next.pc # "generating", links \subseteq links',
         \A p \in Packages : status'[p] = "package_generated" => status[p] = "package_generated"
  PROVE  FilledInv'
  BY Moved DEF FilledInv, EmptyNotGenerated, In

(* Only the environment moves.                                             *)
LEMMA RequestsRest ==
  ASSUME IInv, UNCHANGED <<tables, op, told, minted, overlapped, faults>>,
         flagged' \subseteq Vouchers, sealed' \subseteq Packages, UNCHANGED verified
  PROVE  IInv'
  <1>. USE DEF tables
  <1>1. TypeInv'
    BY DEF IInv, TypeInv, TypeOK
  <1>2. ReferenceInv'
    BY DEF IInv, ReferenceInv, AgreedOn, Recording
  <1>3. FilledInv'
    BY DEF IInv, FilledInv, EmptyNotGenerated, In
  <1>. QED
    BY <1>1, <1>2, <1>3 DEF IInv

-----------------------------------------------------------------------------
(* createDdsPackage and generateDdsPackageArtifacts                        *)

LEMMA CheckVouchersKeeps ==
  ASSUME IInv, NEW c \in Clients, CheckVouchers(c)
  PROVE  IInv'
  <1>1. PICK chosen \in (SUBSET verified) \ {{}} :
          Becomes(c, [pc |-> "creating", chosen |-> chosen])
    BY DEF CheckVouchers
  <1>. DEFINE next == [pc |-> "creating", chosen |-> chosen]
  <1>2. next \in Requests /\ next.pc = "creating"
    BY DEF Requests, Creations, IInv, TypeInv, TypeOK
  <1>3. UNCHANGED <<world, tables, told, minted, overlapped, faults>>
    BY DEF CheckVouchers
  <1>. HIDE DEF next
  <1>4. TypeInv'
    BY <1>1, <1>2, <1>3, Moved DEF next, IInv, TypeInv, TypeOK, world, tables
  <1>5. ReferenceInv'
    BY <1>1, <1>2, <1>3, AgreementKept DEF next, IInv, tables
  <1>6. FilledInv'
    BY <1>1, <1>2, <1>3, FilledKept DEF next, IInv, tables
  <1>. QED
    BY <1>4, <1>5, <1>6 DEF IInv

LEMMA InsertPackageKeeps ==
  ASSUME IInv, NEW c \in Clients, InsertPackage(c)
  PROVE  IInv'
  <1>1. PICK p \in Packages :
          /\ status' = [status EXCEPT ![p] = "draft"]
          /\ Becomes(c, [pc |-> "linking", package |-> p, chosen |-> op[c].chosen])
    BY DEF InsertPackage
  <1>. DEFINE next == [pc |-> "linking", package |-> p, chosen |-> op[c].chosen]
  <1>2. next \in Requests /\ next.pc = "linking"
    <2>1. op[c] \in Creations
      BY StageShape DEF InsertPackage, IInv
    <2>. QED
      BY <2>1 DEF Requests, Creations, Linkings
  <1>3. UNCHANGED <<world, links, reference, accepted, metered, told, minted, overlapped, faults>>
    BY DEF InsertPackage
  <1>. HIDE DEF next
  <1>4. /\ status' \in [Packages -> Statuses]
        /\ \A q \in Packages : status'[q] = IF q = p THEN "draft" ELSE status[q]
    BY <1>1 DEF IInv, TypeInv, TypeOK, Statuses
  <1>5. TypeInv'
    BY <1>1, <1>2, <1>3, <1>4, Moved DEF next, IInv, TypeInv, TypeOK, world
  <1>6. ReferenceInv'
    BY <1>1, <1>2, <1>3, AgreementKept DEF next, IInv
  <1>7. FilledInv'
    BY <1>1, <1>2, <1>3, <1>4, FilledKept DEF next, IInv
  <1>. QED
    BY <1>5, <1>6, <1>7 DEF IInv

LEMMA LinkVouchersKeeps ==
  ASSUME IInv, NEW c \in Clients, LinkVouchers(c)
  PROVE  IInv'
  <1>1. op[c] \in Linkings
    BY StageShape DEF LinkVouchers, IInv
  <1>2. links' \subseteq Packages \X Vouchers /\ links \subseteq links'
    BY <1>1 DEF LinkVouchers, Linkings, IInv, TypeInv, TypeOK
  <1>3. Idle \in Requests /\ Idle.pc = "idle"
    BY DEF Requests, Idle
  <1>4. /\ Becomes(c, Idle)
        /\ UNCHANGED <<world, status, reference, accepted, metered, told, minted, overlapped, faults>>
    BY DEF LinkVouchers
  <1>5. TypeInv'
    BY <1>2, <1>3, <1>4, Moved DEF IInv, TypeInv, TypeOK, world
  <1>6. ReferenceInv'
    BY <1>3, <1>4, AgreementKept DEF IInv
  <1>7. FilledInv'
    BY <1>2, <1>3, <1>4, FilledKept DEF IInv
  <1>. QED
    BY <1>5, <1>6, <1>7 DEF IInv

LEMMA PreflightKeeps ==
  ASSUME IInv, NEW c \in Clients, Preflight(c)
  PROVE  IInv'
  <1>1. PICK p \in Packages :
          In(p) # {} /\ Becomes(c, [pc |-> "generating", package |-> p])
    BY DEF Preflight, Blocked
  <1>. DEFINE next == [pc |-> "generating", package |-> p]
  <1>2. next \in Requests /\ next.pc = "generating" /\ next.package = p
    BY DEF Requests, Generations
  <1>3. UNCHANGED <<world, tables, told, minted, overlapped, faults>>
    BY DEF Preflight
  <1>. HIDE DEF next
  <1>4. TypeInv'
    BY <1>1, <1>2, <1>3, Moved DEF next, IInv, TypeInv, TypeOK, world, tables
  <1>5. ReferenceInv'
    BY <1>1, <1>2, <1>3, AgreementKept DEF next, IInv, tables
  <1>6. FilledInv'
    <2>1. Becomes(c, next) /\ TypeInv /\ FilledInv
      BY <1>1 DEF next, IInv
    <2>2. \A d \in Clients : op'[d] = IF d = c THEN next ELSE op[d]
      BY <1>2, <2>1, Moved
    <2>. QED
      BY <1>1, <1>2, <1>3, <2>1, <2>2 DEF FilledInv, EmptyNotGenerated, In, tables
  <1>. QED
    BY <1>4, <1>5, <1>6 DEF IInv

LEMMA MarkGeneratedKeeps ==
  ASSUME IInv, NEW c \in Clients, MarkGenerated(c)
  PROVE  IInv'
  <1>1. op[c] \in Generations /\ In(op[c].package) # {}
    BY StageShape DEF MarkGenerated, IInv, FilledInv
  <1>2. Idle \in Requests /\ Idle.pc = "idle"
    BY DEF Requests, Idle
  <1>3. /\ Becomes(c, Idle)
        /\ UNCHANGED <<world, links, reference, accepted, metered, told, minted, overlapped, faults>>
    BY DEF MarkGenerated
  <1>4. /\ status' \in [Packages -> Statuses]
        /\ \A q \in Packages :
             status'[q] = IF q = op[c].package THEN "package_generated" ELSE status[q]
    BY <1>1 DEF MarkGenerated, Generations, IInv, TypeInv, TypeOK, Statuses
  <1>5. TypeInv'
    BY <1>2, <1>3, <1>4, Moved DEF IInv, TypeInv, TypeOK, world
  <1>6. ReferenceInv'
    BY <1>2, <1>3, AgreementKept DEF IInv
  <1>7. FilledInv'
    <2>1. \A d \in Clients : op'[d] = IF d = c THEN Idle ELSE op[d]
      BY <1>2, <1>3, Moved DEF IInv
    <2>. QED
      BY <1>1, <1>2, <1>3, <1>4, <2>1 DEF IInv, FilledInv, EmptyNotGenerated, In
  <1>. QED
    BY <1>5, <1>6, <1>7 DEF IInv

-----------------------------------------------------------------------------
(* submitDdsPackage                                                        *)

LEMMA SubmitKeeps ==
  ASSUME IInv, NEW c \in Clients, Submit(c)
  PROVE  IInv'
  <1>1. PICK p \in Packages, k \in Keys :
          \/ /\ Becomes(c, [pc |-> "starting", package |-> p, key |-> k])
             /\ told' = told
          \/ /\ \E ref \in Prior(p, k) : told' = told \cup {Outcome(p, k, ref)}
             /\ op' = op
    BY DEF Submit
  <1>2. UNCHANGED <<world, tables, minted, overlapped, faults>>
    BY DEF Submit
  <1>3. CASE Becomes(c, [pc |-> "starting", package |-> p, key |-> k]) /\ told' = told
    <2>. DEFINE next == [pc |-> "starting", package |-> p, key |-> k]
    <2>1. next \in Requests /\ next.pc = "starting"
      BY DEF Requests, Starts
    <2>. HIDE DEF next
    <2>2. TypeInv'
      BY <1>2, <1>3, <2>1, Moved DEF next, IInv, TypeInv, TypeOK, world, tables
    <2>3. ReferenceInv'
      BY <1>2, <1>3, <2>1, AgreementKept DEF next, IInv, tables
    <2>4. FilledInv'
      BY <1>2, <1>3, <2>1, FilledKept DEF next, IInv, tables
    <2>. QED
      BY <2>2, <2>3, <2>4 DEF IInv
  <1>4. CASE (\E ref \in Prior(p, k) : told' = told \cup {Outcome(p, k, ref)}) /\ op' = op
    <2>1. PICK ref \in Prior(p, k) : told' = told \cup {Outcome(p, k, ref)}
      BY <1>4
    <2>2. ref = accepted[<<p, k>>] /\ ref \in References /\ ref # NoReference
      BY <2>1 DEF Prior, IInv, TypeInv, TypeOK
    <2>3. Outcome(p, k, ref) \in [package : Packages, key : Keys, ref : References]
      BY <2>2 DEF Outcome
    <2>4. TypeInv'
      BY <1>2, <1>4, <2>1, <2>3 DEF IInv, TypeInv, TypeOK, world, tables
    <2>5. ReferenceInv'
      <3>. SUFFICES ASSUME NEW q \in Packages \ overlapped PROVE AgreedOn(q)'
        BY <1>2 DEF ReferenceInv
      <3>1. AgreedOn(q)
        BY DEF IInv, ReferenceInv
      <3>2. \A o \in told' : o.package = q => o.ref = reference[q]
        BY <2>1, <2>2, <3>1 DEF AgreedOn, Outcome
      <3>. QED
        BY <1>2, <1>4, <3>1, <3>2 DEF AgreedOn, Recording, tables
    <2>6. FilledInv'
      BY <1>2, <1>4 DEF IInv, FilledInv, EmptyNotGenerated, In, tables
    <2>. QED
      BY <2>4, <2>5, <2>6 DEF IInv
  <1>. QED
    BY <1>1, <1>3, <1>4

LEMMA MarkInflightKeeps ==
  ASSUME IInv, NEW c \in Clients, MarkInflight(c)
  PROVE  IInv'
  <1>. DEFINE p == op[c].package
              ref == ReferenceFor(p)
              next == [pc |-> "recording", package |-> p, key |-> op[c].key, ref |-> ref]
  <1>1. op[c] \in Starts /\ p \in Packages /\ op[c].key \in Keys
    BY StageShape DEF MarkInflight, IInv, Starts
  <1>2. /\ ref \in References
        /\ minted' = IF ref > minted THEN ref ELSE minted
        /\ status' = [status EXCEPT ![p] = "submission_inflight"]
        /\ overlapped' = overlapped \cup {q \in {p} : \E d \in Clients : Recording(d, q)}
        /\ Becomes(c, next)
        /\ UNCHANGED <<world, links, reference, accepted, metered, told, faults>>
    BY DEF MarkInflight, Recording
  <1>3. /\ next \in Requests /\ next.pc = "recording" /\ next.package = p /\ next.ref = ref
    BY <1>1, <1>2 DEF Requests, Submissions
  <1>4. reference[p] # NoReference => ref = reference[p]
    BY DEF ReferenceFor
  <1>. HIDE DEF next, ref, p
  <1>5. \A d \in Clients : op'[d] = IF d = c THEN next ELSE op[d]
    BY <1>2, <1>3, Moved DEF IInv
  <1>6. TypeInv'
    <2>1. minted' \in 0..MaxReferences
      BY <1>2 DEF IInv, TypeInv, TypeOK, References
    <2>2. status' \in [Packages -> Statuses]
      BY <1>2 DEF IInv, TypeInv, TypeOK, Statuses
    <2>3. overlapped' \subseteq Packages
      BY <1>1, <1>2 DEF IInv, TypeInv, TypeOK
    <2>. QED
      BY <1>2, <1>3, <2>1, <2>2, <2>3, Moved DEF IInv, TypeInv, TypeOK, world
  <1>7. ReferenceInv'
    <2>. SUFFICES ASSUME NEW q \in Packages \ overlapped' PROVE AgreedOn(q)'
      BY DEF ReferenceInv
    <2>1. q \notin overlapped /\ AgreedOn(q)
      BY <1>2 DEF IInv, ReferenceInv
    <2>2. q = p => \A d \in Clients : ~Recording(d, q)
      BY <1>2
    <2>3. \A d \in Clients : Recording(d, q)' <=> (d = c /\ q = p) \/ (d # c /\ Recording(d, q))
      BY <1>3, <1>5 DEF Recording
    <2>4. \A d, e \in Clients : Recording(d, q)' /\ Recording(e, q)' => d = e
      BY <2>1, <2>2, <2>3 DEF AgreedOn
    <2>5. \A d \in Clients :
            Recording(d, q)' /\ reference[q] # NoReference => op'[d].ref = reference[q]
      BY <1>3, <1>4, <1>5, <2>1, <2>3 DEF AgreedOn
    <2>6. \A d \in Clients :
            op'[d].pc \in {"accepting", "metering"} /\ op'[d].package = q => op'[d].ref = reference[q]
      BY <1>3, <1>5, <2>1 DEF AgreedOn
    <2>. QED
      BY <1>2, <2>1, <2>4, <2>5, <2>6 DEF AgreedOn
  <1>8. FilledInv'
    <2>1. \A q \in Packages : status'[q] = "package_generated" => status[q] = "package_generated"
      BY <1>2 DEF IInv, TypeInv, TypeOK
    <2>. QED
      BY <1>2, <1>3, <2>1, FilledKept DEF IInv
  <1>. QED
    BY <1>6, <1>7, <1>8 DEF IInv

(* A submission that goes from one stage to a later one keeps the rest.    *)
LEMMA StageMoves ==
  ASSUME NEW o \in Submissions, NEW pc \in {"accepting", "metering"}
  PROVE  /\ [o EXCEPT !.pc = pc] \in Requests
         /\ [o EXCEPT !.pc = pc].pc = pc
         /\ [o EXCEPT !.pc = pc].package = o.package
         /\ [o EXCEPT !.pc = pc].ref = o.ref
  BY DEF Submissions, Requests

LEMMA RecordSubmittedKeeps ==
  ASSUME IInv, NEW c \in Clients, RecordSubmitted(c)
  PROVE  IInv'
  <1>1. PICK o : o = op[c] /\ o \in Submissions /\ o.pc = "recording"
    BY StageShape DEF RecordSubmitted, IInv
  <1>2. PICK next : next = [o EXCEPT !.pc = "accepting"]
    OBVIOUS
  <1>3. /\ next \in Requests /\ next.pc = "accepting"
        /\ next.package = o.package /\ next.ref = o.ref
    BY <1>1, <1>2, StageMoves
  <1>4. o.package \in Packages /\ o.ref \in References
    BY <1>1 DEF Submissions
  <1>5. /\ status' = [status EXCEPT ![o.package] = "submitted"]
        /\ reference' = [reference EXCEPT ![o.package] = o.ref]
        /\ Becomes(c, next)
        /\ UNCHANGED <<world, links, accepted, metered, told, minted, overlapped, faults>>
    BY <1>1, <1>2 DEF RecordSubmitted
  <1>6. \A d \in Clients : op'[d] = IF d = c THEN next ELSE op[d]
    BY <1>3, <1>5, Moved DEF IInv
  <1>7. /\ status' \in [Packages -> Statuses]
        /\ \A q \in Packages : status'[q] = IF q = o.package THEN "submitted" ELSE status[q]
    BY <1>5 DEF IInv, TypeInv, TypeOK, Statuses
  <1>8. /\ reference' \in [Packages -> {NoReference} \cup References]
        /\ \A q \in Packages : reference'[q] = IF q = o.package THEN o.ref ELSE reference[q]
    BY <1>4, <1>5 DEF IInv, TypeInv, TypeOK
  <1>9. TypeInv'
    BY <1>3, <1>5, <1>7, <1>8, Moved DEF IInv, TypeInv, TypeOK, world
  <1>10. ReferenceInv'
    <2>. SUFFICES ASSUME NEW q \in Packages \ overlapped PROVE AgreedOn(q)'
      BY <1>5 DEF ReferenceInv
    <2>1. AgreedOn(q)
      BY DEF IInv, ReferenceInv
    <2>2. CASE q # o.package
      BY <1>3, <1>5, <1>6, <1>8, <2>1, <2>2 DEF AgreedOn, Recording
    <2>3. CASE q = o.package
      <3>1. Recording(c, q) /\ \A d \in Clients : Recording(d, q) => d = c
        BY <1>1, <2>1, <2>3 DEF AgreedOn, Recording
      <3>2. \A d \in Clients : ~Recording(d, q)'
        BY <1>3, <1>6, <3>1 DEF Recording
      (* Who recorded or was told a reference before recorded this one. *)
      <3>3. reference[q] # NoReference => reference'[q] = reference[q]
        BY <1>1, <1>8, <2>1, <2>3, <3>1 DEF AgreedOn
      <3>4. NoReference \notin References
        BY DEF NoReference, References
      <3>5. \A d \in Clients :
              op'[d].pc \in {"accepting", "metering"} /\ op'[d].package = q
              => op'[d].ref = reference'[q]
        <4>. SUFFICES ASSUME NEW d \in Clients, d # c, op[d].pc \in {"accepting", "metering"},
                             op[d].package = q
                      PROVE  op[d].ref = reference'[q]
          BY <1>3, <1>6, <1>8, <2>3
        <4>1. op[d].ref = reference[q] /\ op[d].ref \in References
          BY <2>1, StageShape DEF AgreedOn, IInv, Submissions
        <4>. QED
          BY <3>3, <3>4, <4>1
      <3>6. \A k \in Keys : accepted[<<q, k>>] \in {NoReference, reference'[q]}
        BY <2>1, <3>3 DEF AgreedOn
      <3>7. \A t \in told : t.package = q => t.ref = reference'[q]
        BY <2>1, <3>3, <3>4 DEF AgreedOn, IInv, TypeInv, TypeOK
      <3>. QED
        BY <1>5, <3>2, <3>5, <3>6, <3>7 DEF AgreedOn
    <2>. QED
      BY <2>2, <2>3
  <1>11. FilledInv'
    BY <1>3, <1>5, <1>7, FilledKept DEF IInv
  <1>. QED
    BY <1>9, <1>10, <1>11 DEF IInv

(* A submission past its record tells what is recorded.                    *)
LEMMA TellKeeps ==
  ASSUME IInv, NEW c \in Clients, NEW next \in Requests, Becomes(c, next),
         op[c].pc \in {"accepting", "metering"},
         next = Idle \/ (next.pc = "metering" /\ next.package = op[c].package /\ next.ref = op[c].ref),
         accepted' \in {accepted, [accepted EXCEPT ![<<op[c].package, op[c].key>>] = op[c].ref]},
         told' \in {told, told \cup {Outcome(op[c].package, op[c].key, op[c].ref)}},
         UNCHANGED <<world, status, links, reference, minted, overlapped>>,
         metered' \subseteq Packages, faults' \in 0..MaxFaults
  PROVE  IInv'
  <1>1. PICK o : o = op[c] /\ o \in Submissions
    BY StageShape DEF IInv
  <1>2. o.package \in Packages /\ o.key \in Keys /\ o.ref \in References
    BY <1>1 DEF Submissions
  <1>3. \A d \in Clients : op'[d] = IF d = c THEN next ELSE op[d]
    BY Moved DEF IInv
  <1>4. Idle.pc = "idle"
    BY DEF Idle
  <1>5. /\ accepted' \in [Packages \X Keys -> {NoReference} \cup References]
        /\ \A q \in Packages, k \in Keys :
             \/ accepted'[<<q, k>>] = accepted[<<q, k>>]
             \/ q = o.package /\ accepted'[<<q, k>>] = o.ref
    BY <1>1, <1>2 DEF IInv, TypeInv, TypeOK
  <1>6. /\ told' \subseteq [package : Packages, key : Keys, ref : References]
        /\ \A t \in told' : t \in told \/ (t.package = o.package /\ t.ref = o.ref)
    BY <1>1, <1>2 DEF IInv, TypeInv, TypeOK, Outcome
  <1>7. TypeInv'
    BY <1>5, <1>6, Moved DEF IInv, TypeInv, TypeOK, world
  <1>8. ReferenceInv'
    <2>. SUFFICES ASSUME NEW q \in Packages \ overlapped PROVE AgreedOn(q)'
      BY DEF ReferenceInv
    <2>1. AgreedOn(q)
      BY DEF IInv, ReferenceInv
    <2>2. q = o.package => o.ref = reference[q]
      BY <1>1, <2>1 DEF AgreedOn
    <2>3. \A d \in Clients : Recording(d, q)' => d # c /\ Recording(d, q)
      BY <1>3, <1>4 DEF Recording
    <2>4. \A d \in Clients :
            op'[d].pc \in {"accepting", "metering"} /\ op'[d].package = q => op'[d].ref = reference[q]
      BY <1>1, <1>3, <1>4, <2>1, <2>2 DEF AgreedOn
    <2>5. \A k \in Keys : accepted'[<<q, k>>] \in {NoReference, reference[q]}
      BY <1>5, <2>1, <2>2 DEF AgreedOn
    <2>6. \A t \in told' : t.package = q => t.ref = reference[q]
      BY <1>6, <2>1, <2>2 DEF AgreedOn
    <2>7. \A d, e \in Clients : Recording(d, q)' /\ Recording(e, q)' => d = e
      BY <2>1, <2>3 DEF AgreedOn
    <2>8. \A d \in Clients :
            Recording(d, q)' /\ reference[q] # NoReference => op'[d].ref = reference[q]
      BY <1>3, <2>1, <2>3 DEF AgreedOn
    <2>. QED
      BY <2>4, <2>5, <2>6, <2>7, <2>8 DEF AgreedOn
  <1>9. FilledInv'
    BY <1>4, FilledKept DEF IInv
  <1>. QED
    BY <1>7, <1>8, <1>9 DEF IInv

LEMMA AppendAcceptedKeeps ==
  ASSUME IInv, NEW c \in Clients, AppendAccepted(c)
  PROVE  IInv'
  <1>1. PICK o : o = op[c] /\ o \in Submissions /\ o.pc = "accepting"
    BY StageShape DEF AppendAccepted, IInv
  <1>2. /\ accepted' \in {accepted, [accepted EXCEPT ![<<o.package, o.key>>] = o.ref]}
        /\ faults' \in 0..MaxFaults /\ metered' \subseteq Packages
        /\ UNCHANGED <<world, status, links, reference, minted, overlapped>>
    BY <1>1, BoundsAssumption DEF AppendAccepted, Fault, IInv, TypeInv, TypeOK
  <1>3. CASE Becomes(c, [o EXCEPT !.pc = "metering"]) /\ told' = told
    <2>1. PICK next : next = [o EXCEPT !.pc = "metering"]
      OBVIOUS
    <2>2. /\ next \in Requests /\ next.pc = "metering"
          /\ next.package = o.package /\ next.ref = o.ref
      BY <1>1, <2>1, StageMoves
    <2>. QED
      BY <1>1, <1>2, <1>3, <2>1, <2>2, TellKeeps
  <1>4. CASE Becomes(c, Idle) /\ told' = told \cup {Outcome(o.package, o.key, o.ref)}
    <2>1. Idle \in Requests
      BY DEF Requests
    <2>. QED
      BY <1>1, <1>2, <1>4, <2>1, TellKeeps
  <1>. QED
    BY <1>1, <1>3, <1>4 DEF AppendAccepted

LEMMA MeterKeeps ==
  ASSUME IInv, NEW c \in Clients, Meter(c)
  PROVE  IInv'
  <1>1. PICK o : o = op[c] /\ o \in Submissions /\ o.pc = "metering"
    BY StageShape DEF Meter, IInv
  <1>2. o.package \in Packages /\ Idle \in Requests
    BY <1>1 DEF Submissions, Requests
  <1>3. /\ told' \in {told, told \cup {Outcome(o.package, o.key, o.ref)}}
        /\ metered' \subseteq Packages /\ faults' \in 0..MaxFaults
        /\ Becomes(c, Idle)
        /\ UNCHANGED <<world, status, links, reference, accepted, minted, overlapped>>
    BY <1>1, <1>2 DEF Meter, IInv, TypeInv, TypeOK
  <1>. QED
    BY <1>1, <1>2, <1>3, TellKeeps

LEMMA RequestFailsKeeps ==
  ASSUME IInv, NEW c \in Clients, RequestFails(c)
  PROVE  IInv'
  <1>1. Idle \in Requests /\ Idle.pc = "idle"
    BY DEF Requests, Idle
  <1>2. /\ Becomes(c, Idle) /\ faults' \in 0..MaxFaults
        /\ UNCHANGED <<world, tables, told, minted, overlapped>>
    BY BoundsAssumption DEF RequestFails, Fault, IInv, TypeInv, TypeOK
  <1>3. TypeInv'
    BY <1>1, <1>2, Moved DEF IInv, TypeInv, TypeOK, world, tables
  <1>4. ReferenceInv'
    BY <1>1, <1>2, AgreementKept DEF IInv, tables
  <1>5. FilledInv'
    BY <1>1, <1>2, FilledKept DEF IInv, tables
  <1>. QED
    BY <1>3, <1>4, <1>5 DEF IInv

-----------------------------------------------------------------------------
LEMMA InitIInv == Init => IInv
  <1>. SUFFICES ASSUME Init PROVE IInv
    OBVIOUS
  <1>1. /\ Idle \in Requests /\ Idle.pc = "idle"
        /\ \A c \in Clients : op[c] = Idle
    BY DEF Init, Requests, Idle
  <1>2. TypeInv
    BY <1>1, BoundsAssumption DEF Init, TypeInv, TypeOK, Statuses
  <1>3. ReferenceInv /\ FilledInv
    BY <1>1 DEF Init, ReferenceInv, AgreedOn, Recording, FilledInv, EmptyNotGenerated
  <1>. QED
    BY <1>2, <1>3 DEF IInv

LEMMA NextIInv == IInv /\ [Next]_vars => IInv'
  <1>. SUFFICES ASSUME IInv, [Next]_vars PROVE IInv'
    OBVIOUS
  <1>1. CASE UNCHANGED vars
    BY <1>1, RequestsRest DEF vars, world, IInv, TypeInv, TypeOK
  <1>2. CASE Review \/ SealShipment
    <2>1. /\ UNCHANGED <<tables, op, told, minted, overlapped, faults>> /\ UNCHANGED verified
          /\ flagged' \subseteq Vouchers /\ sealed' \subseteq Packages
      BY <1>2 DEF Review, SealShipment, IInv, TypeInv, TypeOK
    <2>. QED
      BY <2>1, RequestsRest
  <1>3. ASSUME NEW c \in Clients, Request(c) PROVE IInv'
    BY <1>3, CheckVouchersKeeps, InsertPackageKeeps, LinkVouchersKeeps, PreflightKeeps,
       MarkGeneratedKeeps, SubmitKeeps, MarkInflightKeeps, RecordSubmittedKeeps,
       AppendAcceptedKeeps, MeterKeeps, RequestFailsKeeps DEF Request
  <1>. QED
    BY <1>1, <1>2, <1>3 DEF Next

LEMMA Inductive == Spec => []IInv
  BY InitIInv, NextIInv, PTL DEF Spec

(* Every reachable state is well typed.                                    *)
THEOREM TypeCorrect == Spec => []TypeOK
  <1>1. IInv => TypeOK
    BY DEF IInv, TypeInv
  <1>. QED
    BY <1>1, Inductive, PTL

(* A reference told to an operator is the one the package keeps, unless a  *)
(* submission started before an earlier one had recorded its reference.    *)
THEOREM ReferenceStands == Spec => []ReferenceIsStable
  <1>1. IInv => ReferenceIsStable
    BY DEF IInv, TypeInv, TypeOK, ReferenceInv, AgreedOn, ReferenceIsStable
  <1>. QED
    BY <1>1, Inductive, PTL

(* No artifacts are generated for a package without linked vouchers.       *)
THEOREM NoEmptyPackageGenerated == Spec => []EmptyNotGenerated
  <1>1. IInv => EmptyNotGenerated
    BY DEF IInv, FilledInv
  <1>. QED
    BY <1>1, Inductive, PTL
=============================================================================
