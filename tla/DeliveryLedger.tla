--------------------------- MODULE DeliveryLedger ---------------------------
(***************************************************************************)
(* What recording a delivery promises, without queue, receipts, requests   *)
(* or pipelines.  The server keeps a ledger that only grows, with one      *)
(* entry per client event, and issues vouchers for its entries.  The phone *)
(* holds what is not in the ledger yet; a delivery the farmer was told of  *)
(* is in one of the two from then on.                                      *)
(***************************************************************************)
CONSTANTS
  Deliveries,
  Entries     \* what the server may record: records with id, event, delivery

VARIABLES
  told,       \* the deliveries the farmer was told are recorded or queued
  held,       \* the deliveries that only the phone has
  ledger,     \* the entries the server recorded
  issued      \* the ids of the entries that have a voucher

vars == <<told, held, ledger, issued>>

Entered(d) == \E x \in ledger : x.delivery = d

Init == told = {} /\ held = {} /\ ledger = {} /\ issued = {}

\* The farmer learns that a delivery is recorded, or that the phone has it.
Tell(d) ==
  /\ d \notin told /\ told' = told \cup {d}
  /\ IF Entered(d) THEN UNCHANGED held ELSE held' = held \cup {d}
  /\ UNCHANGED <<ledger, issued>>

\* The phone keeps a delivery before it says so, or once more.
Hold(d) ==
  /\ ~Entered(d) /\ held' = held \cup {d}
  /\ UNCHANGED <<told, ledger, issued>>

\* Only what the farmer was not told of may be lost.
Lose(d) ==
  /\ d \in held \ told /\ held' = held \ {d}
  /\ UNCHANGED <<told, ledger, issued>>

Record(x) ==
  /\ \A y \in ledger : y.id # x.id /\ y.event # x.event
  /\ ledger' = ledger \cup {x}
  /\ held' = held \ {x.delivery}
  /\ UNCHANGED <<told, issued>>

Issue(x) ==
  /\ x \in ledger /\ x.id \notin issued
  /\ issued' = issued \cup {x.id}
  /\ UNCHANGED <<told, held, ledger>>

Next ==
  \/ \E d \in Deliveries : Tell(d) \/ Hold(d) \/ Lose(d)
  \/ \E x \in Entries : Record(x) \/ Issue(x)

Spec == Init /\ [][Next]_vars
=============================================================================
