----------------------------- MODULE FencedLock -----------------------------
(***************************************************************************)
(* What the sync lock promises, without queue, timers or tokens.  A call   *)
(* runs from the moment it gets the lock to its own end.  It may be        *)
(* displaced while it runs; the fence is that its end then leaves the lock *)
(* where it is.  No call gets the lock twice.                              *)
(***************************************************************************)
CONSTANTS Calls, None

VARIABLES
  holder,  \* the call that holds the lock, or None
  past,    \* the calls whose hold is over
  running  \* the calls that got the lock and have not ended

vars == <<holder, past, running>>

Init == holder = None /\ past = {} /\ running = {}

Grant(c) ==
  /\ holder = None /\ c \notin past
  /\ holder' = c
  /\ running' = running \cup {c}
  /\ UNCHANGED past

\* A newcomer takes the lock from a holder that still runs.
Displace(c) ==
  /\ holder # None /\ c \notin past \cup {holder}
  /\ holder' = c
  /\ past' = past \cup {holder}
  /\ running' = running \cup {c}

\* The holder ends, and leaves the lock free or to a call that waited.
Release ==
  /\ holder # None /\ holder \in running
  /\ holder' = None
  /\ past' = past \cup {holder}
  /\ running' = running \ {holder}

HandOver(c) ==
  /\ holder # None /\ holder \in running
  /\ c \notin past \cup {holder}
  /\ holder' = c
  /\ past' = past \cup {holder}
  /\ running' = (running \ {holder}) \cup {c}

DisplacedEnds(c) ==
  /\ c \in running /\ c # holder
  /\ running' = running \ {c}
  /\ UNCHANGED <<holder, past>>

Next ==
  \/ Release
  \/ \E c \in Calls : Grant(c) \/ Displace(c) \/ HandOver(c) \/ DisplacedEnds(c)

Spec == Init /\ [][Next]_vars
=============================================================================
