-------------------------- MODULE PendingSyncTable --------------------------
(***************************************************************************)
(* The SQLite table pending_sync of the field app: its rows and the pure   *)
(* part of the operations on it (features/state/persistence.native.ts and  *)
(* features/sync/pendingSyncDedup.ts).  A row stands for one logical       *)
(* upload, named by its dedup key; `at` is its createdAt, which a caller   *)
(* may date back to when the field work was recorded.                      *)
(***************************************************************************)
EXTENDS Naturals, FiniteSets

\* loadPendingSyncActions() and the eviction order by createdAt, then id.
Older(r, s) == r.at < s.at \/ (r.at = s.at /\ r.id < s.id)

\* Array.find over the loaded rows: the oldest row of the key, if any.
FirstMatch(rows, key) ==
  {r \in rows : r.key = key /\ \A s \in rows : s.key = key => s = r \/ Older(r, s)}

WithoutIds(rows, ids) == {r \in rows : r.id \notin ids}

MarkAttempt(rows, id, attempts) ==
  {IF r.id = id THEN [r EXCEPT !.attempts = attempts] ELSE r : r \in rows}

\* The oldest rows, as many as there are more than `cap`.
OverflowRows(rows, cap) ==
  {r \in rows : Cardinality({s \in rows : s = r \/ Older(r, s)}) > cap}

\* choosePendingSyncKeeper(): r is kept rather than s.
Keeps(r, s) ==
  \/ r.attempts > s.attempts
  \/ r.attempts = s.attempts /\ Older(s, r)

\* planPendingSyncCompaction(): every row but the keeper of its key.
DeleteRows(rows) == {r \in rows : \E s \in rows : s.key = r.key /\ Keeps(s, r)}

\* An insertion's HLC exceeds that of the newest row present, so the drain's
\* order by hlcTimestamp is the order of the ids.
NextInLine(rows) == {r \in rows : \A s \in rows : r.id <= s.id}
=============================================================================
