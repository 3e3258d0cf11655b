------------------------- MODULE MCPendingSyncQueue -------------------------
(* Small instances of PendingSyncQueue for TLC.                            *)
EXTENDS PendingSyncQueue
MCStamps == {1, 2}
=============================================================================
