-------------------------- MODULE MCSyncQueueMutex --------------------------
(* Small instances of SyncQueueMutex for TLC.                              *)
EXTENDS SyncQueueMutex
MCWorkPhases == {"uploading_plots"}
=============================================================================
