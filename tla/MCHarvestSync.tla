--------------------------- MODULE MCHarvestSync ---------------------------
(* Small instances of HarvestSync for TLC.                                 *)
EXTENDS HarvestSync
=============================================================================
