--------------------------- MODULE MCMappingDraft ---------------------------
(* Small instances of MappingDraft for TLC.                                *)
EXTENDS MappingDraft
MCVersions == [saved |-> 2, cleared |-> 1]
=============================================================================
