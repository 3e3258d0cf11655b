-------------------------- MODULE MCDeclarationSync --------------------------
(* Small instances of DeclarationSync for TLC.                              *)
EXTENDS DeclarationSync
MCVersions == [declared |-> 1, preferences |-> 2]
=============================================================================
