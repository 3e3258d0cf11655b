-------------------------- MODULE MCConsentGrants --------------------------
(* Small instances of ConsentGrants for TLC.                               *)
EXTENDS ConsentGrants, TLC

\* Requests of the organisation, and packages, are told apart by nothing.
Alike == Permutations(Requesters) \cup Permutations(Packages)
=============================================================================
