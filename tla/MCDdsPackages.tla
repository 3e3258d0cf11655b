--------------------------- MODULE MCDdsPackages ---------------------------
(* Small instances of DdsPackages for TLC: the requests in progress are    *)
(* interchangeable, and the properties are safety properties.              *)
EXTENDS DdsPackages, TLC

Symmetry == Permutations(Clients)
=============================================================================
