--------------------------- MODULE MCStoreDomains ---------------------------
(***************************************************************************)
(* Instances of StoreDomains small enough for TLC.                         *)
(***************************************************************************)
EXTENDS StoreDomains, TLC

CONSTANTS p, c1, c2, t, s1, s2, s3

OneStore == [d \in Domain |-> t]

=============================================================================
