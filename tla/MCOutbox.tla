------------------------------ MODULE MCOutbox ------------------------------
(***************************************************************************)
(* Instances of Outbox small enough for TLC.                               *)
(***************************************************************************)
EXTENDS Outbox, TLC

CONSTANTS e1, e2, e3, p1, p2

PublisherSymmetry == Permutations({p1, p2})
=============================================================================
