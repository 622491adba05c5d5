-------------------------- MODULE MCOrderInventory --------------------------
(***************************************************************************)
(* Instances of OrderInventory small enough for TLC.                       *)
(***************************************************************************)
EXTENDS OrderInventory, TLC

CONSTANTS c1, c2, s1, s2, s3, t1, t2, w1, w2, q1, q2

\* Two open sessions on one cart, a third on another cart of the same store.
OneStore == (c1 :> t1) @@ (c2 :> t1)
TwoStores == (c1 :> t1) @@ (c2 :> t2)
SharedCart == (s1 :> c1) @@ (s2 :> c1) @@ (s3 :> c2)
OwnCarts == (s1 :> c1) @@ (s3 :> c2)

\* Listing 1 can be served by both snapshots, listing 2 by the first only, so
\* the two lines of a cart meet on one snapshot.
Overlapping == (1 :> {1, 2}) @@ (2 :> {1})
TwoOnOne == (1 :> 2) @@ (2 :> 1)

RestockOrShrink == {-1, 1}
NoAdjustment == {}
=============================================================================
