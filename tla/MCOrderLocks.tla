---------------------------- MODULE MCOrderLocks ----------------------------
(***************************************************************************)
(* An instance of OrderLocks small enough for TLC.                         *)
(***************************************************************************)
EXTENDS OrderLocks, TLC

CONSTANTS s1, s2, c1, c2, o1, t1, t2, p1, x1, x2, x3

Carts == (s1 :> c1) @@ (s2 :> c2)

\* Two stores sell the product, each from a shelf of its own, so two checkouts
\* can hold it together.
Stores == (c1 :> t1) @@ (c2 :> t2)
Goods == [c \in Cart |-> Product]
Catalog == [p \in Product |-> Store]

\* The second cart and the order meet on two snapshots; the reservations of the
\* order are in the opposite order of their snapshots.
Sources == (c1 :> {1}) @@ (c2 :> {2, 3})
Lines == [o \in Order |-> Reservation]
Places == (1 :> 3) @@ (2 :> 2)
Shown == (1 :> {t1, t2}) @@ (2 :> {t2}) @@ (3 :> {t2})
=============================================================================
