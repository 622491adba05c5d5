----------------------------- MODULE Quantities -----------------------------
(***************************************************************************)
(* Sums of quantities over sets of reservations or cart lines, and the     *)
(* first-fit choice of a snapshot for every line of a cart.                *)
(*                                                                         *)
(* A quantity is a number of interchangeable units, so the total of a set  *)
(* R under the quantity function q is the number of pairs <<r, i>> with r  *)
(* in R and i one of the q[r] units of r.  Written so, a sum has no        *)
(* recursion and its algebra is the algebra of cardinalities.              *)
(***************************************************************************)
EXTENDS Integers, FiniteSets

Units(R, q) == UNION {{r} \X (1 .. q[r]) : r \in R}

Quantity(R, q) == Cardinality(Units(R, q))

-----------------------------------------------------------------------------
(***************************************************************************)
(* AllocateLineSnapshot.  `lines' is the set of cart lines (listing        *)
(* identifiers, walked in ascending order), q their quantities,            *)
(* eligible[l] the candidate snapshots of l, free[n] what the locked row   *)
(* of snapshot n still offers, and alloc the snapshot chosen per line.     *)
(***************************************************************************)

\* What snapshot n offers line l once the lines before l took their share
\* (cumulativeAllocations).
Remaining(alloc, lines, q, free, l, n) ==
  free[n] - Quantity({k \in lines : k < l /\ alloc[k] = n}, q)

\* Every line takes its whole quantity from the lowest eligible snapshot that
\* can still serve it.
FirstFit(alloc, lines, q, eligible, free) ==
  \A l \in lines :
    /\ alloc[l] \in eligible[l]
    /\ Remaining(alloc, lines, q, free, l, alloc[l]) >= q[l]
    /\ \A n \in eligible[l] :
         n < alloc[l] => Remaining(alloc, lines, q, free, l, n) < q[l]

\* The demand the allocation puts on snapshot n.
Demand(alloc, lines, q, n) == Quantity({l \in lines : alloc[l] = n}, q)
=============================================================================
