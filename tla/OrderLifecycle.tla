--------------------------- MODULE OrderLifecycle ---------------------------
(***************************************************************************)
(* What an order promises its customer and its seller, as the transition   *)
(* matrix of modules/commerce/orders.go states it: who may move an order   *)
(* from which status to which, and on which side of the confirmation       *)
(* deadline.  Stock, carts, sessions and workers are not part of it; the   *)
(* transactions that move orders are shown to implement it.                *)
(***************************************************************************)
EXTENDS Integers

CONSTANTS Order, ConfirmationDuration

OrderStatus ==
  {"none", "pending", "confirmed", "processing", "ready_for_shipping",
   "cancelled"}

\* TransitionAuthority
Authority == {"checkout", "customer", "seller", "scheduler"}

VARIABLES
  now,       \* the wall clock
  status,    \* orders.status, "none" before the order exists
  deadline,  \* orders.confirmation_deadline_at
  version,   \* orders.aggregate_version
  authority  \* who made the last transition, in order_timeline.actor_type

vars == <<now, status, deadline, version, authority>>

TypeOK ==
  /\ now \in Nat
  /\ status \in [Order -> OrderStatus]
  /\ deadline \in [Order -> Nat]
  /\ version \in [Order -> Nat]
  /\ authority \in [Order -> Authority]

Init ==
  /\ now = 0
  /\ status = [o \in Order |-> "none"]
  /\ deadline = [o \in Order |-> 0]
  /\ version = [o \in Order |-> 0]
  /\ authority = [o \in Order |-> "checkout"]

\* ValidateOrderTransition: the moves each authority may make, the deadline
\* separating a seller's confirmation from a scheduler's cancellation.
SellerMoves ==
  {<<"pending", "cancelled">>, <<"confirmed", "processing">>,
   <<"confirmed", "cancelled">>, <<"processing", "ready_for_shipping">>,
   <<"processing", "cancelled">>}

LegalTransition(from, by, to, due, at) ==
  \/ by = "seller" /\ <<from, to>> \in SellerMoves
  \/ by = "seller" /\ <<from, to>> = <<"pending", "confirmed">> /\ at < due
  \/ by = "customer" /\ <<from, to>> = <<"pending", "cancelled">>
  \/ by = "scheduler" /\ <<from, to>> = <<"pending", "cancelled">> /\ at >= due

Create(o) ==
  /\ status[o] = "none"
  /\ status' = [status EXCEPT ![o] = "pending"]
  /\ deadline' = [deadline EXCEPT ![o] = now + ConfirmationDuration]
  /\ version' = [version EXCEPT ![o] = 1]
  /\ authority' = [authority EXCEPT ![o] = "checkout"]
  /\ UNCHANGED now

Move(o, by, to) ==
  /\ LegalTransition(status[o], by, to, deadline[o], now)
  /\ status' = [status EXCEPT ![o] = to]
  /\ version' = [version EXCEPT ![o] = @ + 1]
  /\ authority' = [authority EXCEPT ![o] = by]
  /\ UNCHANGED <<now, deadline>>

Tick ==
  /\ now' = now + 1
  /\ UNCHANGED <<status, deadline, version, authority>>

Next ==
  \/ \E o \in Order :
       \/ Create(o)
       \/ \E by \in Authority, to \in OrderStatus : Move(o, by, to)
  \/ Tick

Spec == Init /\ [][Next]_vars
=============================================================================
