------------------------------ MODULE Delivery ------------------------------
(***************************************************************************)
(* What the transactional outbox promises about an event: it reaches the   *)
(* broker only after its business transaction committed, any number of     *)
(* times, and it is settled (published_at) only after the broker has it.   *)
(* Nothing that was committed, delivered or settled is ever taken back.    *)
(***************************************************************************)
CONSTANTS Event

VARIABLES
  committed,  \* rows of outbox_events
  delivered,  \* events the broker has stored at least once
  settled     \* rows with published_at set

vars == <<committed, delivered, settled>>

Init == committed = {} /\ delivered = {} /\ settled = {}

\* Store.Enqueue, at the commit of the caller's transaction.
Commit(e) ==
  /\ e \notin committed
  /\ committed' = committed \cup {e}
  /\ UNCHANGED <<delivered, settled>>

\* RabbitPublisher.publish; a second delivery is a stuttering step.
Deliver(e) ==
  /\ e \in committed
  /\ delivered' = delivered \cup {e}
  /\ UNCHANGED <<committed, settled>>

\* Store.MarkPublished.
Settle(e) ==
  /\ e \in delivered \ settled
  /\ settled' = settled \cup {e}
  /\ UNCHANGED <<committed, delivered>>

Next == \E e \in Event : Commit(e) \/ Deliver(e) \/ Settle(e)

Spec == Init /\ [][Next]_vars
=============================================================================
