--------------------------- MODULE OrderInventory ---------------------------
(***************************************************************************)
(* The life of an order and of the stock behind it: carts are filled,      *)
(* checkout sessions are opened on them and finalised into orders, orders  *)
(* hold stock until a seller confirms them, a customer or a seller cancels *)
(* them, or the scheduler finds them past their confirmation deadline.     *)
(*                                                                         *)
(* One action per database transaction of modules/commerce.  A transaction *)
(* either commits all its writes or none, so a failing one is a stuttering *)
(* step; an action below is the committing path, its guard the conjunction *)
(* of the checks that would have rolled it back.  What a transaction knows *)
(* from before it waited for other rows, and what a process remembers      *)
(* between two transactions, is state of its own (`deciding', `found').    *)
(***************************************************************************)
EXTENDS Integers, FiniteSets, Sequences, Quantities

CONSTANTS
  Store, Cart, Session, Listing, Snapshot, Token, Request, Worker,
  CartStore,       \* the store a cart belongs to
  SessionCart,     \* the cart a checkout session is opened on
  Eligible,        \* the snapshots at active locations that may serve a listing
  InitialStock,    \* on-hand quantity of each snapshot when it is created
  MaxLineQuantity, \* cap of a cart line (10000 in the code)
  SessionLifetime, \* how long an open session can be finalised
  ConfirmationDuration, \* how long a pending order holds its stock
  BatchSize,       \* orders one discovery query returns at most
  NoFingerprint,
  \* Bounds of a model-checking run.
  MaxClock,        \* the clock stops here
  Adjustments,     \* quantity deltas of AdjustInventory
  MaxOnHand        \* AdjustInventory never lifts a snapshot above this

ASSUME StockAssumption ==
  /\ IsFiniteSet(Session) /\ IsFiniteSet(Listing) /\ IsFiniteSet(Token)
  /\ Listing \subseteq Nat
  /\ Snapshot \subseteq Nat \ {0}
  /\ CartStore \in [Cart -> Store]
  /\ SessionCart \in [Session -> Cart]
  /\ Eligible \in [Listing -> SUBSET Snapshot]
  /\ InitialStock \in [Snapshot -> Nat]
  /\ Token \cap (Session \X Listing) = {}

ASSUME NumberAssumption ==
  /\ MaxLineQuantity \in Nat \ {0}
  /\ SessionLifetime \in Nat \ {0}
  /\ ConfirmationDuration \in Nat \ {0}
  /\ BatchSize \in Nat \ {0}
  /\ MaxClock \in Nat /\ MaxOnHand \in Nat
  /\ Adjustments \subseteq Int \ {0}

VARIABLES
  clock,        \* clock_timestamp() of the database
  carts,        \* rows of carts with their cart_items
  sessions,     \* rows of checkout_sessions
  deciding,     \* sessions whose FinalizeCheckout holds its session and cart
                \* locks, the session rules already decided
  orders,       \* rows of orders; an order is named by its unique session
  reservations, \* rows of inventory_reservations
  onHand, reserved,  \* columns of inventory_snapshots
  movements,    \* totals of inventory_movements.quantity_delta per type
  sequence,     \* store_order_sequences: the last number issued, 0 for none
  history,      \* rows an order has in order_timeline and outbox_events
  found,        \* what each expiry worker holds from its discovery query
  answered      \* the (session, request) pairs a caller was told succeeded

vars == <<clock, carts, sessions, deciding, orders, reservations, onHand,
          reserved, movements, sequence, history, found, answered>>

cartVars == <<carts, sessions, deciding, answered>>
orderVars == <<orders, sequence, history>>
stockVars == <<reservations, onHand, reserved, movements>>

-----------------------------------------------------------------------------
(* Rows *)

\* An order line owns exactly one reservation; Token names the reservations
\* taken outside any order.
ResId == (Session \X Listing) \cup Token

\* The lines of a cart: a quantity per (seller_listing, sku), 0 for no line.
Items == [Listing -> 0 .. MaxLineQuantity]

OrderStatus ==
  {"none", "pending", "confirmed", "processing", "ready_for_shipping",
   "cancelled"}

ReservationStatus == {"none", "held", "consumed", "released", "expired"}

Actor == {"checkout", "customer", "seller", "scheduler"}

CartRow == [status : {"none", "active", "checked_out"}, items : Items]

SessionRow == [status : {"none", "open", "finalized"}, expires : Nat,
               fingerprint : (Request \X Items) \cup {NoFingerprint}]

OrderRow == [status : OrderStatus, number : Nat, deadline : Nat, version : Nat]

Reservation == [status : ReservationStatus, snapshot : Snapshot \cup {0},
                quantity : Nat, expires : Nat]

\* The movement types whose quantity_delta is not zero.
MovementTotals ==
  [adjustment : Int, reservation_consumed : Int,
   order_cancellation_restock : Int]

HistoryRow ==
  [version : Nat, from : OrderStatus, to : OrderStatus, actor : Actor,
   at : Nat]

NoCart == [status |-> "none", items |-> [l \in Listing |-> 0]]
NoSession ==
  [status |-> "none", expires |-> 0, fingerprint |-> NoFingerprint]
NoOrder == [status |-> "none", number |-> 0, deadline |-> 0, version |-> 0]
NoReservation ==
  [status |-> "none", snapshot |-> 0, quantity |-> 0, expires |-> 0]
NoMovement ==
  [adjustment |-> 0, reservation_consumed |-> 0,
   order_cancellation_restock |-> 0]

Init ==
  /\ clock = 0
  /\ carts = [c \in Cart |-> NoCart]
  /\ sessions = [s \in Session |-> NoSession]
  /\ deciding = {}
  /\ orders = [s \in Session |-> NoOrder]
  /\ reservations = [r \in ResId |-> NoReservation]
  /\ onHand = InitialStock
  /\ reserved = [n \in Snapshot |-> 0]
  /\ movements = [n \in Snapshot |-> NoMovement]
  /\ sequence = [t \in Store |-> 0]
  /\ history = [s \in Session |-> <<>>]
  /\ found = [w \in Worker |-> {}]
  /\ answered = {}

-----------------------------------------------------------------------------
(* Carts.  Every operation on an existing cart locks its row first. *)

\* Mutant: the cart row is read without FOR UPDATE.
NoCartLock(c) == FALSE

CartLocked(c) == \E s \in deciding : SessionCart[s] = c

CartOpen(c) == carts[c].status = "active"

CreateCart(c) ==
  /\ carts[c].status = "none"
  /\ carts' = [carts EXCEPT ![c].status = "active"]
  /\ UNCHANGED <<clock, sessions, deciding, answered, orderVars, stockVars,
                 found>>

SetLine(c, l, k) ==
  /\ ~CartLocked(c)
  /\ CartOpen(c)
  /\ carts' = [carts EXCEPT ![c].items[l] = k]
  /\ UNCHANGED <<clock, sessions, deciding, answered, orderVars, stockVars,
                 found>>

AddCartItem(c, l, k) ==
  /\ k > 0
  /\ carts[c].items[l] + k <= MaxLineQuantity
  /\ SetLine(c, l, carts[c].items[l] + k)

UpdateCartItemQuantity(c, l, k) ==
  /\ k > 0
  /\ carts[c].items[l] > 0
  /\ SetLine(c, l, k)

RemoveCartItem(c, l) ==
  /\ carts[c].items[l] > 0
  /\ SetLine(c, l, 0)

\* A cart may have several open sessions.
CreateCheckoutSession(s) ==
  /\ sessions[s].status = "none"
  /\ ~CartLocked(SessionCart[s])
  /\ carts[SessionCart[s]].status = "active"
  /\ sessions' = [sessions EXCEPT ![s].status = "open",
                                  ![s].expires = clock + SessionLifetime]
  /\ UNCHANGED <<clock, carts, deciding, answered, orderVars, stockVars, found>>

-----------------------------------------------------------------------------
(* Checkout *)

LinesOf(items) == {l \in Listing : items[l] > 0}

Available(n) == onHand[n] - reserved[n]

\* The session and cart rules, decided once both rows are locked.
CanFinalize(s) ==
  /\ sessions[s].status = "open"
  /\ carts[SessionCart[s]].status = "active"
  /\ clock < sessions[s].expires

\* First half of FinalizeCheckout: lock session and cart, read the clock,
\* decide, load the items.  What follows waits for the snapshot rows.
DecideCheckout(s) ==
  /\ ~CartLocked(SessionCart[s])
  /\ CanFinalize(s)
  /\ LinesOf(carts[SessionCart[s]].items) # {}
  /\ deciding' = deciding \cup {s}
  /\ UNCHANGED <<clock, carts, sessions, answered, orderVars, stockVars, found>>

\* Rollback: the listing changed, stock is short, the request is malformed, the
\* connection broke.
AbortCheckout(s) ==
  /\ s \in deciding
  /\ deciding' = deciding \ {s}
  /\ UNCHANGED <<clock, carts, sessions, answered, orderVars, stockVars, found>>

\* Mutant: the upsert of the sequence does nothing on conflict.
StuckOrderNumber(t) == IF sequence[t] = 0 THEN 1 ELSE sequence[t]

\* Numbers count from 1 here, from #100001 in the table.
NextOrderNumber(t) == sequence[t] + 1

\* The semantic request a session was finalised with.
Fingerprint(q, items) == <<q, items>>

\* Mutant: the reservations expire with the session, not with the order.
HoldLinesForSession(s, lines, alloc, items, deadline) ==
  [r \in ResId |->
     IF r \in {s} \X lines
     THEN [status |-> "held", snapshot |-> alloc[r[2]],
           quantity |-> items[r[2]], expires |-> sessions[s].expires]
     ELSE reservations[r]]

\* The reservation rows written for the lines of session s: one held
\* reservation per line, all expiring at the order's deadline.
HoldLines(s, lines, alloc, items, deadline) ==
  [r \in ResId |->
     IF r \in {s} \X lines
     THEN [status |-> "held", snapshot |-> alloc[r[2]],
           quantity |-> items[r[2]], expires |-> deadline]
     ELSE reservations[r]]

\* createOrderExec; the items and the address of an order never change.
CreatedOrder(t, deadline) ==
  [status |-> "pending", number |-> NextOrderNumber(t), deadline |-> deadline,
   version |-> 1]

\* What a new order has in its timeline and in the outbox.
OrderCreated ==
  [version |-> 1, from |-> "none", to |-> "pending", actor |-> "checkout",
   at |-> clock]

\* Mutant: the cart stays active after its checkout.
LeaveCartOpen(c) == carts

CloseCart(c) == [carts EXCEPT ![c].status = "checked_out"]

\* Second half, up to the commit: with the candidate snapshots locked, allocate
\* the lines and the number, hold the stock, insert the order with its first
\* timeline row and OrderCreated event, finalise the session, close the cart.
FinalizeCheckout(s, q) ==
  LET c == SessionCart[s]
      t == CartStore[c]
      items == carts[c].items
      lines == LinesOf(items)
      free == [n \in Snapshot |-> Available(n)]
      deadline == clock + ConfirmationDuration
  IN
  /\ s \in deciding
  /\ sessions[s].status = "open"
  /\ carts[c].status = "active"
  /\ \E alloc \in [lines -> Snapshot] :
       LET taken == [n \in Snapshot |-> Demand(alloc, lines, items, n)] IN
       /\ FirstFit(alloc, lines, items, Eligible, free)
       \* HoldReservation looks at the row again before it takes the stock.
       /\ \A n \in Snapshot : taken[n] > 0 => taken[n] <= Available(n)
       /\ reserved' = [n \in Snapshot |-> reserved[n] + taken[n]]
       /\ reservations' = HoldLines(s, lines, alloc, items, deadline)
  /\ sequence' = [sequence EXCEPT ![t] = NextOrderNumber(t)]
  /\ orders' = [orders EXCEPT ![s] = CreatedOrder(t, deadline)]
  /\ history' = [history EXCEPT ![s] = <<OrderCreated>>]
  /\ sessions' = [sessions EXCEPT ![s].status = "finalized",
                                  ![s].fingerprint = Fingerprint(q, items)]
  /\ carts' = CloseCart(c)
  /\ deciding' = deciding \ {s}
  /\ answered' = answered \cup {<<s, q>>}
  /\ UNCHANGED <<clock, onHand, movements, found>>

\* Mutant: a finalised session answers every request with its order.
AnyFingerprint(s, q) == sessions[s].fingerprint # NoFingerprint

\* A retry of a finalised session: the fingerprint decides between the
\* existing order and ErrIdempotencyConflict.
MatchesFingerprint(s, q) ==
  sessions[s].fingerprint = Fingerprint(q, carts[SessionCart[s]].items)

ReplayFinalize(s, q) ==
  /\ ~CartLocked(SessionCart[s])
  /\ sessions[s].status = "finalized"
  /\ carts[SessionCart[s]].status = "checked_out"
  /\ MatchesFingerprint(s, q)
  /\ answered' = answered \cup {<<s, q>>}
  /\ UNCHANGED <<clock, carts, sessions, deciding, orderVars, stockVars, found>>

-----------------------------------------------------------------------------
(* Order transitions.  Each locks the order row, reads the clock, locks the *)
(* linked snapshots and reservations, fails closed on anything unexpected,  *)
(* and writes stock, reservations, order, timeline and event together.  The *)
(* order row is held from the decision to the commit and an order's         *)
(* reservations change under it only, so one action at the decision stands  *)
(* for the transaction.                                                     *)

Linked(s) == {r \in {s} \X Listing : reservations[r].status # "none"}

QuantityOf == [r \in ResId |-> reservations[r].quantity]

\* Mutant: the map entry of a snapshot is overwritten, not added to.
AggregateLast(s, n) ==
  LET here == {r \in Linked(s) : reservations[r].snapshot = n} IN
  IF here = {} THEN 0 ELSE QuantityOf[CHOOSE r \in here : TRUE]

\* AggregateReservationsBySnapshot: what the order's reservations take from n.
Aggregate(s, n) ==
  Quantity({r \in Linked(s) : reservations[r].snapshot = n}, QuantityOf)

\* Mutant: the check of a confirmation, that no reservation is past its expiry,
\* made part of every transition.
AllLinkedUnexpired(s, status) ==
  \A r \in Linked(s) : /\ reservations[r].status = status
                       /\ reservations[r].expires = orders[s].deadline
                       /\ clock < reservations[r].expires

\* Every linked reservation is in the expected status and still carries the
\* deadline of its order.
AllLinked(s, status) ==
  \A r \in Linked(s) : /\ reservations[r].status = status
                       /\ reservations[r].expires = orders[s].deadline

Settled(s, status) ==
  [r \in ResId |-> IF r \in Linked(s)
                   THEN [reservations[r] EXCEPT !.status = status]
                   ELSE reservations[r]]

\* Mutant: the aggregate version is not counted up.
TransitionSameVersion(s, to, actor) ==
  /\ orders' = [orders EXCEPT ![s].status = to]
  /\ history' = [history EXCEPT ![s] =
       Append(@, [version |-> orders[s].version, from |-> orders[s].status,
                  to |-> to, actor |-> actor, at |-> clock])]

\* The timeline row and the event of a transition carry the order as it will be.
OrderStatusChanged(s, to, actor) ==
  [version |-> orders[s].version + 1, from |-> orders[s].status, to |-> to,
   actor |-> actor, at |-> clock]

\* The order row, its timeline row and its OrderStatusChanged event.
Transition(s, to, actor) ==
  /\ orders' = [orders EXCEPT ![s].status = to, ![s].version = @ + 1]
  /\ history' = [history EXCEPT ![s] = Append(@, OrderStatusChanged(s, to, actor))]

BeforeDeadline(s) == clock < orders[s].deadline

\* The snapshots an order's reservations are on.
Touched(s) == {reservations[r].snapshot : r \in Linked(s)}

\* Neither counter goes below zero, and what stays reserved stays covered.
CanConsume(s) ==
  \A n \in Touched(s) : /\ Aggregate(s, n) <= onHand[n]
                        /\ Aggregate(s, n) <= reserved[n]
                        /\ reserved[n] <= onHand[n]

CanRelease(s) == \A n \in Touched(s) : Aggregate(s, n) <= reserved[n]

ConfirmOrder(s) ==
  /\ orders[s].status = "pending"
  /\ BeforeDeadline(s)
  /\ Linked(s) # {}
  /\ AllLinked(s, "held")
  /\ \A r \in Linked(s) : clock < reservations[r].expires
  /\ CanConsume(s)
  /\ onHand' = [n \in Snapshot |-> onHand[n] - Aggregate(s, n)]
  /\ reserved' = [n \in Snapshot |-> reserved[n] - Aggregate(s, n)]
  /\ movements' = [n \in Snapshot |-> [movements[n] EXCEPT
       !.reservation_consumed = @ - Aggregate(s, n)]]
  /\ reservations' = Settled(s, "consumed")
  /\ Transition(s, "confirmed", "seller")
  /\ UNCHANGED <<clock, cartVars, sequence, found>>

\* Give the held stock of a pending order back and cancel the order.
ReleaseHeld(s, status, actor) ==
  /\ orders[s].status = "pending"
  /\ AllLinked(s, "held")
  /\ CanRelease(s)
  /\ reserved' = [n \in Snapshot |-> reserved[n] - Aggregate(s, n)]
  /\ reservations' = Settled(s, status)
  /\ Transition(s, "cancelled", actor)
  /\ UNCHANGED <<clock, cartVars, sequence, onHand, movements>>

CancelPendingOrder(s, actor) ==
  /\ actor \in {"customer", "seller"}
  /\ ReleaseHeld(s, "released", actor)
  /\ UNCHANGED found

\* Mutant: the early return for an order already cancelled is missing.
CanCancelAgain(s) ==
  orders[s].status \in {"confirmed", "processing", "cancelled"}

\* After confirmation the stock comes back to the shelf; the reservations stay
\* consumed.
CanCancelConfirmed(s) == orders[s].status \in {"confirmed", "processing"}

CancelConfirmedOrder(s) ==
  /\ CanCancelConfirmed(s)
  /\ AllLinked(s, "consumed")
  /\ onHand' = [n \in Snapshot |-> onHand[n] + Aggregate(s, n)]
  /\ movements' = [n \in Snapshot |-> [movements[n] EXCEPT
       !.order_cancellation_restock = @ + Aggregate(s, n)]]
  /\ Transition(s, "cancelled", "seller")
  /\ UNCHANGED <<clock, cartVars, sequence, reserved, reservations, found>>

\* isInventoryNeutralAdvance
NeutralAdvance == {<<"confirmed", "processing">>,
                   <<"processing", "ready_for_shipping">>}

AdvanceOrderStatus(s, to) ==
  /\ <<orders[s].status, to>> \in NeutralAdvance
  /\ Transition(s, to, "seller")
  /\ UNCHANGED <<clock, cartVars, sequence, stockVars, found>>

-----------------------------------------------------------------------------
(* The expiry workers: an unlocked discovery query, then one transaction    *)
(* per candidate, which looks at the order again under its lock.            *)

\* Mutant: the last moment before the deadline already counts as overdue.
AlmostOverdue(s) ==
  orders[s].status = "pending" /\ clock + 1 >= orders[s].deadline

Overdue(s) == orders[s].status = "pending" /\ ~BeforeDeadline(s)

\* ORDER BY confirmation_deadline_at LIMIT BatchSize.
IsBatch(B) ==
  LET late == {s \in Session : Overdue(s)} IN
  /\ B \subseteq late
  /\ \A s \in B, u \in late \ B : orders[s].deadline <= orders[u].deadline
  /\ Cardinality(B) <= BatchSize
  /\ B = late \/ Cardinality(B) = BatchSize

DiscoverExpiryCandidates(w) ==
  /\ found[w] = {}
  /\ \E B \in SUBSET Session : /\ IsBatch(B)
                               /\ found' = [found EXCEPT ![w] = B]
  /\ UNCHANGED <<clock, cartVars, orderVars, stockVars>>

Drop(w, s) == found' = [found EXCEPT ![w] = @ \ {s}]

ExpirePendingOrder(w, s) ==
  /\ s \in found[w]
  /\ Overdue(s)
  /\ ReleaseHeld(s, "expired", "scheduler")
  /\ Drop(w, s)

\* Nothing to do any more, or the transaction failed and was only logged.
SkipCandidate(w, s) ==
  /\ s \in found[w]
  /\ Drop(w, s)
  /\ UNCHANGED <<clock, cartVars, orderVars, stockVars>>

\* The worker process stops and starts again: its batch is gone.
RestartWorker(w) ==
  /\ found[w] # {}
  /\ found' = [found EXCEPT ![w] = {}]
  /\ UNCHANGED <<clock, cartVars, orderVars, stockVars>>

-----------------------------------------------------------------------------
(* Stock operations outside any order *)

\* Mutants: an adjustment looks at the shelf only, or at nothing.
MayAdjustShelf(n, d) == d < 0 => onHand[n] + d >= 0
MayAlwaysAdjust(n, d) == TRUE

\* A negative adjustment may not take what is reserved.
MayAdjust(n, d) ==
  d < 0 => onHand[n] + d >= reserved[n] /\ onHand[n] + d >= 0

AdjustInventory(n, d) ==
  /\ MayAdjust(n, d)
  /\ onHand[n] + d <= MaxOnHand
  /\ onHand' = [onHand EXCEPT ![n] = @ + d]
  /\ movements' = [movements EXCEPT ![n].adjustment = @ + d]
  /\ UNCHANGED <<clock, cartVars, orderVars, reservations, reserved, found>>

\* A reservation of its own; no operation settles it again, and it leaves no
\* movement.  Its expires_at is stored for the caller and never read: 0 here.
ReserveInventory(t, n, k) ==
  /\ reservations[t].status = "none"
  /\ k > 0
  /\ Available(n) >= k
  /\ reserved' = [reserved EXCEPT ![n] = @ + k]
  /\ reservations' = [reservations EXCEPT ![t] =
       [status |-> "held", snapshot |-> n, quantity |-> k, expires |-> 0]]
  /\ UNCHANGED <<clock, cartVars, orderVars, onHand, movements, found>>

Tick ==
  /\ clock < MaxClock
  /\ clock' = clock + 1
  /\ UNCHANGED <<cartVars, orderVars, stockVars, found>>

-----------------------------------------------------------------------------
CartNext ==
  \/ \E c \in Cart : CreateCart(c)
  \/ \E c \in Cart, l \in Listing, k \in 0 .. MaxLineQuantity :
       \/ AddCartItem(c, l, k)
       \/ UpdateCartItemQuantity(c, l, k)
  \/ \E c \in Cart, l \in Listing : RemoveCartItem(c, l)
  \/ \E s \in Session :
       CreateCheckoutSession(s) \/ DecideCheckout(s) \/ AbortCheckout(s)
  \/ \E s \in Session, q \in Request :
       FinalizeCheckout(s, q) \/ ReplayFinalize(s, q)

OrderNext ==
  \E s \in Session :
    \/ ConfirmOrder(s)
    \/ \E actor \in Actor : CancelPendingOrder(s, actor)
    \/ CancelConfirmedOrder(s)
    \/ \E to \in OrderStatus : AdvanceOrderStatus(s, to)

WorkerNext ==
  \E w \in Worker :
    \/ DiscoverExpiryCandidates(w)
    \/ \E s \in Session : ExpirePendingOrder(w, s) \/ SkipCandidate(w, s)
    \/ RestartWorker(w)

StockNext ==
  \E n \in Snapshot :
    \/ \E d \in Adjustments : AdjustInventory(n, d)
    \/ \E t \in Token, k \in 0 .. MaxOnHand : ReserveInventory(t, n, k)

Next == CartNext \/ OrderNext \/ WorkerNext \/ StockNext \/ Tick

Spec == Init /\ [][Next]_vars

\* Time passes; every worker keeps polling and walks its batch to the end; the
\* expiry of one order, tried again and again, is not refused for ever by the
\* database.  Nothing is assumed of customers, sellers or restarts.
FairSpec ==
  /\ Spec
  /\ WF_vars(Tick)
  /\ \A w \in Worker :
       /\ WF_vars(DiscoverExpiryCandidates(w))
       /\ WF_vars(\E s \in Session : ExpirePendingOrder(w, s)
                                     \/ SkipCandidate(w, s))
  /\ \A s \in Session : SF_vars(\E w \in Worker : ExpirePendingOrder(w, s))

-----------------------------------------------------------------------------
(* Properties *)

\* The rows have the columns the schema gives them.
TypeOK ==
  /\ clock \in Nat
  /\ carts \in [Cart -> CartRow]
  /\ sessions \in [Session -> SessionRow]
  /\ deciding \subseteq Session
  /\ orders \in [Session -> OrderRow]
  /\ reservations \in [ResId -> Reservation]
  /\ onHand \in [Snapshot -> Nat]
  /\ reserved \in [Snapshot -> Nat]
  /\ movements \in [Snapshot -> MovementTotals]
  /\ sequence \in [Store -> Nat]
  /\ history \in [Session -> Seq(HistoryRow)]
  /\ found \in [Worker -> SUBSET Session]
  /\ answered \subseteq Session \X Request

InStatus(status, n) ==
  {r \in ResId : reservations[r].status = status /\ reservations[r].snapshot = n}

\* The counter every checkout decides availability on is exactly the sum of the
\* reservations held on the snapshot, whatever mix of checkouts, confirmations,
\* cancellations, expiries and standalone reservations came before.
ReservedIsHeld ==
  \A n \in Snapshot : reserved[n] = Quantity(InStatus("held", n), QuantityOf)

\* The last unit is sold once: held stock never exceeds stock on the shelf, so
\* no adjustment and no competing checkout takes what an order was promised.
StockCovered == \A n \in Snapshot : reserved[n] <= onHand[n]

\* The reservations of orders that were cancelled after their confirmation.
Restocked(n) ==
  {r \in InStatus("consumed", n) :
     r \in Session \X Listing /\ orders[r[1]].status = "cancelled"}

\* inventory_movements explains on_hand_qty: the initial stock and the recorded
\* deltas add up to it, the consumption recorded is that of the consumed
\* reservations, and a cancelled order's stock came back exactly once.
LedgerExplainsStock ==
  \A n \in Snapshot :
    /\ onHand[n] = InitialStock[n] + movements[n].adjustment
                   + movements[n].reservation_consumed
                   + movements[n].order_cancellation_restock
    /\ movements[n].reservation_consumed =
         -Quantity(InStatus("consumed", n), QuantityOf)
    /\ movements[n].order_cancellation_restock =
         Quantity(Restocked(n), QuantityOf)

\* What the status of an order says of its reservations.
SettledAs(s, status) ==
  \A r \in Linked(s) : /\ reservations[r].status = status
                       /\ reservations[r].expires = orders[s].deadline

ReservationsFollow(s) ==
  /\ orders[s].status = "none" <=> Linked(s) = {}
  /\ orders[s].status = "pending" => SettledAs(s, "held")
  /\ orders[s].status \in {"confirmed", "processing", "ready_for_shipping"}
       => SettledAs(s, "consumed")
  /\ orders[s].status = "cancelled"
       => \E e \in {"released", "expired", "consumed"} : SettledAs(s, e)

\* Every transition takes all reservations of its order along: a pending order
\* holds all of them, a confirmed one consumed all of them, a cancelled one lost
\* all of them the same way, and no reservation exists without its order.
ReservationsFollowOrder == \A s \in Session : ReservationsFollow(s)

\* The fail-closed branches of confirmation, cancellation and expiry
\* (ErrInternalError, ErrInsufficientInventory) are never taken: every pending
\* order can be settled, so none keeps its stock for ever.
OrdersCanSettle ==
  \A s \in Session :
    /\ orders[s].status = "pending" =>
         /\ Linked(s) # {}
         /\ AllLinked(s, "held")
         /\ CanConsume(s)
         /\ CanRelease(s)
    /\ CanCancelConfirmed(s) => AllLinked(s, "consumed")

\* The orders accepted from the sessions of cart c.
Accepted(c) ==
  {s \in Session : SessionCart[s] = c /\ orders[s].status # "none"}

\* A cart is sold once, as it was: however many open sessions and concurrent
\* checkouts it has, at most one becomes an order, that order reserves the
\* quantities of the cart, and cart and session are closed with it.
OneOrderPerCart ==
  \A c \in Cart :
    /\ Cardinality(Accepted(c)) <= 1
    /\ carts[c].status = "checked_out" <=> Accepted(c) # {}
    /\ \A s \in Session : SessionCart[s] = c =>
         (sessions[s].status = "finalized" <=> s \in Accepted(c))
    /\ \A s \in Accepted(c), l \in Listing :
         reservations[<<s, l>>].quantity = carts[c].items[l]

OrdersOf(t) ==
  {s \in Session : orders[s].status # "none" /\ CartStore[SessionCart[s]] = t}

\* AllocateOrderNumber runs inside the checkout: the numbers of a store's orders
\* are 1 .. sequence, without duplicates, and an aborted checkout leaves no gap.
NumbersGapless ==
  \A t \in Store :
    /\ {orders[s].number : s \in OrdersOf(t)} = 1 .. sequence[t]
    /\ Cardinality(OrdersOf(t)) = sequence[t]

\* The timeline and the outbox of an order replay to the order: versions count
\* from 1 without a gap, each row starts where the one before ended, no row is
\* older than the one before, and the last is the state of the order.
HistoryExplainsStatus ==
  \A s \in Session :
    LET h == history[s] IN
    /\ Len(h) = orders[s].version
    /\ \A i \in 1 .. Len(h) :
         /\ h[i].version = i
         /\ h[i].at <= clock
         /\ h[i].from = IF i = 1 THEN "none" ELSE h[i - 1].to
         /\ i > 1 => h[i - 1].at <= h[i].at
    /\ orders[s].status = IF h = <<>> THEN "none" ELSE h[Len(h)].to

\* Whoever was told that request q of session s succeeded got the order placed
\* with that very request; a different request never replays it.
AnswersMatchOrder ==
  \A a \in answered :
    /\ orders[a[1]].status # "none"
    /\ sessions[a[1]].fingerprint[1] = a[2]

\* "Exactly one terminal outcome is committed": no step reopens an order or
\* writes a cancelled one, and no step touches a reservation once it left held.
OutcomeIsFinal ==
  [][/\ \A s \in Session :
          /\ orders[s].status # "none" => orders'[s].status # "none"
          /\ orders[s].status \notin {"none", "pending"} =>
               orders'[s].status # "pending"
          /\ orders[s].status = "cancelled" => orders'[s] = orders[s]
     /\ \A r \in ResId :
          reservations[r].status \notin {"none", "held"} =>
            reservations'[r] = reservations[r]]_vars

\* From the moment a checkout decides on a cart until for ever after its order
\* is accepted, no step changes the lines it was decided on.
AcceptedCartFrozen ==
  [][\A c \in Cart :
       (\E s \in deciding : SessionCart[s] = c) \/ Accepted(c) # {}
         => carts'[c].items = carts[c].items]_vars

Lifecycle ==
  INSTANCE OrderLifecycle WITH
    Order <- Session,
    now <- clock,
    status <- [s \in Session |-> orders[s].status],
    deadline <- [s \in Session |-> orders[s].deadline],
    version <- [s \in Session |-> orders[s].version],
    authority <- [s \in Session |-> IF history[s] = <<>> THEN "checkout"
                                    ELSE history[s][Len(history[s])].actor]

\* The transactions implement the transition matrix of orders.go, although only
\* one of them consults it: confirmation strictly before the deadline, expiry
\* only from the deadline on, every other move by the authority entitled to it.
ImplementsLifecycle == Lifecycle!Spec

\* No order keeps its stock past its deadline for ever: the scheduler, restarted
\* or failing any number of times, cancels it unless somebody settles it first.
OverdueOrdersSettle ==
  \A s \in Session :
    (orders[s].status = "pending" /\ orders[s].deadline <= MaxClock)
      ~> orders[s].status # "pending"
=============================================================================
