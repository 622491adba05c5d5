-------------------------- MODULE ReservationProofs --------------------------
(***************************************************************************)
(* Carts, sessions, orders and reservations agree in every reachable state *)
(* for every value of the constants.                                       *)
(*                                                                         *)
(* The property is not inductive alone.  A checkout may only write its     *)
(* reservations over empty rows because an open session has no order       *)
(* (OrderOfFinalized); its order has a reservation at all because the cart *)
(* it decided on cannot be emptied before the commit (DecidedCartFilled).  *)
(***************************************************************************)
EXTENDS OrderInventoryProofs

DecidedCartFilled ==
  \A s \in deciding : LinesOf(carts[SessionCart[s]].items) # {}

OrdersInv ==
  TypeOK /\ OrderOfFinalized /\ DecidedCartFilled /\ ReservationsFollowOrder

-----------------------------------------------------------------------------
(* What the parts of a transition do to one order *)

\* Settled gives the reservations of one order a new status and nothing else.
LEMMA SettledEffect ==
  ASSUME TypeOK, NEW s \in Session, NEW status, status # "none",
         reservations' = Settled(s, status)
  PROVE  /\ \A u \in Session : Linked(u)' = Linked(u)
         /\ \A r \in Linked(s) :
              /\ reservations'[r].status = status
              /\ reservations'[r].expires = reservations[r].expires
         /\ \A r \in ResId \ Linked(s) : reservations'[r] = reservations[r]
         /\ \A r \in ResId : /\ reservations'[r].snapshot = reservations[r].snapshot
                             /\ reservations'[r].quantity = reservations[r].quantity
<1>1. ASSUME NEW r \in ResId, r \in Linked(s)
      PROVE  /\ reservations'[r].status = status
             /\ reservations'[r].expires = reservations[r].expires
             /\ reservations'[r].snapshot = reservations[r].snapshot
             /\ reservations'[r].quantity = reservations[r].quantity
  <2>1. reservations'[r] = [reservations[r] EXCEPT !.status = status]
    BY <1>1 DEF Settled
  <2>2. reservations[r] \in Reservation
    BY DEF TypeOK
  <2> QED BY <2>1, <2>2 DEF Reservation
<1>2. \A r \in ResId \ Linked(s) : reservations'[r] = reservations[r]
  BY DEF Settled
<1>3. Linked(s) \subseteq ResId
  BY DEF Linked, ResId
<1>4. ASSUME NEW u \in Session PROVE Linked(u)' = Linked(u)
  <2>1. ASSUME NEW r \in {u} \X Listing
        PROVE  reservations'[r].status # "none" <=> reservations[r].status # "none"
    <3>1. r \in ResId
      BY DEF ResId
    <3>2. CASE r \in Linked(s)
      BY <1>1, <3>1, <3>2 DEF Linked
    <3>3. CASE r \notin Linked(s)
      BY <1>2, <3>1, <3>3
    <3> QED BY <3>2, <3>3
  <2> QED BY <2>1 DEF Linked
<1> QED BY <1>1, <1>2, <1>3, <1>4

\* An order whose row and reservations stay as they are keeps in step.
LEMMA FollowsFrame ==
  ASSUME NEW u \in Session, ReservationsFollow(u), orders'[u] = orders[u],
         \A r \in {u} \X Listing : reservations'[r] = reservations[r]
  PROVE  ReservationsFollow(u)'
<1>1. Linked(u)' = Linked(u)
  BY DEF Linked
<1>2. \A r \in Linked(u) : reservations'[r] = reservations[r]
  BY DEF Linked
<1>3. \A status : SettledAs(u, status) => SettledAs(u, status)'
  BY <1>1, <1>2 DEF SettledAs
<1> QED BY <1>1, <1>3 DEF ReservationsFollow

-----------------------------------------------------------------------------
(* Carts *)

\* The lines of a cart change only while it is active and nobody decides on it.
LEMMA ItemsChange ==
  ASSUME TypeOK, [Next]_vars, NEW c \in Cart
  PROVE  \/ carts'[c].items = carts[c].items
         \/ carts[c].status = "active" /\ ~CartLocked(c)
<1>1. ASSUME NEW d \in Cart, NEW st, carts' = [carts EXCEPT ![d].status = st]
      PROVE  carts'[c].items = carts[c].items
  <2>1. carts[d] \in CartRow
    BY DEF TypeOK
  <2>2. carts' = [carts EXCEPT ![d] = [carts[d] EXCEPT !.status = st]]
    BY <1>1
  <2>3. carts'[d] = [carts[d] EXCEPT !.status = st]
    BY <2>2 DEF TypeOK
  <2>4. carts'[d].items = carts[d].items
    BY <2>1, <2>3 DEF CartRow
  <2>5. d # c => carts'[c] = carts[c]
    BY <2>2 DEF TypeOK
  <2> QED BY <2>4, <2>5
<1>2. ASSUME NEW d \in Cart, NEW l, NEW k, SetLine(d, l, k)
      PROVE  \/ carts'[c].items = carts[c].items
             \/ carts[c].status = "active" /\ ~CartLocked(c)
  <2>1. CASE d = c
    BY <1>2, <2>1 DEF SetLine, CartOpen
  <2>2. CASE d # c
    BY <1>2, <2>2 DEF SetLine, TypeOK
  <2> QED BY <2>1, <2>2
<1>3. CASE CartNext
  <2>1. ASSUME NEW d \in Cart, CreateCart(d)
        PROVE  carts'[c].items = carts[c].items
    BY <1>1, <2>1 DEF CreateCart
  <2>2. ASSUME NEW d \in Cart, NEW l \in Listing, NEW k \in 0 .. MaxLineQuantity,
               \/ AddCartItem(d, l, k)
               \/ UpdateCartItemQuantity(d, l, k)
               \/ RemoveCartItem(d, l)
        PROVE  \/ carts'[c].items = carts[c].items
               \/ carts[c].status = "active" /\ ~CartLocked(c)
    BY <1>2, <2>2 DEF AddCartItem, UpdateCartItemQuantity, RemoveCartItem
  <2>3. ASSUME NEW s \in Session,
               \/ CreateCheckoutSession(s) \/ DecideCheckout(s)
               \/ AbortCheckout(s)
               \/ \E q \in Request : ReplayFinalize(s, q)
        PROVE  UNCHANGED carts
    BY <2>3 DEF CreateCheckoutSession, DecideCheckout, AbortCheckout,
                ReplayFinalize
  <2>4. ASSUME NEW s \in Session, NEW q \in Request, FinalizeCheckout(s, q)
        PROVE  carts'[c].items = carts[c].items
    <3>1. SessionCart[s] \in Cart
      BY StockAssumption
    <3> QED BY <1>1, <2>4, <3>1 DEF FinalizeCheckout, CloseCart
  <2>5. \/ \E d \in Cart : CreateCart(d)
        \/ \E d \in Cart, l \in Listing : \E k \in 0 .. MaxLineQuantity :
             \/ AddCartItem(d, l, k)
             \/ UpdateCartItemQuantity(d, l, k)
        \/ \E d \in Cart, l \in Listing : RemoveCartItem(d, l)
        \/ \E s \in Session :
             \/ CreateCheckoutSession(s) \/ DecideCheckout(s)
             \/ AbortCheckout(s)
             \/ \E q \in Request : ReplayFinalize(s, q)
        \/ \E s \in Session : \E q \in Request : FinalizeCheckout(s, q)
    BY <1>3 DEF CartNext
  <2>6. 0 \in 0 .. MaxLineQuantity
    BY NumberAssumption
  <2> QED BY <2>1, <2>2, <2>3, <2>4, <2>5, <2>6
<1>4. CASE OrderNext \/ WorkerNext
  BY <1>4, MovedOrderCarts DEF cartVars
<1>5. CASE StockNext \/ Tick \/ UNCHANGED vars
  BY <1>5, StockFrame DEF cartVars
<1> QED BY <1>3, <1>4, <1>5 DEF Next

\* Only DecideCheckout adds a session to those that are deciding.
LEMMA DecidingChange ==
  ASSUME [Next]_vars
  PROVE  \A s \in deciding' :
           \/ s \in deciding
           \/ LinesOf(carts[SessionCart[s]].items) # {} /\ UNCHANGED carts
<1>1. CASE CartNext
  BY <1>1 DEF CartNext, CreateCart, AddCartItem, UpdateCartItemQuantity,
     RemoveCartItem, SetLine, CreateCheckoutSession, DecideCheckout,
     AbortCheckout, FinalizeCheckout, ReplayFinalize
<1>2. CASE OrderNext \/ WorkerNext
  BY <1>2, MovedOrderCarts DEF cartVars
<1>3. CASE StockNext \/ Tick \/ UNCHANGED vars
  BY <1>3, StockFrame DEF cartVars
<1> QED BY <1>1, <1>2, <1>3 DEF Next

LEMMA DecidedInit == Init => DecidedCartFilled
BY DEF Init, DecidedCartFilled

LEMMA DecidedStep ==
  ASSUME TypeOK, DecidedCartFilled, [Next]_vars
  PROVE  DecidedCartFilled'
<1> SUFFICES ASSUME NEW s \in deciding'
             PROVE  LinesOf(carts'[SessionCart[s]].items) # {}
  BY DEF DecidedCartFilled, LinesOf
<1>1. CASE s \in deciding
  <2>1. s \in Session /\ SessionCart[s] \in Cart
    BY <1>1, StockAssumption DEF TypeOK
  <2>2. CartLocked(SessionCart[s])
    BY <1>1 DEF CartLocked
  <2>3. carts'[SessionCart[s]].items = carts[SessionCart[s]].items
    BY <2>1, <2>2, ItemsChange
  <2> QED BY <1>1, <2>3 DEF DecidedCartFilled
<1>2. CASE s \notin deciding
  BY <1>2, DecidingChange
<1> QED BY <1>1, <1>2

-----------------------------------------------------------------------------
(* Reservations follow their order *)

LEMMA FollowInit == Init => ReservationsFollowOrder
<1> SUFFICES ASSUME Init, NEW s \in Session PROVE ReservationsFollow(s)
  BY DEF ReservationsFollowOrder
<1>1. orders[s].status = "none"
  BY DEF Init, NoOrder
<1>2. Linked(s) = {}
  BY DEF Init, NoReservation, Linked, ResId
<1> QED BY <1>1, <1>2 DEF ReservationsFollow

\* What a checkout writes: a held reservation per line of the cart, over rows
\* that were empty, and nothing else.
LEMMA HeldLines ==
  ASSUME OrdersInv, NEW s \in Session, NEW q \in Request, FinalizeCheckout(s, q)
  PROVE  LET lines == LinesOf(carts[SessionCart[s]].items) IN
         /\ Linked(s) = {} /\ lines # {} /\ lines \subseteq Listing
         /\ \A r \in {s} \X lines :
              /\ reservations[r].status = "none"
              /\ reservations'[r].status = "held"
              /\ reservations'[r].expires = clock + ConfirmationDuration
              /\ reservations'[r].quantity = carts[SessionCart[s]].items[r[2]]
         /\ \A r \in ResId \ ({s} \X lines) : reservations'[r] = reservations[r]
<1> DEFINE lines == LinesOf(carts[SessionCart[s]].items)
<1>1. orders[s].status = "none"
  BY FinalizeEffect DEF OrdersInv, OrderOfFinalized
<1>2. Linked(s) = {}
  BY <1>1 DEF OrdersInv, ReservationsFollowOrder, ReservationsFollow
<1>3. lines # {} /\ lines \subseteq Listing
  BY DEF OrdersInv, DecidedCartFilled, FinalizeCheckout, LinesOf
<1>4. \A r \in {s} \X lines : r \in ResId /\ reservations[r].status = "none"
  BY <1>2, <1>3 DEF Linked, ResId
<1>5. PICK alloc :
        reservations' = HoldLines(s, lines, alloc, carts[SessionCart[s]].items,
                                  clock + ConfirmationDuration)
  BY DEF FinalizeCheckout
<1>6. \A r \in {s} \X lines :
        /\ reservations'[r].status = "held"
        /\ reservations'[r].expires = clock + ConfirmationDuration
        /\ reservations'[r].quantity = carts[SessionCart[s]].items[r[2]]
  <2> HIDE DEF lines
  <2> QED BY <1>4, <1>5 DEF HoldLines
<1>7. \A r \in ResId \ ({s} \X lines) : reservations'[r] = reservations[r]
  <2> HIDE DEF lines
  <2> QED BY <1>5 DEF HoldLines
<1> QED BY <1>2, <1>3, <1>4, <1>6, <1>7

LEMMA FollowFinalize ==
  ASSUME OrdersInv, NEW s \in Session, NEW q \in Request, FinalizeCheckout(s, q)
  PROVE  ReservationsFollowOrder'
<1> DEFINE lines == LinesOf(carts[SessionCart[s]].items)
<1> TypeOK
  BY DEF OrdersInv
<1>1. /\ Linked(s) = {} /\ lines # {} /\ lines \subseteq Listing
      /\ \A r \in {s} \X lines :
           /\ reservations'[r].status = "held"
           /\ reservations'[r].expires = clock + ConfirmationDuration
      /\ \A r \in ResId \ ({s} \X lines) : reservations'[r] = reservations[r]
  BY HeldLines
<1> HIDE DEF lines
<1>2. Linked(s)' = {s} \X lines
  <2>1. ASSUME NEW l \in Listing
        PROVE  reservations'[<<s, l>>].status # "none" <=> l \in lines
    <3>1. CASE l \in lines
      BY <1>1, <3>1
    <3>2. CASE l \notin lines
      <4>1. <<s, l>> \in ResId \ ({s} \X lines)
        BY <3>2 DEF ResId
      <4>2. reservations[<<s, l>>].status = "none"
        BY <1>1 DEF Linked
      <4> QED BY <1>1, <3>2, <4>1, <4>2
    <3> QED BY <3>1, <3>2
  <2> QED BY <1>1, <2>1 DEF Linked
<1>3. ReservationsFollow(s)'
  <2>1. Linked(s)' # {}
    <3>1. PICK l \in lines : TRUE
      BY <1>1
    <3>2. <<s, l>> \in {s} \X lines
      BY <3>1
    <3> QED BY <1>2, <3>2
  <2>2. SettledAs(s, "held")'
    BY <1>1, <1>2, FinalizeEffect DEF SettledAs
  <2> QED BY <2>1, <2>2, FinalizeEffect DEF ReservationsFollow
<1>4. ASSUME NEW u \in Session, u # s PROVE ReservationsFollow(u)'
  <2>1. \A r \in {u} \X Listing : r \in ResId \ ({s} \X lines)
    BY <1>4 DEF ResId
  <2>2. \A r \in {u} \X Listing : reservations'[r] = reservations[r]
    BY <1>1, <2>1
  <2>3. orders'[u] = orders[u]
    BY <1>4, FinalizeEffect
  <2>4. ReservationsFollow(u)
    BY DEF OrdersInv, ReservationsFollowOrder
  <2> QED BY <2>2, <2>3, <2>4, FollowsFrame
<1> QED BY <1>3, <1>4 DEF ReservationsFollowOrder

\* A transition that settles the reservations of its order with it.
LEMMA FollowSettle ==
  ASSUME OrdersInv, NEW s \in Session, NEW status, NEW to, NEW actor,
         orders[s].status = "pending", Transition(s, to, actor),
         reservations' = Settled(s, status),
         \/ to = "confirmed" /\ status = "consumed"
         \/ to = "cancelled" /\ status \in {"released", "expired"}
  PROVE  ReservationsFollowOrder'
<1> TypeOK
  BY DEF OrdersInv
<1>0. status # "none"
  OBVIOUS
<1>1. ReservationsFollow(s)
  BY DEF OrdersInv, ReservationsFollowOrder
<1>2. Linked(s)' = Linked(s) /\ Linked(s) # {}
  BY <1>0, <1>1, SettledEffect DEF ReservationsFollow
<1>3. SettledAs(s, status)'
  <2>1. \A r \in Linked(s) : reservations[r].expires = orders[s].deadline
    BY <1>1 DEF ReservationsFollow, SettledAs
  <2>2. \A r \in Linked(s) : /\ reservations'[r].status = status
                             /\ reservations'[r].expires = reservations[r].expires
    BY <1>0, SettledEffect
  <2> QED BY <1>2, <2>1, <2>2, TransitionEffect DEF SettledAs
<1>4. ReservationsFollow(s)'
  BY <1>2, <1>3, TransitionEffect DEF ReservationsFollow
<1>5. ASSUME NEW u \in Session, u # s PROVE ReservationsFollow(u)'
  <2>1. \A r \in {u} \X Listing : r \in ResId \ Linked(s)
    BY <1>5 DEF ResId, Linked
  <2>2. \A r \in {u} \X Listing : reservations'[r] = reservations[r]
    BY <1>0, <2>1, SettledEffect
  <2>3. orders'[u] = orders[u]
    BY <1>5, TransitionEffect
  <2>4. ReservationsFollow(u)
    BY DEF OrdersInv, ReservationsFollowOrder
  <2> QED BY <2>2, <2>3, <2>4, FollowsFrame
<1> QED BY <1>4, <1>5 DEF ReservationsFollowOrder

\* A transition after the confirmation leaves the reservations consumed.
LEMMA FollowMove ==
  ASSUME OrdersInv, NEW s \in Session, NEW to, NEW actor,
         Transition(s, to, actor), UNCHANGED reservations,
         orders[s].status \in {"confirmed", "processing"},
         to \in {"processing", "ready_for_shipping", "cancelled"}
  PROVE  ReservationsFollowOrder'
<1> TypeOK
  BY DEF OrdersInv
<1>1. Linked(s)' = Linked(s) /\ Linked(s) # {} /\ SettledAs(s, "consumed")
  BY DEF OrdersInv, ReservationsFollowOrder, ReservationsFollow, Linked
<1>2. SettledAs(s, "consumed")'
  BY <1>1, TransitionEffect DEF SettledAs
<1>3. ReservationsFollow(s)'
  BY <1>1, <1>2, TransitionEffect DEF ReservationsFollow
<1>4. ASSUME NEW u \in Session, u # s PROVE ReservationsFollow(u)'
  <2>1. orders'[u] = orders[u]
    BY <1>4, TransitionEffect
  <2>2. ReservationsFollow(u)
    BY DEF OrdersInv, ReservationsFollowOrder
  <2> QED BY <2>1, <2>2, FollowsFrame
<1> QED BY <1>3, <1>4 DEF ReservationsFollowOrder

LEMMA FollowFrame ==
  ASSUME ReservationsFollowOrder, UNCHANGED orders,
         \A r \in Session \X Listing : reservations'[r] = reservations[r]
  PROVE  ReservationsFollowOrder'
BY FollowsFrame DEF ReservationsFollowOrder

\* A standalone reservation is none of any order's.
LEMMA FollowStock ==
  ASSUME TypeOK, ReservationsFollowOrder, StockNext \/ Tick \/ UNCHANGED vars
  PROVE  ReservationsFollowOrder'
<1>1. UNCHANGED orders
  BY StockFrame DEF orderVars
<1>2. ASSUME NEW r \in Session \X Listing PROVE reservations'[r] = reservations[r]
  <2>1. \A t \in Token : t # r
    BY StockAssumption
  <2>2. ASSUME NEW n, NEW t \in Token, NEW k, ReserveInventory(t, n, k)
        PROVE  reservations'[r] = reservations[r]
    BY <2>1, <2>2 DEF ReserveInventory, TypeOK, ResId
  <2> QED BY <2>2 DEF StockNext, AdjustInventory, Tick, vars, stockVars
<1> QED BY <1>1, <1>2, FollowFrame

LEMMA FollowStep ==
  ASSUME OrdersInv, [Next]_vars
  PROVE  ReservationsFollowOrder'
<1> TypeOK /\ ReservationsFollowOrder
  BY DEF OrdersInv
<1>1. CASE CartNext
  <2>1. ASSUME NEW s \in Session, NEW q \in Request, FinalizeCheckout(s, q)
        PROVE  ReservationsFollowOrder'
    BY <2>1, FollowFinalize
  <2>2. CASE UNCHANGED <<orders, reservations>>
    BY <2>2, FollowFrame
  <2>3. \/ \E s \in Session, q \in Request : FinalizeCheckout(s, q)
        \/ UNCHANGED <<orders, reservations>>
    BY <1>1 DEF CartNext, CreateCart, AddCartItem, UpdateCartItemQuantity,
       RemoveCartItem, SetLine, CreateCheckoutSession, DecideCheckout,
       AbortCheckout, ReplayFinalize, orderVars, stockVars
  <2> QED BY <2>1, <2>2, <2>3
<1>2. CASE OrderNext
  <2> PICK s \in Session : \/ ConfirmOrder(s)
                           \/ \E actor \in Actor : CancelPendingOrder(s, actor)
                           \/ CancelConfirmedOrder(s)
                           \/ \E to \in OrderStatus : AdvanceOrderStatus(s, to)
    BY <1>2 DEF OrderNext
  <2>1. CASE ConfirmOrder(s)
    BY <2>1, FollowSettle DEF ConfirmOrder
  <2>2. ASSUME NEW actor \in Actor, CancelPendingOrder(s, actor)
        PROVE  ReservationsFollowOrder'
    BY <2>2, FollowSettle DEF CancelPendingOrder, ReleaseHeld
  <2>3. CASE CancelConfirmedOrder(s)
    BY <2>3, FollowMove DEF CancelConfirmedOrder, CanCancelConfirmed
  <2>4. ASSUME NEW to \in OrderStatus, AdvanceOrderStatus(s, to)
        PROVE  ReservationsFollowOrder'
    BY <2>4, FollowMove DEF AdvanceOrderStatus, NeutralAdvance, stockVars
  <2> QED BY <2>1, <2>2, <2>3, <2>4
<1>3. CASE WorkerNext
  <2>1. ASSUME NEW w \in Worker, NEW s \in Session, ExpirePendingOrder(w, s)
        PROVE  ReservationsFollowOrder'
    BY <2>1, FollowSettle DEF ExpirePendingOrder, ReleaseHeld
  <2>2. \/ \E w \in Worker, s \in Session : ExpirePendingOrder(w, s)
        \/ UNCHANGED <<orders, reservations>>
    BY <1>3 DEF WorkerNext, DiscoverExpiryCandidates, SkipCandidate,
       RestartWorker, orderVars, stockVars
  <2> QED BY <2>1, <2>2, FollowFrame
<1>4. CASE StockNext \/ Tick \/ UNCHANGED vars
  BY <1>4, FollowStock
<1> QED BY <1>1, <1>2, <1>3, <1>4 DEF Next

LEMMA OrdersInvCorrect == Spec => []OrdersInv
<1>1. Init => OrdersInv
  BY TypeInit, FinalizedInit, DecidedInit, FollowInit DEF OrdersInv
<1>2. OrdersInv /\ [Next]_vars => OrdersInv'
  <2> SUFFICES ASSUME OrdersInv, [Next]_vars PROVE OrdersInv'
    OBVIOUS
  <2>1. TypeOK /\ OrderOfFinalized /\ DecidedCartFilled
    BY DEF OrdersInv
  <2> QED BY <2>1, TypeStep, FinalizedStep, DecidedStep, FollowStep DEF OrdersInv
<1> QED BY <1>1, <1>2, PTL DEF Spec

\* Every transition takes all reservations of its order along, whatever the
\* number of sessions, listings and workers: a pending order holds all of them, a
\* confirmed one consumed all of them, a cancelled one lost them the same way.
THEOREM ReservationsFollowCorrect == Spec => []ReservationsFollowOrder
<1>1. OrdersInv => ReservationsFollowOrder
  BY DEF OrdersInv
<1> QED BY <1>1, OrdersInvCorrect, PTL

-----------------------------------------------------------------------------
(* Outcomes are final *)

\* Every step settles a pending order, restocks a confirmed one, advances one,
\* accepts a checkout, adjusts or reserves stock, or leaves orders and stock.
LEMMA StepCases ==
  ASSUME [Next]_vars
  PROVE  \/ \E s \in Session : ConfirmOrder(s)
         \/ \E s \in Session : \E actor \in Actor :
              \E status \in {"released", "expired"} : ReleaseHeld(s, status, actor)
         \/ \E s \in Session : CancelConfirmedOrder(s)
         \/ \E s \in Session : \E to \in OrderStatus : AdvanceOrderStatus(s, to)
         \/ \E s \in Session : \E q \in Request : FinalizeCheckout(s, q)
         \/ \E n \in Snapshot : \E d \in Adjustments : AdjustInventory(n, d)
         \/ \E t \in Token : \E n \in Snapshot : \E k \in 0 .. MaxOnHand :
              ReserveInventory(t, n, k)
         \/ UNCHANGED <<orders, stockVars>>
<1>1. CASE CartNext
  BY <1>1 DEF CartNext, CreateCart, AddCartItem, UpdateCartItemQuantity,
     RemoveCartItem, SetLine, CreateCheckoutSession, DecideCheckout,
     AbortCheckout, ReplayFinalize, orderVars
<1>2. CASE OrderNext
  BY <1>2 DEF OrderNext, CancelPendingOrder
<1>3. CASE WorkerNext
  BY <1>3 DEF WorkerNext, DiscoverExpiryCandidates, ExpirePendingOrder,
     SkipCandidate, RestartWorker, orderVars, Actor
<1>4. CASE StockNext
  BY <1>4 DEF StockNext
<1>5. CASE Tick \/ UNCHANGED vars
  BY <1>5 DEF Tick, vars, orderVars, stockVars
<1> QED BY <1>1, <1>2, <1>3, <1>4, <1>5 DEF Next

\* What a step may not do to the row of one order.
OrderKept(s) ==
  /\ orders[s].status # "none" => orders'[s].status # "none"
  /\ orders[s].status \notin {"none", "pending"} => orders'[s].status # "pending"
  /\ orders[s].status = "cancelled" => orders'[s] = orders[s]

\* What a step may not do to a reservation.
ReservationKept(r) ==
  reservations[r].status \notin {"none", "held"} =>
    reservations'[r] = reservations[r]

LEMMA TransitionKeeps ==
  ASSUME TypeOK, NEW s \in Session, NEW to, NEW actor, Transition(s, to, actor),
         orders[s].status # "cancelled", to \notin {"none", "pending"},
         NEW u \in Session
  PROVE  OrderKept(u)
<1>1. CASE u = s
  BY <1>1, TransitionEffect DEF OrderKept
<1>2. CASE u # s
  BY <1>2, TransitionEffect DEF OrderKept
<1> QED BY <1>1, <1>2

LEMMA SettledKeeps ==
  ASSUME TypeOK, NEW s \in Session, AllLinked(s, "held"), NEW status,
         status # "none", reservations' = Settled(s, status), NEW r \in ResId
  PROVE  ReservationKept(r)
<1>1. CASE r \in Linked(s)
  BY <1>1 DEF AllLinked, ReservationKept
<1>2. CASE r \notin Linked(s)
  BY <1>2, SettledEffect DEF ReservationKept
<1> QED BY <1>1, <1>2

LEMMA OutcomeStep ==
  ASSUME OrdersInv, [Next]_vars
  PROVE  /\ \A u \in Session : OrderKept(u)
         /\ \A r \in ResId : ReservationKept(r)
<1> TypeOK
  BY DEF OrdersInv
<1> DEFINE Kept == /\ \A u \in Session : OrderKept(u)
                   /\ \A r \in ResId : ReservationKept(r)
<1>1. ASSUME NEW s \in Session, ConfirmOrder(s) PROVE Kept
  <2>1. \A u \in Session : OrderKept(u)
    BY <1>1, TransitionKeeps DEF ConfirmOrder
  <2>2. \A r \in ResId : ReservationKept(r)
    BY <1>1, SettledKeeps DEF ConfirmOrder
  <2> QED BY <2>1, <2>2
<1>2. ASSUME NEW s \in Session, NEW actor, NEW status \in {"released", "expired"},
             ReleaseHeld(s, status, actor)
      PROVE  Kept
  <2>1. \A u \in Session : OrderKept(u)
    BY <1>2, TransitionKeeps DEF ReleaseHeld
  <2>2. \A r \in ResId : ReservationKept(r)
    BY <1>2, SettledKeeps DEF ReleaseHeld
  <2> QED BY <2>1, <2>2
<1>3. ASSUME NEW s \in Session,
             \/ CancelConfirmedOrder(s)
             \/ \E to \in OrderStatus : AdvanceOrderStatus(s, to)
      PROVE  Kept
  <2>1. UNCHANGED reservations
    BY <1>3 DEF CancelConfirmedOrder, AdvanceOrderStatus, stockVars
  <2>2. \A u \in Session : OrderKept(u)
    BY <1>3, TransitionKeeps DEF CancelConfirmedOrder, CanCancelConfirmed,
                                 AdvanceOrderStatus, NeutralAdvance
  <2> QED BY <2>1, <2>2 DEF ReservationKept
<1>4. ASSUME NEW s \in Session, NEW q \in Request, FinalizeCheckout(s, q)
      PROVE  Kept
  <2>1. orders[s].status = "none"
    BY <1>4, FinalizeEffect DEF OrdersInv, OrderOfFinalized
  <2>2. \A u \in Session : OrderKept(u)
    BY <1>4, <2>1, FinalizeEffect DEF OrderKept
  <2>3. ASSUME NEW r \in ResId PROVE ReservationKept(r)
    BY <1>4, HeldLines DEF ReservationKept
  <2> QED BY <2>2, <2>3
<1>5. ASSUME NEW t \in Token, NEW n \in Snapshot, NEW k \in 0 .. MaxOnHand,
             ReserveInventory(t, n, k)
      PROVE  Kept
  <2>1. UNCHANGED orders
    BY <1>5 DEF ReserveInventory, orderVars
  <2>2. \A r \in ResId : ReservationKept(r)
    BY <1>5 DEF ReserveInventory, ReservationKept, TypeOK
  <2> QED BY <2>1, <2>2 DEF OrderKept
<1>6. CASE UNCHANGED <<orders, reservations>>
  BY <1>6 DEF OrderKept, ReservationKept
<1> QED BY <1>1, <1>2, <1>3, <1>4, <1>5, <1>6, StepCases
        DEF AdjustInventory, orderVars, stockVars

\* Exactly one terminal outcome: a cancelled order is never written again, a
\* confirmed one never pending again, and a reservation that was consumed,
\* released or expired never changes.
THEOREM OutcomeIsFinalCorrect == Spec => OutcomeIsFinal
<1>1. OrdersInv /\ [Next]_vars =>
        [/\ \A s \in Session :
              /\ orders[s].status # "none" => orders'[s].status # "none"
              /\ orders[s].status \notin {"none", "pending"} =>
                   orders'[s].status # "pending"
              /\ orders[s].status = "cancelled" => orders'[s] = orders[s]
         /\ \A r \in ResId :
              reservations[r].status \notin {"none", "held"} =>
                reservations'[r] = reservations[r]]_vars
  BY OutcomeStep DEF OrderKept, ReservationKept
<1> QED BY <1>1, OrdersInvCorrect, PTL DEF Spec, OutcomeIsFinal

-----------------------------------------------------------------------------
(***************************************************************************)
(* A cart is sold once and as it was decided.                              *)
(*                                                                         *)
(* The strengthening: the cart of an order is checked out (AcceptedClosed),*)
(* so neither a second session of the cart nor a cart operation passes its *)
(* guard; and a reservation row that was never written has no quantity     *)
(* (EmptyRow), so an order reserves nothing its cart does not show.        *)
(***************************************************************************)
HasOrder(s) == orders[s].status # "none"

AcceptedClosed ==
  \A s \in Session : HasOrder(s) => carts[SessionCart[s]].status = "checked_out"

ClosedAccepted ==
  \A c \in Cart : carts[c].status = "checked_out" =>
    \E s \in Session : HasOrder(s) /\ SessionCart[s] = c

SoldOnce ==
  \A s, u \in Session :
    HasOrder(s) /\ HasOrder(u) /\ SessionCart[s] = SessionCart[u] => s = u

EmptyRow ==
  \A r \in Session \X Listing :
    reservations[r].status = "none" => reservations[r].quantity = 0

SoldAsShown ==
  \A s \in Session, l \in Listing : HasOrder(s) =>
    reservations[<<s, l>>].quantity = carts[SessionCart[s]].items[l]

CartInv == /\ OrdersInv /\ AcceptedClosed /\ ClosedAccepted /\ SoldOnce
           /\ EmptyRow /\ SoldAsShown

-----------------------------------------------------------------------------
(* What steps do to carts, orders and quantities *)

\* Apart from a checkout no step checks a cart out or reopens one, makes an
\* order, writes a quantity of an order's reservation or empties its row.
LEMMA QuietSteps ==
  ASSUME OrdersInv, [Next]_vars,
         ~ \E s \in Session : \E q \in Request : FinalizeCheckout(s, q)
  PROVE  /\ \A c \in Cart : carts'[c].status = "checked_out" <=>
                            carts[c].status = "checked_out"
         /\ \A s \in Session : HasOrder(s)' <=> HasOrder(s)
         /\ \A r \in Session \X Listing :
              /\ reservations'[r].quantity = reservations[r].quantity
              /\ reservations'[r].status = "none" <=>
                 reservations[r].status = "none"
<1> TypeOK
  BY DEF OrdersInv
<1>1. \A c \in Cart : carts'[c].status = "checked_out" <=>
                      carts[c].status = "checked_out"
  <2>1. ASSUME NEW d \in Cart, CreateCart(d), NEW c \in Cart
        PROVE  carts'[c].status = "checked_out" <=> carts[c].status = "checked_out"
    <3>1. carts' = [carts EXCEPT ![d] = [carts[d] EXCEPT !.status = "active"]]
      BY <2>1 DEF CreateCart
    <3>2. carts[d] \in CartRow /\ carts[d].status = "none"
      BY <2>1 DEF CreateCart, TypeOK
    <3>3. carts'[d] = [carts[d] EXCEPT !.status = "active"]
      BY <3>1 DEF TypeOK
    <3>4. carts'[d].status = "active"
      BY <3>2, <3>3 DEF CartRow
    <3>5. c # d => carts'[c] = carts[c]
      BY <3>1 DEF TypeOK
    <3> QED BY <3>2, <3>4, <3>5
  <2>2. ASSUME NEW d \in Cart, NEW l, NEW k, SetLine(d, l, k), NEW c \in Cart
        PROVE  carts'[c].status = "checked_out" <=> carts[c].status = "checked_out"
    <3>1. carts' = [carts EXCEPT ![d] =
                      [carts[d] EXCEPT !.items = [carts[d].items EXCEPT ![l] = k]]]
      BY <2>2 DEF SetLine
    <3>2. carts[d] \in CartRow
      BY DEF TypeOK
    <3>3. carts'[d].status = carts[d].status
      BY <3>1, <3>2 DEF TypeOK, CartRow
    <3>4. c # d => carts'[c] = carts[c]
      BY <3>1 DEF TypeOK
    <3> QED BY <3>3, <3>4
  <2>3. \/ \E d \in Cart : CreateCart(d)
        \/ \E d \in Cart : \E l, k : SetLine(d, l, k)
        \/ UNCHANGED carts
    <3>1. CASE CartNext
      BY <3>1 DEF CartNext, AddCartItem, UpdateCartItemQuantity, RemoveCartItem,
         CreateCheckoutSession, DecideCheckout, AbortCheckout, ReplayFinalize
    <3>2. CASE OrderNext \/ WorkerNext
      BY <3>2, MovedOrderCarts DEF cartVars
    <3>3. CASE StockNext \/ Tick \/ UNCHANGED vars
      BY <3>3, StockFrame DEF cartVars
    <3> QED BY <3>1, <3>2, <3>3 DEF Next
  <2> QED BY <2>1, <2>2, <2>3
<1>2. \A s \in Session : HasOrder(s)' <=> HasOrder(s)
  BY OrderSteps, MovedOrderExists DEF orderVars, HasOrder
<1>3. ASSUME NEW r \in Session \X Listing
      PROVE  /\ reservations'[r].quantity = reservations[r].quantity
             /\ reservations'[r].status = "none" <=>
                reservations[r].status = "none"
  <2>1. r \in ResId /\ r \notin Token
    BY StockAssumption DEF ResId
  <2>2. ASSUME NEW s \in Session, NEW status, status # "none",
               reservations' = Settled(s, status)
        PROVE  /\ reservations'[r].quantity = reservations[r].quantity
               /\ reservations'[r].status = "none" <=>
                  reservations[r].status = "none"
    <3>1. CASE r \in Linked(s)
      BY <2>1, <2>2, <3>1, SettledEffect DEF Linked
    <3>2. CASE r \notin Linked(s)
      BY <2>1, <2>2, <3>2, SettledEffect
    <3> QED BY <3>1, <3>2
  <2>3. ASSUME NEW t \in Token, NEW n, NEW k, ReserveInventory(t, n, k)
        PROVE  reservations'[r] = reservations[r]
    BY <2>1, <2>3 DEF ReserveInventory, TypeOK
  <2>4. \/ \E s \in Session : \E status : /\ status # "none"
                                         /\ reservations' = Settled(s, status)
        \/ \E t \in Token : \E n \in Snapshot : \E k : ReserveInventory(t, n, k)
        \/ UNCHANGED reservations
    BY StepCases DEF stockVars, ConfirmOrder, ReleaseHeld, CancelConfirmedOrder,
                     AdvanceOrderStatus, AdjustInventory
  <2> QED BY <2>2, <2>3, <2>4
<1> QED BY <1>1, <1>2, <1>3

\* A checkout closes its own cart and no other, which had no order before.
LEMMA ClosedByFinalize ==
  ASSUME TypeOK, NEW s \in Session, NEW q \in Request, FinalizeCheckout(s, q)
  PROVE  /\ carts[SessionCart[s]].status = "active"
         /\ carts'[SessionCart[s]].status = "checked_out"
         /\ \A c \in Cart : /\ c # SessionCart[s] => carts'[c] = carts[c]
                            /\ carts'[c].items = carts[c].items
<1> DEFINE d == SessionCart[s]
<1>1. d \in Cart /\ carts[d] \in CartRow
  BY StockAssumption DEF TypeOK
<1>2. carts' = [carts EXCEPT ![d] = [carts[d] EXCEPT !.status = "checked_out"]]
  BY DEF FinalizeCheckout, CloseCart
<1>3. carts[d].status = "active"
  BY DEF FinalizeCheckout
<1> HIDE DEF d
<1>4. carts'[d] = [carts[d] EXCEPT !.status = "checked_out"]
  BY <1>1, <1>2 DEF TypeOK
<1>5. carts'[d].status = "checked_out" /\ carts'[d].items = carts[d].items
  BY <1>1, <1>4 DEF CartRow
<1>6. \A c \in Cart : c # d => carts'[c] = carts[c]
  BY <1>2 DEF TypeOK
<1> QED BY <1>3, <1>5, <1>6 DEF d

LEMMA CartFinalize ==
  ASSUME CartInv, NEW s \in Session, NEW q \in Request, FinalizeCheckout(s, q)
  PROVE  AcceptedClosed' /\ ClosedAccepted' /\ SoldOnce' /\ EmptyRow' /\ SoldAsShown'
<1> DEFINE c == SessionCart[s]
           lines == LinesOf(carts[c].items)
<1>0. OrdersInv /\ TypeOK /\ c \in Cart
  BY StockAssumption DEF CartInv, OrdersInv
<1>1. /\ HasOrder(s)' /\ \A u \in Session : u # s => (HasOrder(u)' <=> HasOrder(u))
  BY <1>0, FinalizeEffect DEF HasOrder
<1>2. /\ carts[c].status = "active" /\ carts'[c].status = "checked_out"
      /\ \A d \in Cart : d # c => carts'[d] = carts[d]
      /\ \A d \in Cart : carts'[d].items = carts[d].items
  BY <1>0, ClosedByFinalize
<1>3. \A u \in Session : HasOrder(u) => SessionCart[u] # c
  BY <1>2 DEF CartInv, AcceptedClosed
<1>4. \A u \in Session : SessionCart[u] \in Cart
  BY StockAssumption
<1>5. AcceptedClosed'
  BY <1>1, <1>2, <1>3, <1>4 DEF CartInv, AcceptedClosed
<1>6. ClosedAccepted'
  BY <1>1, <1>2 DEF CartInv, ClosedAccepted
<1>7. SoldOnce'
  BY <1>1, <1>3 DEF CartInv, SoldOnce
<1>8. /\ Linked(s) = {}
      /\ \A r \in {s} \X lines : /\ reservations'[r].status = "held"
                                 /\ reservations'[r].quantity = carts[c].items[r[2]]
      /\ \A r \in ResId \ ({s} \X lines) : reservations'[r] = reservations[r]
      /\ lines \subseteq Listing
  BY <1>0, HeldLines
<1>9. \A l \in Listing : l \notin lines => carts[c].items[l] = 0
  BY <1>0, NumberAssumption DEF TypeOK, CartRow, Items, LinesOf
<1> HIDE DEF lines, c
<1>10. EmptyRow'
  <2> SUFFICES ASSUME NEW r \in Session \X Listing,
                      reservations'[r].status = "none"
               PROVE  reservations'[r].quantity = 0
    BY DEF EmptyRow
  <2>1. r \notin {s} \X lines /\ r \in ResId
    BY <1>8 DEF ResId
  <2> QED BY <1>8, <2>1 DEF CartInv, EmptyRow
<1>11. SoldAsShown'
  <2> SUFFICES ASSUME NEW u \in Session, NEW l \in Listing, HasOrder(u)'
               PROVE  reservations'[<<u, l>>].quantity =
                        carts'[SessionCart[u]].items[l]
    BY DEF SoldAsShown
  <2>1. <<u, l>> \in Session \X Listing /\ <<u, l>> \in ResId
    BY DEF ResId
  <2>2. CASE u # s
    <3>1. <<u, l>> \notin {s} \X lines
      BY <2>2
    <3>2. reservations'[<<u, l>>] = reservations[<<u, l>>]
      BY <1>8, <2>1, <3>1
    <3> QED BY <1>1, <1>2, <1>4, <2>2, <3>2 DEF CartInv, SoldAsShown
  <2>3. CASE u = s /\ l \in lines
    <3>1. <<u, l>> \in {s} \X lines
      BY <2>3
    <3> QED BY <1>0, <1>2, <1>8, <2>3, <3>1 DEF c
  <2>4. CASE u = s /\ l \notin lines
    <3>1. <<u, l>> \notin {s} \X lines
      BY <2>4
    <3>2. reservations'[<<u, l>>] = reservations[<<u, l>>]
      BY <1>8, <2>1, <3>1
    <3>3. reservations[<<u, l>>].status = "none"
      BY <1>8, <2>4 DEF Linked
    <3>4. reservations[<<u, l>>].quantity = 0
      BY <2>1, <3>3 DEF CartInv, EmptyRow
    <3> QED BY <1>0, <1>2, <1>9, <2>4, <3>2, <3>4 DEF c
  <2> QED BY <2>2, <2>3, <2>4
<1> QED BY <1>5, <1>6, <1>7, <1>10, <1>11

LEMMA CartQuiet ==
  ASSUME CartInv, [Next]_vars,
         ~ \E s \in Session : \E q \in Request : FinalizeCheckout(s, q)
  PROVE  AcceptedClosed' /\ ClosedAccepted' /\ SoldOnce' /\ EmptyRow' /\ SoldAsShown'
<1>0. OrdersInv /\ TypeOK
  BY DEF CartInv, OrdersInv
<1>1. /\ \A c \in Cart : carts'[c].status = "checked_out" <=>
                         carts[c].status = "checked_out"
      /\ \A s \in Session : HasOrder(s)' <=> HasOrder(s)
      /\ \A r \in Session \X Listing :
           /\ reservations'[r].quantity = reservations[r].quantity
           /\ reservations'[r].status = "none" <=> reservations[r].status = "none"
  BY <1>0, QuietSteps
<1>2. \A s \in Session : SessionCart[s] \in Cart
  BY StockAssumption
<1>3. AcceptedClosed'
  BY <1>1, <1>2 DEF CartInv, AcceptedClosed
<1>4. ClosedAccepted' /\ SoldOnce'
  BY <1>1 DEF CartInv, ClosedAccepted, SoldOnce
<1>5. EmptyRow'
  BY <1>1 DEF CartInv, EmptyRow
<1>6. SoldAsShown'
  <2> SUFFICES ASSUME NEW s \in Session, NEW l \in Listing, HasOrder(s)'
               PROVE  reservations'[<<s, l>>].quantity =
                        carts'[SessionCart[s]].items[l]
    BY DEF SoldAsShown
  <2>1. HasOrder(s)
    BY <1>1
  <2>2. carts[SessionCart[s]].status = "checked_out"
    BY <2>1 DEF CartInv, AcceptedClosed
  <2>3. carts'[SessionCart[s]].items = carts[SessionCart[s]].items
    BY <1>0, <1>2, <2>2, ItemsChange
  <2>4. <<s, l>> \in Session \X Listing
    OBVIOUS
  <2> QED BY <1>1, <2>1, <2>3, <2>4 DEF CartInv, SoldAsShown
<1> QED BY <1>3, <1>4, <1>5, <1>6

LEMMA CartInvCorrect == Spec => []CartInv
<1> DEFINE CartParts ==
      AcceptedClosed /\ ClosedAccepted /\ SoldOnce /\ EmptyRow /\ SoldAsShown
<1>1. Init => CartParts
  <2> SUFFICES ASSUME Init PROVE CartParts
    OBVIOUS
  <2>1. \A s \in Session : ~HasOrder(s)
    BY DEF Init, NoOrder, HasOrder
  <2>2. \A c \in Cart : carts[c].status # "checked_out"
    BY DEF Init, NoCart
  <2>3. \A r \in Session \X Listing : reservations[r].quantity = 0
    BY DEF Init, NoReservation, ResId
  <2> QED BY <2>1, <2>2, <2>3 DEF AcceptedClosed, ClosedAccepted, SoldOnce,
                                  EmptyRow, SoldAsShown
<1>2. OrdersInv /\ CartParts /\ [Next]_vars => CartParts'
  <2> SUFFICES ASSUME OrdersInv, CartParts, [Next]_vars PROVE CartParts'
    OBVIOUS
  <2>1. CartInv
    BY DEF CartInv
  <2>2. CASE \E s \in Session : \E q \in Request : FinalizeCheckout(s, q)
    BY <2>1, <2>2, CartFinalize
  <2>3. CASE ~ \E s \in Session : \E q \in Request : FinalizeCheckout(s, q)
    BY <2>1, <2>3, CartQuiet
  <2> QED BY <2>2, <2>3
<1>3. OrdersInv /\ CartParts => CartInv
  BY DEF CartInv
<1> QED BY <1>1, <1>2, <1>3, OrdersInvCorrect, PTL DEF Spec

-----------------------------------------------------------------------------
(* The theorems *)

LEMMA OneOrder == CartInv => OneOrderPerCart
<1> SUFFICES ASSUME CartInv, NEW c \in Cart
             PROVE  /\ Cardinality(Accepted(c)) <= 1
                    /\ carts[c].status = "checked_out" <=> Accepted(c) # {}
                    /\ \A s \in Session : SessionCart[s] = c =>
                         (sessions[s].status = "finalized" <=> s \in Accepted(c))
                    /\ \A s \in Accepted(c), l \in Listing :
                         reservations[<<s, l>>].quantity = carts[c].items[l]
  BY DEF OneOrderPerCart
<1>1. \A s \in Session : s \in Accepted(c) <=> HasOrder(s) /\ SessionCart[s] = c
  BY DEF Accepted, HasOrder
<1>2. Accepted(c) \subseteq Session
  BY DEF Accepted
<1>3. Cardinality(Accepted(c)) <= 1
  <2>1. CASE Accepted(c) = {}
    <3>1. Cardinality(Accepted(c)) = 0
      BY <2>1, FS_EmptySet
    <3> QED BY <3>1
  <2>2. CASE Accepted(c) # {}
    <3>1. PICK s : s \in Accepted(c)
      BY <2>2
    <3>2. Accepted(c) = {s}
      BY <1>1, <1>2, <3>1 DEF CartInv, SoldOnce
    <3>3. Cardinality(Accepted(c)) = 1
      BY <3>2, FS_Singleton
    <3> QED BY <3>3
  <2> QED BY <2>1, <2>2
<1>4. carts[c].status = "checked_out" <=> Accepted(c) # {}
  BY <1>1, <1>2 DEF CartInv, AcceptedClosed, ClosedAccepted
<1>5. \A s \in Session : SessionCart[s] = c =>
        (sessions[s].status = "finalized" <=> s \in Accepted(c))
  BY <1>1 DEF CartInv, OrdersInv, OrderOfFinalized, HasOrder
<1>6. \A s \in Accepted(c), l \in Listing :
        reservations[<<s, l>>].quantity = carts[c].items[l]
  BY <1>1, <1>2 DEF CartInv, SoldAsShown
<1> QED BY <1>3, <1>4, <1>5, <1>6

\* However many sessions, requests and cart edits race: a cart becomes at most
\* one order, which reserves the quantities the cart shows for ever after.
THEOREM OneOrderPerCartCorrect == Spec => []OneOrderPerCart
BY OneOrder, CartInvCorrect, PTL

\* The lines a checkout decided on are the lines of its order: no step changes
\* them in between, nor after the acceptance.
THEOREM AcceptedCartFrozenCorrect == Spec => AcceptedCartFrozen
<1>1. CartInv /\ [Next]_vars =>
        [\A c \in Cart :
           (\E s \in deciding : SessionCart[s] = c) \/ Accepted(c) # {}
             => carts'[c].items = carts[c].items]_vars
  <2> SUFFICES ASSUME CartInv, [Next]_vars, NEW c \in Cart,
                      (\E s \in deciding : SessionCart[s] = c) \/ Accepted(c) # {}
               PROVE  carts'[c].items = carts[c].items
    OBVIOUS
  <2>1. TypeOK
    BY DEF CartInv, OrdersInv
  <2>2. Accepted(c) # {} => carts[c].status = "checked_out"
    BY DEF Accepted, CartInv, AcceptedClosed, HasOrder
  <2>3. (\E s \in deciding : SessionCart[s] = c) => CartLocked(c)
    BY DEF CartLocked
  <2> QED BY <2>1, <2>2, <2>3, ItemsChange
<1> QED BY <1>1, CartInvCorrect, PTL DEF Spec, AcceptedCartFrozen
=============================================================================
