------------------------ MODULE OrderInventoryProofs ------------------------
(***************************************************************************)
(* Proofs about OrderInventory, for every value of its constants: the      *)
(* algebra of the sums it is written with, type correctness, and what      *)
(* holds of an order without looking at its stock: it belongs to a         *)
(* finalised session, it has a number of its own, its timeline replays to  *)
(* it, its answers are its own, and it lives as OrderLifecycle promises.   *)
(***************************************************************************)
EXTENDS OrderInventory, FiniteSetTheorems, TLAPS

-----------------------------------------------------------------------------
(* The algebra of Quantity: it is a natural number, adds up over disjoint   *)
(* sets, and depends on nothing but the quantities it sums.                 *)

\* A finite set of natural quantities has finitely many units.
LEMMA UnitsFinite ==
  ASSUME NEW R, IsFiniteSet(R), NEW q, \A r \in R : q[r] \in Nat
  PROVE  IsFiniteSet(Units(R, q))
<1> DEFINE f == [r \in R |-> {r} \X (1 .. q[r])]
           B == {{r} \X (1 .. q[r]) : r \in R}
<1>1. f \in Surjection(R, B)
  BY DEF Surjection
<1>2. IsFiniteSet(B)
  <2> HIDE DEF f, B
  <2> QED BY <1>1, FS_Surjection
<1>3. ASSUME NEW b \in B PROVE IsFiniteSet(b)
  <2>1. PICK r \in R : b = {r} \X (1 .. q[r])
    OBVIOUS
  <2>2. IsFiniteSet({r})
    BY FS_Singleton
  <2>3. IsFiniteSet(1 .. q[r])
    <3>1. q[r] \in Int
      OBVIOUS
    <3> QED BY <3>1, FS_Interval
  <2> QED BY <2>1, <2>2, <2>3, FS_Product
<1>4. IsFiniteSet(UNION B)
  <2> HIDE DEF B
  <2> QED BY <1>2, <1>3, FS_UNION
<1> QED BY <1>4 DEF Units

LEMMA QuantityType ==
  ASSUME NEW R, IsFiniteSet(R), NEW q, \A r \in R : q[r] \in Nat
  PROVE  Quantity(R, q) \in Nat
BY UnitsFinite, FS_CardinalityType DEF Quantity

LEMMA QuantityEmpty ==
  ASSUME NEW q PROVE Quantity({}, q) = 0
<1>1. Units({}, q) = {}
  BY DEF Units
<1> QED BY <1>1, FS_EmptySet DEF Quantity

\* Only the quantities of the summed elements count.
LEMMA QuantityCongruence ==
  ASSUME NEW R, NEW q, NEW p, \A r \in R : q[r] = p[r]
  PROVE  Quantity(R, q) = Quantity(R, p)
<1>1. Units(R, q) = Units(R, p)
  <2>1. ASSUME NEW u PROVE u \in Units(R, q) <=> u \in Units(R, p)
    BY DEF Units
  <2> QED BY <2>1
<1> QED BY <1>1 DEF Quantity

LEMMA QuantityDisjointUnion ==
  ASSUME NEW R, IsFiniteSet(R), NEW T, IsFiniteSet(T), R \cap T = {},
         NEW q, \A r \in R \cup T : q[r] \in Nat
  PROVE  Quantity(R \cup T, q) = Quantity(R, q) + Quantity(T, q)
<1>1. Units(R \cup T, q) = Units(R, q) \cup Units(T, q)
  <2>1. ASSUME NEW u
        PROVE u \in Units(R \cup T, q) <=> u \in Units(R, q) \cup Units(T, q)
    BY DEF Units
  <2> QED BY <2>1
<1>2. Units(R, q) \cap Units(T, q) = {}
  <2>1. ASSUME NEW u, u \in Units(R, q), u \in Units(T, q) PROVE FALSE
    <3>1. PICK r \in R : u \in {r} \X (1 .. q[r])
      BY <2>1 DEF Units
    <3>2. PICK t \in T : u \in {t} \X (1 .. q[t])
      BY <2>1 DEF Units
    <3>3. u[1] = r /\ u[1] = t
      BY <3>1, <3>2
    <3> QED BY <3>3
  <2> QED BY <2>1
<1>3. IsFiniteSet(Units(R, q)) /\ IsFiniteSet(Units(T, q))
  BY UnitsFinite
<1>4. /\ Cardinality(Units(R, q)) \in Nat
      /\ Cardinality(Units(T, q)) \in Nat
  BY <1>3, FS_CardinalityType
<1>5. Cardinality(Units(R, q) \cup Units(T, q)) =
        Cardinality(Units(R, q)) + Cardinality(Units(T, q)) - 0
  BY <1>2, <1>3, FS_Union, FS_EmptySet
<1>6. Quantity(R \cup T, q) = Cardinality(Units(R, q) \cup Units(T, q))
  BY <1>1 DEF Quantity
<1>7. /\ Quantity(R, q) = Cardinality(Units(R, q))
      /\ Quantity(T, q) = Cardinality(Units(T, q))
  BY DEF Quantity
<1> QED BY <1>4, <1>5, <1>6, <1>7

LEMMA QuantityDifference ==
  ASSUME NEW R, IsFiniteSet(R), NEW T \in SUBSET R,
         NEW q, \A r \in R : q[r] \in Nat
  PROVE  /\ Quantity(R \ T, q) = Quantity(R, q) - Quantity(T, q)
         /\ Quantity(T, q) <= Quantity(R, q)
<1>1. IsFiniteSet(T) /\ IsFiniteSet(R \ T)
  BY FS_Subset, FS_Difference
<1>2. Quantity((R \ T) \cup T, q) = Quantity(R \ T, q) + Quantity(T, q)
  BY <1>1, QuantityDisjointUnion
<1>3. (R \ T) \cup T = R
  OBVIOUS
<1>4. /\ Quantity(T, q) \in Nat
      /\ Quantity(R \ T, q) \in Nat
  BY <1>1, QuantityType
<1>5. Quantity(R, q) = Quantity(R \ T, q) + Quantity(T, q)
  BY <1>2, <1>3
<1> QED BY <1>4, <1>5

LEMMA QuantitySingleton ==
  ASSUME NEW r, NEW q, q[r] \in Nat
  PROVE  Quantity({r}, q) = q[r]
<1>1. Units({r}, q) = {r} \X (1 .. q[r])
  BY DEF Units
<1>2. IsFiniteSet({r}) /\ Cardinality({r}) = 1
  BY FS_Singleton
<1>3. IsFiniteSet(1 .. q[r]) /\ Cardinality(1 .. q[r]) = q[r]
  BY FS_Interval
<1>4. Cardinality({r} \X (1 .. q[r])) = Cardinality({r}) * Cardinality(1 .. q[r])
  BY <1>2, <1>3, FS_Product, ZenonT(30)
<1>5. Cardinality({r} \X (1 .. q[r])) = q[r]
  <2>1. Cardinality({r} \X (1 .. q[r])) = 1 * q[r]
    BY <1>2, <1>3, <1>4, Zenon
  <2> QED BY <2>1
<1>6. Quantity({r}, q) = Cardinality({r} \X (1 .. q[r]))
  BY <1>1 DEF Quantity
<1> QED BY <1>5, <1>6

\* The reservations of session s for the lines L.
Tagged(s, L) == {s} \X L

\* Pairing every element with the same s changes no quantity.
LEMMA QuantityTagged ==
  ASSUME NEW L, IsFiniteSet(L), NEW s, NEW p, \A l \in L : p[l] \in Nat,
         NEW q, \A l \in L : q[<<s, l>>] = p[l]
  PROVE  Quantity(Tagged(s, L), q) = Quantity(L, p)
<1> DEFINE U == Units(L, p)
           V == Units({s} \X L, q)
           f == [u \in U |-> <<<<s, u[1]>>, u[2]>>]
<1>1. \A u : u \in U <=> \E l \in L : \E i \in 1 .. p[l] : u = <<l, i>>
  BY DEF Units
<1>2. \A v : v \in V <=> \E l \in L : \E i \in 1 .. p[l] : v = <<<<s, l>>, i>>
  <2>1. ASSUME NEW v, v \in V
        PROVE \E l \in L : \E i \in 1 .. p[l] : v = <<<<s, l>>, i>>
    <3>1. PICK r \in {s} \X L : v \in {r} \X (1 .. q[r])
      BY <2>1 DEF Units
    <3>2. PICK l \in L : r = <<s, l>>
      OBVIOUS
    <3> QED BY <3>1, <3>2
  <2>2. ASSUME NEW v, NEW l \in L, NEW i \in 1 .. p[l], v = <<<<s, l>>, i>>
        PROVE v \in V
    <3>1. <<s, l>> \in {s} \X L /\ q[<<s, l>>] = p[l]
      OBVIOUS
    <3>2. v \in {<<s, l>>} \X (1 .. q[<<s, l>>])
      BY <2>2, <3>1
    <3> QED BY <3>1, <3>2 DEF Units
  <2> QED BY <2>1, <2>2
<1>3. f \in [U -> V]
  <2> HIDE DEF U, V
  <2> QED BY <1>1, <1>2
<1>4. f \in Bijection(U, V)
  <2> HIDE DEF U, V
  <2>1. \A u, w \in U : f[u] = f[w] => u = w
    BY <1>1
  <2>2. ASSUME NEW v \in V PROVE \E u \in U : f[u] = v
    <3>1. PICK l \in L : \E i \in 1 .. p[l] : v = <<<<s, l>>, i>>
      BY <1>2
    <3>2. PICK i \in 1 .. p[l] : v = <<<<s, l>>, i>>
      BY <3>1
    <3>3. <<l, i>> \in U
      BY <1>1
    <3>4. f[<<l, i>>] = v
      BY <3>2, <3>3
    <3> QED BY <3>3, <3>4
  <2> QED BY <1>3, <2>1, <2>2 DEF Bijection, Injection, Surjection, IsInjective
<1>5. IsFiniteSet(U)
  BY UnitsFinite
<1> QED
  <2> HIDE DEF U, V
  <2>1. Cardinality(V) = Cardinality(U)
    BY <1>4, <1>5, FS_Bijection DEF ExistsBijection
  <2> QED BY <2>1 DEF U, V, Quantity, Tagged

\* What the reservations of a checkout, one per line, take from snapshot n.
LEMMA DemandTagged ==
  ASSUME NEW lines, IsFiniteSet(lines), NEW q, \A l \in lines : q[l] \in Nat,
         NEW s, NEW alloc, NEW n, NEW f, \A l \in lines : f[<<s, l>>] = q[l]
  PROVE  Quantity(Tagged(s, {l \in lines : alloc[l] = n}), f) =
           Demand(alloc, lines, q, n)
<1>1. PICK L : L = {l \in lines : alloc[l] = n}
  OBVIOUS
<1>2. L \subseteq lines
  BY <1>1
<1>3. IsFiniteSet(L)
  BY <1>2, FS_Subset
<1>4. \A l \in L : q[l] \in Nat
  BY <1>2
<1>5. \A l \in L : f[<<s, l>>] = q[l]
  BY <1>2
<1>6. Quantity(Tagged(s, L), f) = Quantity(L, q)
  BY <1>3, <1>4, <1>5, QuantityTagged
<1> QED BY <1>1, <1>6 DEF Demand

-----------------------------------------------------------------------------
(* Sums over reservations *)

\* There are finitely many reservation rows.
LEMMA ResIdFinite == IsFiniteSet(ResId)
<1>1. IsFiniteSet(Session \X Listing)
  BY StockAssumption, FS_Product
<1> QED BY <1>1, StockAssumption, FS_Union DEF ResId

\* Every reservation's quantity, and what an order takes from a snapshot, is a
\* natural number.
LEMMA ReservationSum ==
  ASSUME TypeOK, NEW R \in SUBSET ResId
  PROVE  IsFiniteSet(R) /\ Quantity(R, QuantityOf) \in Nat
<1>1. IsFiniteSet(R)
  BY ResIdFinite, FS_Subset
<1>2. \A r \in R : QuantityOf[r] \in Nat
  BY DEF TypeOK, QuantityOf, Reservation
<1> QED BY <1>1, <1>2, QuantityType

LEMMA AggregateType ==
  ASSUME TypeOK, NEW s \in Session, NEW n \in Snapshot
  PROVE  /\ Aggregate(s, n) \in Nat
         /\ n \notin Touched(s) => Aggregate(s, n) = 0
<1> DEFINE R == {r \in Linked(s) : reservations[r].snapshot = n}
<1>1. R \in SUBSET ResId
  BY DEF Linked, ResId
<1>2. ASSUME n \notin Touched(s) PROVE R = {}
  BY <1>2 DEF Touched
<1>3. Aggregate(s, n) = Quantity(R, QuantityOf)
  BY DEF Aggregate
<1> HIDE DEF R
<1> QED BY <1>1, <1>2, <1>3, ReservationSum, QuantityEmpty

\* What a checkout takes from a snapshot is a natural number.
LEMMA DemandType ==
  ASSUME NEW items \in Items, NEW alloc, NEW n
  PROVE  Demand(alloc, LinesOf(items), items, n) \in Nat
<1> DEFINE L == {l \in LinesOf(items) : alloc[l] = n}
<1>1. IsFiniteSet(L)
  BY StockAssumption, FS_Subset DEF LinesOf
<1>2. \A l \in L : items[l] \in Nat
  BY NumberAssumption DEF LinesOf, Items
<1>3. Quantity(L, items) \in Nat
  <2> HIDE DEF L
  <2> QED BY <1>1, <1>2, QuantityType
<1> QED BY <1>3 DEF Demand

-----------------------------------------------------------------------------
(* Rows with some columns updated *)

LEMMA SessionOpened ==
  ASSUME NEW row \in SessionRow, NEW e \in Nat
  PROVE  [row EXCEPT !.status = "open", !.expires = e] \in SessionRow
BY DEF SessionRow

LEMMA SessionFinalized ==
  ASSUME NEW row \in SessionRow, NEW f \in Request \X Items
  PROVE  [row EXCEPT !.status = "finalized", !.fingerprint = f] \in SessionRow
BY DEF SessionRow

LEMMA OrderUpdated ==
  ASSUME NEW row \in OrderRow, NEW to \in OrderStatus, NEW v \in Nat
  PROVE  [row EXCEPT !.status = to, !.version = v] \in OrderRow
BY DEF OrderRow

LEMMA MovementUpdated ==
  ASSUME NEW row \in MovementTotals, NEW x \in Int
  PROVE  /\ [row EXCEPT !.adjustment = x] \in MovementTotals
         /\ [row EXCEPT !.reservation_consumed = x] \in MovementTotals
         /\ [row EXCEPT !.order_cancellation_restock = x] \in MovementTotals
BY DEF MovementTotals

LEMMA MovementColumns ==
  ASSUME NEW row \in MovementTotals
  PROVE  /\ row.adjustment \in Int
         /\ row.reservation_consumed \in Int
         /\ row.order_cancellation_restock \in Int
BY DEF MovementTotals

-----------------------------------------------------------------------------
(* Type correctness, one lemma per group of actions *)

LEMMA EmptyRows ==
  /\ NoCart \in CartRow /\ NoSession \in SessionRow /\ NoOrder \in OrderRow
  /\ NoReservation \in Reservation /\ NoMovement \in MovementTotals
<1>1. NoCart \in CartRow
  BY NumberAssumption DEF NoCart, CartRow, Items
<1>2. NoSession \in SessionRow
  BY DEF NoSession, SessionRow
<1>3. NoOrder \in OrderRow
  BY DEF NoOrder, OrderRow, OrderStatus
<1>4. NoReservation \in Reservation
  BY DEF NoReservation, Reservation, ReservationStatus
<1>5. NoMovement \in MovementTotals
  BY DEF NoMovement, MovementTotals
<1> QED BY <1>1, <1>2, <1>3, <1>4, <1>5

LEMMA TypeInit == Init => TypeOK
BY StockAssumption, EmptyRows DEF Init, TypeOK

\* Cart and session operations short of a checkout.
LEMMA TypeCart ==
  ASSUME TypeOK, NEW c \in Cart,
         \/ CreateCart(c)
         \/ \E l \in Listing, k \in 0 .. MaxLineQuantity :
              \/ AddCartItem(c, l, k)
              \/ UpdateCartItemQuantity(c, l, k)
         \/ \E l \in Listing : RemoveCartItem(c, l)
  PROVE  TypeOK'
<1> USE NumberAssumption DEF cartVars, orderVars, stockVars
<1>1. UNCHANGED <<clock, sessions, deciding, answered, orderVars, stockVars,
                  found>>
  BY DEF CreateCart, AddCartItem, UpdateCartItemQuantity, RemoveCartItem, SetLine
<1>2. carts' \in [Cart -> CartRow]
  <2>1. CASE CreateCart(c)
    BY <2>1 DEF TypeOK, CreateCart, CartRow
  <2>2. ASSUME NEW l \in Listing, NEW k \in 0 .. MaxLineQuantity, SetLine(c, l, k)
        PROVE  carts' \in [Cart -> CartRow]
    BY <2>2 DEF TypeOK, SetLine, CartRow, Items
  <2>3. ASSUME NEW l \in Listing, NEW k \in 0 .. MaxLineQuantity,
               AddCartItem(c, l, k)
        PROVE  carts' \in [Cart -> CartRow]
    <3>1. carts[c].items[l] + k \in 0 .. MaxLineQuantity
      BY <2>3 DEF TypeOK, AddCartItem, CartRow, Items
    <3> QED BY <2>2, <2>3, <3>1 DEF AddCartItem
  <2>4. ASSUME NEW l \in Listing, NEW k \in 0 .. MaxLineQuantity,
               UpdateCartItemQuantity(c, l, k)
        PROVE  carts' \in [Cart -> CartRow]
    BY <2>2, <2>4 DEF UpdateCartItemQuantity
  <2>5. ASSUME NEW l \in Listing, RemoveCartItem(c, l)
        PROVE  carts' \in [Cart -> CartRow]
    BY <2>2, <2>5 DEF RemoveCartItem
  <2> QED BY <2>1, <2>3, <2>4, <2>5
<1> QED BY <1>1, <1>2 DEF TypeOK

LEMMA TypeSession ==
  ASSUME TypeOK, NEW s \in Session,
         CreateCheckoutSession(s) \/ DecideCheckout(s) \/ AbortCheckout(s)
  PROVE  TypeOK'
<1> USE DEF orderVars, stockVars
<1>1. CASE CreateCheckoutSession(s)
  <2>1. clock + SessionLifetime \in Nat
    BY NumberAssumption DEF TypeOK
  <2>2. [sessions[s] EXCEPT !.status = "open", !.expires = clock + SessionLifetime]
          \in SessionRow
    BY <2>1, SessionOpened DEF TypeOK
  <2>3. sessions' \in [Session -> SessionRow]
    BY <1>1, <2>2 DEF TypeOK, CreateCheckoutSession
  <2> QED BY <1>1, <2>3 DEF TypeOK, CreateCheckoutSession
<1>2. CASE DecideCheckout(s)
  BY <1>2 DEF TypeOK, DecideCheckout
<1>3. CASE AbortCheckout(s)
  BY <1>3 DEF TypeOK, AbortCheckout
<1> QED BY <1>1, <1>2, <1>3

LEMMA TypeFinalize ==
  ASSUME TypeOK, NEW s \in Session, NEW q \in Request, FinalizeCheckout(s, q)
  PROVE  TypeOK'
<1> DEFINE c == SessionCart[s]
           t == CartStore[c]
           items == carts[c].items
           lines == LinesOf(items)
           free == [n \in Snapshot |-> Available(n)]
           deadline == clock + ConfirmationDuration
<1>1. c \in Cart /\ t \in Store /\ items \in Items /\ lines \subseteq Listing
  BY StockAssumption DEF TypeOK, CartRow, LinesOf
<1>2. deadline \in Nat
  BY NumberAssumption DEF TypeOK
<1>3. PICK alloc \in [lines -> Snapshot] :
        /\ reserved' =
             [n \in Snapshot |-> reserved[n] + Demand(alloc, lines, items, n)]
        /\ reservations' = HoldLines(s, lines, alloc, items, deadline)
  BY DEF FinalizeCheckout
<1>4. reserved' \in [Snapshot -> Nat]
  <2>1. \A n \in Snapshot : Demand(alloc, lines, items, n) \in Nat
    BY <1>1, DemandType
  <2> QED BY <1>3, <2>1 DEF TypeOK
<1>5. reservations' \in [ResId -> Reservation]
  <2>1. ASSUME NEW r \in ResId PROVE reservations'[r] \in Reservation
    <3>1. CASE r \in {s} \X lines
      <4>1. r[2] \in lines /\ alloc[r[2]] \in Snapshot /\ items[r[2]] \in Nat
        BY <1>1, <3>1, NumberAssumption DEF Items
      <4>2. reservations'[r] =
              [status |-> "held", snapshot |-> alloc[r[2]],
               quantity |-> items[r[2]], expires |-> deadline]
        BY <1>3, <3>1 DEF HoldLines
      <4> HIDE DEF items, lines, deadline
      <4> QED BY <4>1, <4>2, <1>2 DEF Reservation, ReservationStatus
    <3>2. CASE r \notin {s} \X lines
      BY <1>3, <3>2 DEF HoldLines, TypeOK
    <3> QED BY <3>1, <3>2
  <2> QED BY <1>3, <2>1 DEF HoldLines
<1>6. NextOrderNumber(t) \in Nat
  BY <1>1 DEF NextOrderNumber, TypeOK
<1>7. sequence' \in [Store -> Nat]
  BY <1>1, <1>6 DEF FinalizeCheckout, TypeOK
<1>8. orders' \in [Session -> OrderRow]
  BY <1>2, <1>6 DEF FinalizeCheckout, CreatedOrder, TypeOK, OrderRow, OrderStatus
<1>9. history' \in [Session -> Seq(HistoryRow)]
  <2> DEFINE row == [version |-> 1, from |-> "none", to |-> "pending",
                     actor |-> "checkout", at |-> clock]
  <2>1. row \in HistoryRow
    BY DEF TypeOK, HistoryRow, OrderStatus, Actor
  <2>2. history' = [history EXCEPT ![s] = <<row>>]
    BY DEF FinalizeCheckout, OrderCreated
  <2> HIDE DEF row
  <2> QED BY <2>1, <2>2 DEF TypeOK
<1>10. sessions' \in [Session -> SessionRow]
  <2>1. Fingerprint(q, items) \in Request \X Items
    BY <1>1 DEF Fingerprint
  <2>2. [sessions[s] EXCEPT !.status = "finalized",
                            !.fingerprint = Fingerprint(q, items)] \in SessionRow
    BY <2>1, SessionFinalized DEF TypeOK
  <2> QED BY <2>2 DEF FinalizeCheckout, TypeOK
<1>11. carts' \in [Cart -> CartRow]
  BY <1>1 DEF FinalizeCheckout, CloseCart, TypeOK, CartRow
<1>12. deciding' \subseteq Session /\ answered' \subseteq Session \X Request
  BY DEF FinalizeCheckout, TypeOK
<1>13. UNCHANGED <<clock, onHand, movements, found>>
  BY DEF FinalizeCheckout
<1> QED
  BY <1>4, <1>5, <1>7, <1>8, <1>9, <1>10, <1>11, <1>12, <1>13 DEF TypeOK

LEMMA TypeReplay ==
  ASSUME TypeOK, NEW s \in Session, NEW q \in Request, ReplayFinalize(s, q)
  PROVE  TypeOK'
BY DEF ReplayFinalize, TypeOK, orderVars, stockVars

\* The rows Transition writes.
LEMMA TypeTransition ==
  ASSUME TypeOK, NEW s \in Session, NEW to \in OrderStatus, NEW actor \in Actor,
         Transition(s, to, actor)
  PROVE  /\ orders' \in [Session -> OrderRow]
         /\ history' \in [Session -> Seq(HistoryRow)]
<1>1. orders[s] \in OrderRow /\ history[s] \in Seq(HistoryRow) /\ clock \in Nat
  BY DEF TypeOK
<1>2. orders' \in [Session -> OrderRow]
  <2> DEFINE row == [orders[s] EXCEPT !.status = to, !.version = @ + 1]
  <2>1. orders[s].version + 1 \in Nat
    BY <1>1 DEF OrderRow
  <2>2. row \in OrderRow
    BY <1>1, <2>1, OrderUpdated
  <2>3. orders' = [orders EXCEPT ![s] = row]
    BY DEF Transition
  <2> HIDE DEF row
  <2> QED BY <2>2, <2>3 DEF TypeOK
<1> DEFINE row == [version |-> orders[s].version + 1, from |-> orders[s].status,
                   to |-> to, actor |-> actor, at |-> clock]
<1>3. row \in HistoryRow
  BY <1>1 DEF HistoryRow, OrderRow
<1>4. Append(history[s], row) \in Seq(HistoryRow)
  <2> HIDE DEF row
  <2> QED BY <1>1, <1>3
<1>5. history' = [history EXCEPT ![s] = Append(history[s], row)]
  BY DEF Transition, OrderStatusChanged
<1> HIDE DEF row
<1> QED BY <1>2, <1>4, <1>5 DEF TypeOK

LEMMA TypeSettled ==
  ASSUME TypeOK, NEW s \in Session, NEW status \in ReservationStatus,
         reservations' = Settled(s, status)
  PROVE  reservations' \in [ResId -> Reservation]
BY DEF Settled, TypeOK, Reservation

LEMMA TypeConfirm ==
  ASSUME TypeOK, NEW s \in Session, ConfirmOrder(s)
  PROVE  TypeOK'
<1>1. /\ orders' \in [Session -> OrderRow]
      /\ history' \in [Session -> Seq(HistoryRow)]
  BY TypeTransition DEF ConfirmOrder, OrderStatus, Actor
<1>2. reservations' \in [ResId -> Reservation]
  BY TypeSettled DEF ConfirmOrder, ReservationStatus
<1>3. \A n \in Snapshot :
        /\ Aggregate(s, n) \in Nat
        /\ onHand[n] - Aggregate(s, n) \in Nat
        /\ reserved[n] - Aggregate(s, n) \in Nat
  <2> TAKE n \in Snapshot
  <2>1. CASE n \in Touched(s)
    BY <2>1, AggregateType DEF ConfirmOrder, CanConsume, TypeOK
  <2>2. CASE n \notin Touched(s)
    BY <2>2, AggregateType DEF TypeOK
  <2> QED BY <2>1, <2>2
<1>4. onHand' \in [Snapshot -> Nat] /\ reserved' \in [Snapshot -> Nat]
  BY <1>3 DEF ConfirmOrder
<1>5. movements' \in [Snapshot -> MovementTotals]
  <2>1. ASSUME NEW n \in Snapshot
        PROVE  [movements[n] EXCEPT !.reservation_consumed = @ - Aggregate(s, n)]
                 \in MovementTotals
    <3>1. movements[n] \in MovementTotals
      BY DEF TypeOK
    <3>2. movements[n].reservation_consumed - Aggregate(s, n) \in Int
      BY <1>3, <3>1, MovementColumns
    <3> QED BY <3>1, <3>2, MovementUpdated
  <2> QED BY <2>1 DEF ConfirmOrder
<1>6. UNCHANGED <<clock, cartVars, sequence, found>>
  BY DEF ConfirmOrder
<1> QED BY <1>1, <1>2, <1>4, <1>5, <1>6 DEF TypeOK, cartVars

LEMMA TypeRelease ==
  ASSUME TypeOK, NEW s \in Session, NEW status \in ReservationStatus,
         NEW actor \in Actor, ReleaseHeld(s, status, actor),
         found' \in [Worker -> SUBSET Session]
  PROVE  TypeOK'
<1>1. /\ orders' \in [Session -> OrderRow]
      /\ history' \in [Session -> Seq(HistoryRow)]
  BY TypeTransition DEF ReleaseHeld, OrderStatus
<1>2. reservations' \in [ResId -> Reservation]
  BY TypeSettled DEF ReleaseHeld
<1>3. \A n \in Snapshot : reserved[n] - Aggregate(s, n) \in Nat
  <2> TAKE n \in Snapshot
  <2>1. CASE n \in Touched(s)
    BY <2>1, AggregateType DEF ReleaseHeld, CanRelease, TypeOK
  <2>2. CASE n \notin Touched(s)
    BY <2>2, AggregateType DEF TypeOK
  <2> QED BY <2>1, <2>2
<1>4. reserved' \in [Snapshot -> Nat]
  BY <1>3 DEF ReleaseHeld
<1>5. UNCHANGED <<clock, cartVars, sequence, onHand, movements>>
  BY DEF ReleaseHeld
<1> QED BY <1>1, <1>2, <1>4, <1>5 DEF TypeOK, cartVars

LEMMA TypeCancelConfirmed ==
  ASSUME TypeOK, NEW s \in Session, CancelConfirmedOrder(s)
  PROVE  TypeOK'
<1>1. /\ orders' \in [Session -> OrderRow]
      /\ history' \in [Session -> Seq(HistoryRow)]
  BY TypeTransition DEF CancelConfirmedOrder, OrderStatus, Actor
<1>2. \A n \in Snapshot : Aggregate(s, n) \in Nat
  BY AggregateType
<1>3. onHand' \in [Snapshot -> Nat]
  BY <1>2 DEF CancelConfirmedOrder, TypeOK
<1>4. movements' \in [Snapshot -> MovementTotals]
  <2>1. ASSUME NEW n \in Snapshot
        PROVE  [movements[n] EXCEPT
                  !.order_cancellation_restock = @ + Aggregate(s, n)]
                 \in MovementTotals
    <3>1. movements[n] \in MovementTotals
      BY DEF TypeOK
    <3>2. movements[n].order_cancellation_restock + Aggregate(s, n) \in Int
      BY <1>2, <3>1, MovementColumns
    <3> QED BY <3>1, <3>2, MovementUpdated
  <2> QED BY <2>1 DEF CancelConfirmedOrder
<1>5. UNCHANGED <<clock, cartVars, sequence, reserved, reservations, found>>
  BY DEF CancelConfirmedOrder
<1> QED BY <1>1, <1>3, <1>4, <1>5 DEF TypeOK, cartVars

LEMMA TypeAdvance ==
  ASSUME TypeOK, NEW s \in Session, NEW to \in OrderStatus,
         AdvanceOrderStatus(s, to)
  PROVE  TypeOK'
<1>1. /\ orders' \in [Session -> OrderRow]
      /\ history' \in [Session -> Seq(HistoryRow)]
  BY TypeTransition DEF AdvanceOrderStatus, Actor
<1> QED BY <1>1 DEF AdvanceOrderStatus, TypeOK, cartVars, stockVars

LEMMA TypeOrder ==
  ASSUME TypeOK, OrderNext
  PROVE  TypeOK'
<1>1. ASSUME NEW s \in Session, NEW actor \in Actor, CancelPendingOrder(s, actor)
      PROVE  TypeOK'
  BY <1>1, TypeRelease DEF CancelPendingOrder, ReservationStatus, TypeOK
<1> QED BY <1>1, TypeConfirm, TypeCancelConfirmed, TypeAdvance DEF OrderNext

LEMMA TypeWorker ==
  ASSUME TypeOK, WorkerNext
  PROVE  TypeOK'
<1> PICK w \in Worker :
      \/ DiscoverExpiryCandidates(w)
      \/ \E s \in Session : ExpirePendingOrder(w, s) \/ SkipCandidate(w, s)
      \/ RestartWorker(w)
  BY DEF WorkerNext
<1>1. ASSUME NEW s \in Session, Drop(w, s)
      PROVE  found' \in [Worker -> SUBSET Session]
  BY <1>1 DEF Drop, TypeOK
<1>2. CASE DiscoverExpiryCandidates(w)
  BY <1>2 DEF DiscoverExpiryCandidates, TypeOK, cartVars, orderVars, stockVars
<1>3. ASSUME NEW s \in Session, ExpirePendingOrder(w, s) PROVE TypeOK'
  BY <1>1, <1>3, TypeRelease DEF ExpirePendingOrder, ReservationStatus, Actor
<1>4. ASSUME NEW s \in Session, SkipCandidate(w, s) PROVE TypeOK'
  BY <1>1, <1>4 DEF SkipCandidate, TypeOK, cartVars, orderVars, stockVars
<1>5. CASE RestartWorker(w)
  BY <1>5 DEF RestartWorker, TypeOK, cartVars, orderVars, stockVars
<1> QED BY <1>2, <1>3, <1>4, <1>5

LEMMA TypeStock ==
  ASSUME TypeOK, StockNext
  PROVE  TypeOK'
<1> PICK n \in Snapshot :
      \/ \E d \in Adjustments : AdjustInventory(n, d)
      \/ \E t \in Token, k \in 0 .. MaxOnHand : ReserveInventory(t, n, k)
  BY DEF StockNext
<1> USE DEF cartVars, orderVars
<1>1. ASSUME NEW d \in Adjustments, AdjustInventory(n, d) PROVE TypeOK'
  <2>1. d \in Int /\ onHand[n] \in Nat
    BY NumberAssumption DEF TypeOK
  <2>2. onHand[n] + d \in Nat
    BY <1>1, <2>1 DEF AdjustInventory, MayAdjust
  <2>3. onHand' \in [Snapshot -> Nat]
    BY <1>1, <2>2 DEF AdjustInventory, TypeOK
  <2>4. movements' \in [Snapshot -> MovementTotals]
    <3>1. [movements[n] EXCEPT !.adjustment = @ + d] \in MovementTotals
      <4>1. movements[n] \in MovementTotals
        BY DEF TypeOK
      <4>2. movements[n].adjustment + d \in Int
        BY <2>1, <4>1, MovementColumns
      <4> QED BY <4>1, <4>2, MovementUpdated
    <3>2. movements' = [movements EXCEPT ![n] =
                          [movements[n] EXCEPT !.adjustment = @ + d]]
      BY <1>1 DEF AdjustInventory
    <3> QED BY <3>1, <3>2 DEF TypeOK
  <2> QED BY <1>1, <2>3, <2>4 DEF AdjustInventory, TypeOK
<1>2. ASSUME NEW t \in Token, NEW k \in 0 .. MaxOnHand, ReserveInventory(t, n, k)
      PROVE  TypeOK'
  <2>1. t \in ResId /\ k \in Nat
    BY NumberAssumption DEF ResId
  <2>2. reserved' \in [Snapshot -> Nat]
    BY <1>2, <2>1 DEF ReserveInventory, TypeOK
  <2>3. reservations' \in [ResId -> Reservation]
    BY <1>2, <2>1 DEF ReserveInventory, TypeOK, Reservation, ReservationStatus
  <2> QED BY <1>2, <2>2, <2>3 DEF ReserveInventory, TypeOK
<1> QED BY <1>1, <1>2

LEMMA TypeStep == TypeOK /\ [Next]_vars => TypeOK'
<1> SUFFICES ASSUME TypeOK, [Next]_vars PROVE TypeOK'
  OBVIOUS
<1>1. CASE CartNext
  BY <1>1, TypeCart, TypeSession, TypeFinalize, TypeReplay DEF CartNext
<1>2. CASE Tick
  BY <1>2 DEF Tick, TypeOK, cartVars, orderVars, stockVars
<1>3. CASE UNCHANGED vars
  BY <1>3 DEF vars, TypeOK
<1> QED BY <1>1, <1>2, <1>3, TypeOrder, TypeWorker, TypeStock DEF Next

\* Every reachable state is well typed: no transaction writes a negative counter,
\* a dangling reservation or a malformed row.
THEOREM TypeCorrect == Spec => []TypeOK
BY TypeInit, TypeStep, PTL DEF Spec

-----------------------------------------------------------------------------
(* Sessions and orders *)

\* An order exists exactly when its session is finalised: both are written by
\* the commit of the checkout and by nothing else.
OrderOfFinalized ==
  \A s \in Session :
    orders[s].status # "none" <=> sessions[s].status = "finalized"

LEMMA FinalizedInit == Init => OrderOfFinalized
BY DEF Init, OrderOfFinalized, NoOrder, NoSession

\* Transition moves one order, appends to its timeline, and leaves its deadline,
\* its number and all other orders.
LEMMA TransitionEffect ==
  ASSUME TypeOK, NEW s \in Session, NEW to, NEW actor, Transition(s, to, actor)
  PROVE  /\ orders'[s].status = to
         /\ orders'[s].deadline = orders[s].deadline
         /\ orders'[s].number = orders[s].number
         /\ orders'[s].version = orders[s].version + 1
         /\ history'[s] = Append(history[s],
              [version |-> orders[s].version + 1, from |-> orders[s].status,
               to |-> to, actor |-> actor, at |-> clock])
         /\ \A u \in Session : u # s => /\ orders'[u] = orders[u]
                                        /\ history'[u] = history[u]
<1>1. orders[s] \in OrderRow
  BY DEF TypeOK
<1>2. orders' = [orders EXCEPT ![s] =
                   [orders[s] EXCEPT !.status = to, !.version = @ + 1]]
  BY DEF Transition
<1>3. orders'[s] = [orders[s] EXCEPT !.status = to, !.version = @ + 1]
  BY <1>2 DEF TypeOK
<1>4. /\ orders'[s].status = to
      /\ orders'[s].deadline = orders[s].deadline
      /\ orders'[s].number = orders[s].number
      /\ orders'[s].version = orders[s].version + 1
  BY <1>1, <1>3 DEF OrderRow
<1>5. \A u \in Session : u # s => orders'[u] = orders[u]
  BY <1>2 DEF TypeOK
<1>6. history' = [history EXCEPT ![s] = Append(history[s],
        [version |-> orders[s].version + 1, from |-> orders[s].status,
         to |-> to, actor |-> actor, at |-> clock])]
  BY DEF Transition, OrderStatusChanged
<1>7. /\ history'[s] = Append(history[s],
           [version |-> orders[s].version + 1, from |-> orders[s].status,
            to |-> to, actor |-> actor, at |-> clock])
      /\ \A u \in Session : u # s => history'[u] = history[u]
  BY <1>6 DEF TypeOK
<1> QED BY <1>4, <1>5, <1>7

\* A move the matrix of orders.go allows, with the rows it writes.
LegalMove(s, by, to) ==
  /\ Lifecycle!LegalTransition(orders[s].status, by, to, orders[s].deadline, clock)
  /\ Transition(s, to, by)
  /\ UNCHANGED <<clock, cartVars, sequence>>

\* Every step accepts a checkout, makes one legal move of one order, or leaves
\* orders, numbers and timelines; and the clock never goes back.
LEMMA OrderSteps ==
  ASSUME TypeOK, [Next]_vars
  PROVE  \/ \E s \in Session : \E q \in Request : FinalizeCheckout(s, q)
         \/ \E s \in Session : \E by \in Actor : \E to \in OrderStatus :
              LegalMove(s, by, to)
         \/ UNCHANGED orderVars /\ (clock' = clock \/ clock' = clock + 1)
<1> USE DEF LegalMove, Lifecycle!LegalTransition, Lifecycle!SellerMoves
<1>1. CASE CartNext
  BY <1>1 DEF CartNext, CreateCart, AddCartItem, UpdateCartItemQuantity,
     RemoveCartItem, SetLine, CreateCheckoutSession, DecideCheckout,
     AbortCheckout, ReplayFinalize
<1>2. CASE OrderNext
  <2> PICK s \in Session : \/ ConfirmOrder(s)
                           \/ \E actor \in Actor : CancelPendingOrder(s, actor)
                           \/ CancelConfirmedOrder(s)
                           \/ \E to \in OrderStatus : AdvanceOrderStatus(s, to)
    BY <1>2 DEF OrderNext
  <2>1. CASE ConfirmOrder(s)
    <3>1. LegalMove(s, "seller", "confirmed")
      BY <2>1 DEF ConfirmOrder, BeforeDeadline
    <3> QED BY <3>1 DEF Actor, OrderStatus
  <2>2. ASSUME NEW actor \in Actor, CancelPendingOrder(s, actor)
        PROVE  LegalMove(s, actor, "cancelled")
    BY <2>2 DEF CancelPendingOrder, ReleaseHeld
  <2>3. CASE CancelConfirmedOrder(s)
    <3>1. LegalMove(s, "seller", "cancelled")
      BY <2>3 DEF CancelConfirmedOrder, CanCancelConfirmed
    <3> QED BY <3>1 DEF Actor, OrderStatus
  <2>4. ASSUME NEW to \in OrderStatus, AdvanceOrderStatus(s, to)
        PROVE  LegalMove(s, "seller", to)
    BY <2>4 DEF AdvanceOrderStatus, NeutralAdvance
  <2> QED BY <2>1, <2>2, <2>3, <2>4 DEF Actor, OrderStatus
<1>3. CASE WorkerNext
  <2>1. ASSUME NEW w \in Worker, NEW s \in Session, ExpirePendingOrder(w, s)
        PROVE  LegalMove(s, "scheduler", "cancelled")
    <3>1. clock >= orders[s].deadline
      BY <2>1 DEF ExpirePendingOrder, Overdue, BeforeDeadline, TypeOK, OrderRow
    <3> QED BY <2>1, <3>1 DEF ExpirePendingOrder, ReleaseHeld
  <2>2. \/ \E w \in Worker : \E s \in Session : ExpirePendingOrder(w, s)
        \/ UNCHANGED <<clock, orderVars>>
    BY <1>3 DEF WorkerNext, DiscoverExpiryCandidates, SkipCandidate, RestartWorker
  <2> QED BY <2>1, <2>2 DEF Actor, OrderStatus
<1>4. CASE StockNext
  BY <1>4 DEF StockNext, AdjustInventory, ReserveInventory
<1>5. CASE Tick \/ UNCHANGED vars
  BY <1>5 DEF Tick, vars, orderVars
<1> QED BY <1>1, <1>2, <1>3, <1>4, <1>5 DEF Next

\* No transition of an order that exists makes it disappear.
LEMMA MovedOrderExists ==
  ASSUME TypeOK, NEW u \in Session, NEW by, NEW to, LegalMove(u, by, to),
         NEW s \in Session
  PROVE  orders'[s].status # "none" <=> orders[s].status # "none"
<1>1. orders[u].status # "none" /\ to # "none"
  BY DEF LegalMove, Lifecycle!LegalTransition, Lifecycle!SellerMoves
<1>2. CASE s = u
  BY <1>1, <1>2, TransitionEffect DEF LegalMove
<1>3. CASE s # u
  BY <1>3, TransitionEffect DEF LegalMove
<1> QED BY <1>2, <1>3

\* Order transitions and workers leave carts and sessions alone.
LEMMA MovedOrderCarts ==
  ASSUME OrderNext \/ WorkerNext
  PROVE  UNCHANGED cartVars
BY DEF OrderNext, WorkerNext, ConfirmOrder, CancelPendingOrder, ReleaseHeld,
       CancelConfirmedOrder, AdvanceOrderStatus, DiscoverExpiryCandidates,
       ExpirePendingOrder, SkipCandidate, RestartWorker

\* Stock operations and the clock leave carts, sessions and orders alone.
LEMMA StockFrame ==
  ASSUME StockNext \/ Tick \/ UNCHANGED vars
  PROVE  UNCHANGED cartVars /\ UNCHANGED orderVars
BY DEF StockNext, AdjustInventory, ReserveInventory, Tick, vars, cartVars,
       orderVars

\* A checkout finalises an open session and accepts its order.
LEMMA FinalizeEffect ==
  ASSUME TypeOK, NEW s \in Session, NEW q \in Request, FinalizeCheckout(s, q)
  PROVE  /\ sessions[s].status = "open"
         /\ orders'[s].status = "pending"
         /\ orders'[s].deadline = clock + ConfirmationDuration
         /\ orders'[s].number = NextOrderNumber(CartStore[SessionCart[s]])
         /\ orders'[s].version = 1
         /\ history'[s] = <<[version |-> 1, from |-> "none", to |-> "pending",
                             actor |-> "checkout", at |-> clock]>>
         /\ sessions'[s].status = "finalized"
         /\ sessions'[s].fingerprint = <<q, carts[SessionCart[s]].items>>
         /\ \A u \in Session : u # s => /\ orders'[u] = orders[u]
                                        /\ sessions'[u] = sessions[u]
                                        /\ history'[u] = history[u]
<1>1. orders' = [orders EXCEPT ![s] =
         [status |-> "pending", number |-> NextOrderNumber(CartStore[SessionCart[s]]),
          deadline |-> clock + ConfirmationDuration, version |-> 1]]
  BY DEF FinalizeCheckout, CreatedOrder
<1>2. /\ orders'[s].status = "pending"
      /\ orders'[s].deadline = clock + ConfirmationDuration
      /\ orders'[s].number = NextOrderNumber(CartStore[SessionCart[s]])
      /\ orders'[s].version = 1
      /\ \A u \in Session : u # s => orders'[u] = orders[u]
  BY <1>1 DEF TypeOK
<1>3. sessions[s] \in SessionRow
  BY DEF TypeOK
<1> DEFINE f == <<q, carts[SessionCart[s]].items>>
<1>4. sessions' = [sessions EXCEPT ![s] =
        [sessions[s] EXCEPT !.status = "finalized", !.fingerprint = f]]
  BY DEF FinalizeCheckout, Fingerprint
<1> HIDE DEF f
<1>5. /\ sessions'[s].status = "finalized"
      /\ sessions'[s].fingerprint = f
      /\ \A u \in Session : u # s => sessions'[u] = sessions[u]
  BY <1>3, <1>4 DEF TypeOK, SessionRow
<1>6. sessions[s].status = "open"
  BY DEF FinalizeCheckout
<1>7. history' = [history EXCEPT ![s] =
        <<[version |-> 1, from |-> "none", to |-> "pending",
           actor |-> "checkout", at |-> clock]>>]
  BY DEF FinalizeCheckout, OrderCreated
<1>8. /\ history'[s] = <<[version |-> 1, from |-> "none", to |-> "pending",
                          actor |-> "checkout", at |-> clock]>>
      /\ \A u \in Session : u # s => history'[u] = history[u]
  BY <1>7 DEF TypeOK
<1> QED BY <1>2, <1>5, <1>6, <1>8 DEF f

\* Opening a session writes no fingerprint; only a checkout does.
LEMMA SessionSteps ==
  ASSUME TypeOK, [Next]_vars,
         ~ \E s \in Session : \E q \in Request : FinalizeCheckout(s, q),
         NEW u \in Session
  PROVE  /\ sessions'[u].fingerprint = sessions[u].fingerprint
         /\ sessions'[u].status = "finalized" <=> sessions[u].status = "finalized"
<1>1. CASE CartNext
  <2>1. ASSUME NEW s \in Session, CreateCheckoutSession(s)
        PROVE  /\ sessions'[u].fingerprint = sessions[u].fingerprint
               /\ sessions'[u].status = "finalized" <=>
                  sessions[u].status = "finalized"
    <3>1. sessions[s] \in SessionRow /\ sessions[s].status = "none"
      BY <2>1 DEF TypeOK, CreateCheckoutSession
    <3>2. sessions' = [sessions EXCEPT ![s] = [sessions[s] EXCEPT
                         !.status = "open", !.expires = clock + SessionLifetime]]
      BY <2>1 DEF CreateCheckoutSession
    <3>3. CASE u = s
      BY <3>1, <3>2, <3>3 DEF TypeOK, SessionRow
    <3>4. CASE u # s
      BY <3>2, <3>4 DEF TypeOK
    <3> QED BY <3>3, <3>4
  <2>2. \/ \E s \in Session : CreateCheckoutSession(s)
        \/ UNCHANGED sessions
    BY <1>1 DEF CartNext, CreateCart, AddCartItem, UpdateCartItemQuantity,
       RemoveCartItem, SetLine, DecideCheckout, AbortCheckout, ReplayFinalize
  <2> QED BY <2>1, <2>2
<1>2. CASE OrderNext \/ WorkerNext
  BY <1>2, MovedOrderCarts DEF cartVars
<1>3. CASE StockNext \/ Tick \/ UNCHANGED vars
  BY <1>3, StockFrame DEF cartVars
<1> QED BY <1>1, <1>2, <1>3 DEF Next

LEMMA FinalizedStep ==
  ASSUME TypeOK, OrderOfFinalized, [Next]_vars
  PROVE  OrderOfFinalized'
<1>1. ASSUME NEW s \in Session, NEW q \in Request, FinalizeCheckout(s, q)
      PROVE  OrderOfFinalized'
  BY <1>1, FinalizeEffect DEF OrderOfFinalized
<1>2. CASE ~ \E s \in Session : \E q \in Request : FinalizeCheckout(s, q)
  <2>1. \A u \in Session : orders'[u].status # "none" <=> orders[u].status # "none"
    BY <1>2, OrderSteps, MovedOrderExists DEF orderVars
  <2> QED BY <1>2, <2>1, SessionSteps DEF OrderOfFinalized
<1> QED BY <1>1, <1>2

LEMMA FinalizedCorrect == Spec => [](TypeOK /\ OrderOfFinalized)
BY FinalizedInit, FinalizedStep, TypeInit, TypeStep, PTL DEF Spec

-----------------------------------------------------------------------------
(* Answers *)

\* Whom a step tells of a success: the caller of a checkout or of a replay.
LEMMA AnswerSteps ==
  ASSUME [Next]_vars
  PROVE  \/ \E s \in Session : \E q \in Request : FinalizeCheckout(s, q)
         \/ \E s \in Session : \E q \in Request : ReplayFinalize(s, q)
         \/ UNCHANGED answered
<1>1. CASE CartNext
  BY <1>1 DEF CartNext, CreateCart, AddCartItem, UpdateCartItemQuantity,
     RemoveCartItem, SetLine, CreateCheckoutSession, DecideCheckout, AbortCheckout
<1>2. CASE OrderNext \/ WorkerNext
  BY <1>2, MovedOrderCarts DEF cartVars
<1>3. CASE StockNext \/ Tick \/ UNCHANGED vars
  BY <1>3, StockFrame DEF cartVars
<1> QED BY <1>1, <1>2, <1>3 DEF Next

LEMMA AnswersStep ==
  ASSUME TypeOK, OrderOfFinalized, AnswersMatchOrder, [Next]_vars
  PROVE  AnswersMatchOrder'
<1> SUFFICES ASSUME NEW a \in answered'
             PROVE  /\ orders'[a[1]].status # "none"
                    /\ sessions'[a[1]].fingerprint[1] = a[2]
  BY DEF AnswersMatchOrder
<1>1. ASSUME NEW s \in Session, NEW q \in Request, FinalizeCheckout(s, q)
      PROVE  /\ orders'[a[1]].status # "none"
             /\ sessions'[a[1]].fingerprint[1] = a[2]
  <2>1. CASE a \in answered
    <3>1. /\ a[1] \in Session /\ orders[a[1]].status # "none"
          /\ sessions[a[1]].fingerprint[1] = a[2]
      BY <2>1 DEF TypeOK, AnswersMatchOrder
    <3>2. a[1] # s
      BY <1>1, <3>1, FinalizeEffect DEF OrderOfFinalized
    <3> QED BY <1>1, <3>1, <3>2, FinalizeEffect
  <2>2. CASE a = <<s, q>>
    BY <1>1, <2>2, FinalizeEffect
  <2> QED BY <1>1, <2>1, <2>2 DEF FinalizeCheckout
<1>2. CASE ~ \E s \in Session : \E q \in Request : FinalizeCheckout(s, q)
  <2>1. \A u \in Session : orders'[u].status # "none" <=> orders[u].status # "none"
    BY <1>2, OrderSteps, MovedOrderExists DEF orderVars
  <2>2. \A u \in Session : sessions'[u].fingerprint = sessions[u].fingerprint
    BY <1>2, SessionSteps
  <2>3. CASE a \in answered
    <3>1. /\ a[1] \in Session /\ orders[a[1]].status # "none"
          /\ sessions[a[1]].fingerprint[1] = a[2]
      BY <2>3 DEF TypeOK, AnswersMatchOrder
    <3> QED BY <2>1, <2>2, <3>1
  <2>4. ASSUME NEW s \in Session, NEW q \in Request, ReplayFinalize(s, q),
               a = <<s, q>>
        PROVE  /\ orders'[a[1]].status # "none"
               /\ sessions'[a[1]].fingerprint[1] = a[2]
    <3>1. sessions[s].status = "finalized" /\ sessions[s].fingerprint[1] = q
      BY <2>4 DEF ReplayFinalize, MatchesFingerprint, Fingerprint
    <3> QED BY <2>1, <2>2, <2>4, <3>1 DEF OrderOfFinalized
  <2> QED BY <1>2, <2>3, <2>4, AnswerSteps DEF ReplayFinalize
<1> QED BY <1>1, <1>2

\* Whatever requests are retried, in any order and any number: a success is
\* reported only for the very request the order was placed with.
THEOREM AnswersMatchOrderCorrect == Spec => []AnswersMatchOrder
<1>1. Init => AnswersMatchOrder
  BY DEF Init, AnswersMatchOrder
<1>2. TypeOK /\ OrderOfFinalized /\ AnswersMatchOrder /\ [Next]_vars
        => AnswersMatchOrder'
  BY AnswersStep
<1> QED BY <1>1, <1>2, FinalizedCorrect, PTL DEF Spec

-----------------------------------------------------------------------------
(* Order numbers *)

\* The numbers of a store when no step accepts an order.
LEMMA NumbersFrame ==
  ASSUME NumbersGapless, UNCHANGED sequence,
         \A s \in Session :
           /\ orders'[s].status # "none" <=> orders[s].status # "none"
           /\ orders'[s].number = orders[s].number
  PROVE  NumbersGapless'
<1> SUFFICES ASSUME NEW t \in Store
             PROVE  /\ {orders'[s].number : s \in OrdersOf(t)'} = 1 .. sequence'[t]
                    /\ Cardinality(OrdersOf(t)') = sequence'[t]
  BY DEF NumbersGapless
<1>1. OrdersOf(t)' = OrdersOf(t)
  BY DEF OrdersOf
<1>2. {orders'[s].number : s \in OrdersOf(t)} =
        {orders[s].number : s \in OrdersOf(t)}
  BY DEF OrdersOf
<1> QED BY <1>1, <1>2 DEF NumbersGapless

\* A checkout takes the next number of its store and adds one order to it.
LEMMA NumbersFinalize ==
  ASSUME TypeOK, OrderOfFinalized, NumbersGapless,
         NEW s \in Session, NEW q \in Request, FinalizeCheckout(s, q)
  PROVE  NumbersGapless'
<1> DEFINE t == CartStore[SessionCart[s]]
<1>1. t \in Store /\ sequence[t] \in Nat
  BY StockAssumption DEF TypeOK
<1>2. sequence' = [sequence EXCEPT ![t] = sequence[t] + 1]
  BY DEF FinalizeCheckout, NextOrderNumber
<1>3. /\ orders[s].status = "none" /\ orders'[s].status # "none"
      /\ orders'[s].number = sequence[t] + 1
      /\ \A u \in Session : u # s => orders'[u] = orders[u]
  BY FinalizeEffect DEF OrderOfFinalized, NextOrderNumber
<1> HIDE DEF t
<1> SUFFICES ASSUME NEW v \in Store
             PROVE  /\ {orders'[u].number : u \in OrdersOf(v)'} = 1 .. sequence'[v]
                    /\ Cardinality(OrdersOf(v)') = sequence'[v]
  BY DEF NumbersGapless
<1>4. /\ {orders[u].number : u \in OrdersOf(v)} = 1 .. sequence[v]
      /\ Cardinality(OrdersOf(v)) = sequence[v]
  BY DEF NumbersGapless
<1>5. s \notin OrdersOf(v) /\ OrdersOf(v) \subseteq Session
  BY <1>3 DEF OrdersOf
<1>6. {orders'[u].number : u \in OrdersOf(v)} =
        {orders[u].number : u \in OrdersOf(v)}
  BY <1>3, <1>5
<1>7. CASE v = t
  <2>1. OrdersOf(v)' = OrdersOf(v) \cup {s}
    BY <1>3, <1>7 DEF OrdersOf, t
  <2>2. sequence'[v] = sequence[v] + 1 /\ sequence[v] \in Nat
    BY <1>1, <1>2, <1>7 DEF TypeOK
  <2>3. {orders'[u].number : u \in OrdersOf(v)'} =
          {orders'[u].number : u \in OrdersOf(v)} \cup {orders'[s].number}
    BY <2>1
  <2>4. (1 .. sequence[v]) \cup {sequence[v] + 1} = 1 .. sequence[v] + 1
    BY <2>2
  <2>5. IsFiniteSet(OrdersOf(v))
    BY <1>5, StockAssumption, FS_Subset
  <2>6. Cardinality(OrdersOf(v) \cup {s}) = Cardinality(OrdersOf(v)) + 1
    BY <1>5, <2>5, FS_AddElement
  <2> QED BY <1>3, <1>4, <1>6, <1>7, <2>1, <2>2, <2>3, <2>4, <2>6
<1>8. CASE v # t
  <2>1. OrdersOf(v)' = OrdersOf(v)
    BY <1>3, <1>8 DEF OrdersOf, t
  <2>2. sequence'[v] = sequence[v]
    BY <1>1, <1>2, <1>8 DEF TypeOK
  <2> QED BY <1>4, <1>6, <2>1, <2>2
<1> QED BY <1>7, <1>8

LEMMA NumbersStep ==
  ASSUME TypeOK, OrderOfFinalized, NumbersGapless, [Next]_vars
  PROVE  NumbersGapless'
<1>1. ASSUME NEW s \in Session, NEW by \in Actor, NEW to \in OrderStatus,
             LegalMove(s, by, to)
      PROVE  NumbersGapless'
  <2>1. \A u \in Session : orders'[u].status # "none" <=> orders[u].status # "none"
    BY <1>1, MovedOrderExists
  <2>2. \A u \in Session : orders'[u].number = orders[u].number
    BY <1>1, TransitionEffect DEF LegalMove
  <2> QED BY <1>1, <2>1, <2>2, NumbersFrame DEF LegalMove
<1>2. CASE UNCHANGED orderVars
  BY <1>2, NumbersFrame DEF orderVars
<1> QED BY <1>1, <1>2, NumbersFinalize, OrderSteps

\* The orders of a store are numbered 1, 2, 3 and so on, whatever checkouts of
\* the store run at the same time and however many of them are rolled back.
THEOREM NumbersGaplessCorrect == Spec => []NumbersGapless
<1>1. Init => NumbersGapless
  <2> SUFFICES ASSUME Init, NEW t \in Store
               PROVE  /\ {orders[s].number : s \in OrdersOf(t)} = 1 .. sequence[t]
                      /\ Cardinality(OrdersOf(t)) = sequence[t]
    BY DEF NumbersGapless
  <2>1. OrdersOf(t) = {} /\ sequence[t] = 0
    BY DEF Init, NoOrder, OrdersOf
  <2> QED BY <2>1, FS_EmptySet
<1>2. TypeOK /\ OrderOfFinalized /\ NumbersGapless /\ [Next]_vars
        => NumbersGapless'
  BY NumbersStep
<1> QED BY <1>1, <1>2, FinalizedCorrect, PTL DEF Spec

-----------------------------------------------------------------------------
(* Timelines *)

\* The timeline of one order replays to its row.
Replays(s) ==
  LET h == history[s] IN
  /\ Len(h) = orders[s].version
  /\ \A i \in 1 .. Len(h) :
       /\ h[i].version = i
       /\ h[i].at <= clock
       /\ h[i].from = IF i = 1 THEN "none" ELSE h[i - 1].to
       /\ i > 1 => h[i - 1].at <= h[i].at
  /\ orders[s].status = IF h = <<>> THEN "none" ELSE h[Len(h)].to

\* The row a transition appends continues the timeline.
LEMMA ReplaysMove ==
  ASSUME TypeOK, NEW s \in Session, NEW by \in Actor, NEW to \in OrderStatus,
         LegalMove(s, by, to), Replays(s)
  PROVE  Replays(s)'
<1> DEFINE h == history[s]
           row == [version |-> orders[s].version + 1, from |-> orders[s].status,
                   to |-> to, actor |-> by, at |-> clock]
<1>1. /\ h \in Seq(HistoryRow) /\ clock \in Nat /\ orders[s].version \in Nat
      /\ clock' = clock
  BY DEF TypeOK, OrderRow, LegalMove
<1>2. /\ history'[s] = Append(h, row)
      /\ orders'[s].status = to
      /\ orders'[s].version = orders[s].version + 1
  BY TransitionEffect DEF LegalMove
<1>3. /\ Len(h) = orders[s].version
      /\ \A i \in 1 .. Len(h) :
           /\ h[i].version = i
           /\ h[i].at <= clock
           /\ h[i].from = IF i = 1 THEN "none" ELSE h[i - 1].to
           /\ i > 1 => h[i - 1].at <= h[i].at
      /\ orders[s].status = IF h = <<>> THEN "none" ELSE h[Len(h)].to
  BY DEF Replays
<1>4. /\ row.version = orders[s].version + 1 /\ row.from = orders[s].status
      /\ row.to = to /\ row.at = clock
  OBVIOUS
<1>5. row \in HistoryRow
  BY <1>1 DEF HistoryRow, TypeOK, OrderRow
<1> HIDE DEF h, row
<1>6. /\ Len(Append(h, row)) = Len(h) + 1
      /\ Append(h, row)[Len(h) + 1] = row
      /\ \A i \in 1 .. Len(h) : Append(h, row)[i] = h[i]
      /\ Append(h, row) # <<>> /\ Len(h) \in Nat
      /\ h = <<>> <=> Len(h) = 0
  BY <1>1, <1>5
<1>7. ASSUME NEW i \in 1 .. Len(h) + 1
      PROVE  LET g == Append(h, row) IN
             /\ g[i].version = i
             /\ g[i].at <= clock
             /\ g[i].from = IF i = 1 THEN "none" ELSE g[i - 1].to
             /\ i > 1 => g[i - 1].at <= g[i].at
  <2>1. CASE i \in 1 .. Len(h)
    <3>1. i > 1 => i - 1 \in 1 .. Len(h)
      BY <2>1, <1>6
    <3> QED BY <1>3, <1>6, <2>1, <3>1
  <2>2. CASE i = Len(h) + 1
    <3>1. i > 1 => i - 1 = Len(h) /\ Len(h) \in 1 .. Len(h) /\ h # <<>>
      BY <2>2, <1>6
    <3>2. i = 1 => h = <<>>
      BY <2>2, <1>6
    <3>3. i > 1 \/ i = 1
      BY <2>2, <1>6
    <3> QED BY <1>1, <1>3, <1>4, <1>6, <2>2, <3>1, <3>2, <3>3
  <2> QED BY <1>6, <2>1, <2>2
<1> QED BY <1>1, <1>2, <1>3, <1>4, <1>6, <1>7 DEF Replays

LEMMA ReplaysFrame ==
  ASSUME TypeOK, NEW s \in Session, Replays(s), orders'[s] = orders[s],
         history'[s] = history[s], clock' = clock \/ clock' = clock + 1
  PROVE  Replays(s)'
<1>0. history[s] \in Seq(HistoryRow)
  BY DEF TypeOK
<1>1. \A i \in 1 .. Len(history[s]) : history[s][i].at \in Nat
  <2>1. \A i \in 1 .. Len(history[s]) : history[s][i] \in HistoryRow
    BY <1>0
  <2> QED BY <2>1 DEF HistoryRow
<1>2. clock \in Nat
  BY DEF TypeOK
<1>3. \A i \in 1 .. Len(history[s]) : history[s][i].at <= clock'
  BY <1>1, <1>2 DEF Replays
<1> QED BY <1>3 DEF Replays

LEMMA ReplaysStep ==
  ASSUME TypeOK, \A s \in Session : Replays(s), [Next]_vars, NEW u \in Session
  PROVE  Replays(u)'
<1>1. ASSUME NEW s \in Session, NEW q \in Request, FinalizeCheckout(s, q)
      PROVE  Replays(u)'
  <2>1. clock' = clock /\ clock \in Nat
    BY <1>1 DEF FinalizeCheckout, TypeOK
  <2>2. CASE u = s
    <3> DEFINE row == [version |-> 1, from |-> "none", to |-> "pending",
                       actor |-> "checkout", at |-> clock]
    <3>1. /\ orders'[s].status = "pending" /\ orders'[s].version = 1
          /\ history'[s] = <<row>>
      BY <1>1, FinalizeEffect
    <3>2. /\ row.version = 1 /\ row.from = "none" /\ row.to = "pending"
          /\ row.at = clock
      OBVIOUS
    <3> HIDE DEF row
    <3>3. Len(<<row>>) = 1 /\ <<row>>[1] = row /\ <<row>> # <<>>
      OBVIOUS
    <3> QED BY <2>1, <2>2, <3>1, <3>2, <3>3 DEF Replays
  <2>3. CASE u # s
    BY <1>1, <2>1, <2>3, FinalizeEffect, ReplaysFrame
  <2> QED BY <2>2, <2>3
<1>2. ASSUME NEW s \in Session, NEW by \in Actor, NEW to \in OrderStatus,
             LegalMove(s, by, to)
      PROVE  Replays(u)'
  <2>1. CASE u = s
    BY <1>2, <2>1, ReplaysMove
  <2>2. CASE u # s
    BY <1>2, <2>2, TransitionEffect, ReplaysFrame DEF LegalMove
  <2> QED BY <2>1, <2>2
<1>3. CASE UNCHANGED orderVars /\ (clock' = clock \/ clock' = clock + 1)
  BY <1>3, ReplaysFrame DEF orderVars
<1> QED BY <1>1, <1>2, <1>3, OrderSteps

\* The timeline of every order, of any length, replays to its row: no
\* transition is lost, recorded twice, or recorded out of order.
THEOREM HistoryExplainsStatusCorrect == Spec => []HistoryExplainsStatus
<1>1. HistoryExplainsStatus <=> \A s \in Session : Replays(s)
  BY DEF HistoryExplainsStatus, Replays
<1>2. Init => \A s \in Session : Replays(s)
  BY DEF Init, NoOrder, Replays
<1>3. TypeOK /\ (\A s \in Session : Replays(s)) /\ [Next]_vars
        => (\A s \in Session : Replays(s))'
  BY ReplaysStep
<1> QED BY <1>1, <1>2, <1>3, TypeCorrect, PTL DEF Spec

-----------------------------------------------------------------------------
(* The life cycle *)

\* Who made the last transition of order s.
LastActor(s) ==
  IF history[s] = <<>> THEN "checkout" ELSE history[s][Len(history[s])].actor

\* A row of the table that changes is one place of every column that changes.
LEMMA ColumnUpdated ==
  ASSUME NEW f, NEW g, NEW s \in Session,
         \A u \in Session : u # s => g[u] = f[u]
  PROVE  [u \in Session |-> g[u]] =
           [[u \in Session |-> f[u]] EXCEPT ![s] = g[s]]
OBVIOUS

LEMMA LifecycleCreate ==
  ASSUME TypeOK, OrderOfFinalized, NEW s \in Session, NEW q \in Request,
         FinalizeCheckout(s, q)
  PROVE  Lifecycle!Create(s)
<1>1. orders[s].status = "none" /\ clock' = clock
  BY FinalizeEffect DEF OrderOfFinalized, FinalizeCheckout
<1>2. /\ orders'[s].status = "pending"
      /\ orders'[s].deadline = clock + ConfirmationDuration
      /\ orders'[s].version = 1
      /\ \A u \in Session : u # s => orders'[u] = orders[u]
  BY FinalizeEffect
<1>3. [u \in Session |-> LastActor(u)]' =
        [[u \in Session |-> LastActor(u)] EXCEPT ![s] = "checkout"]
  <2>1. LastActor(s)' = "checkout"
    <3> DEFINE row == [version |-> 1, from |-> "none", to |-> "pending",
                       actor |-> "checkout", at |-> clock]
    <3>1. history'[s] = <<row>>
      BY FinalizeEffect
    <3>2. row.actor = "checkout"
      OBVIOUS
    <3> HIDE DEF row
    <3>3. Len(<<row>>) = 1 /\ <<row>>[1] = row /\ <<row>> # <<>>
      OBVIOUS
    <3> QED BY <3>1, <3>2, <3>3 DEF LastActor
  <2>2. \A u \in Session : u # s => LastActor(u)' = LastActor(u)
    BY FinalizeEffect DEF LastActor
  <2> QED BY <2>1, <2>2
<1> QED BY <1>1, <1>2, <1>3 DEF Lifecycle!Create, LastActor

LEMMA LifecycleMove ==
  ASSUME TypeOK, NEW s \in Session, NEW by \in Actor, NEW to \in OrderStatus,
         LegalMove(s, by, to)
  PROVE  Lifecycle!Move(s, by, to)
<1>1. /\ Lifecycle!LegalTransition(orders[s].status, by, to, orders[s].deadline,
                                   clock)
      /\ clock' = clock
  BY DEF LegalMove
<1>2. /\ orders'[s].status = to
      /\ orders'[s].deadline = orders[s].deadline
      /\ orders'[s].version = orders[s].version + 1
      /\ \A u \in Session : u # s => orders'[u] = orders[u]
  BY TransitionEffect DEF LegalMove
<1>3. [u \in Session |-> LastActor(u)]' =
        [[u \in Session |-> LastActor(u)] EXCEPT ![s] = by]
  <2>1. LastActor(s)' = by
    <3> DEFINE h == history[s]
               row == [version |-> orders[s].version + 1,
                       from |-> orders[s].status, to |-> to, actor |-> by,
                       at |-> clock]
    <3>1. history'[s] = Append(h, row) /\ row.actor = by
      BY TransitionEffect DEF LegalMove
    <3>2. h \in Seq(HistoryRow) /\ row \in HistoryRow
      <4>1. /\ h \in Seq(HistoryRow) /\ clock \in Nat
            /\ orders[s].version \in Nat /\ orders[s].status \in OrderStatus
        BY DEF TypeOK, OrderRow
      <4> QED BY <4>1 DEF HistoryRow
    <3> HIDE DEF row, h
    <3>3. /\ Len(Append(h, row)) = Len(h) + 1
          /\ Append(h, row)[Len(h) + 1] = row
          /\ Append(h, row) # <<>>
      BY <3>2
    <3> QED BY <3>1, <3>3 DEF LastActor
  <2>2. \A u \in Session : u # s => LastActor(u)' = LastActor(u)
    BY TransitionEffect DEF LegalMove, LastActor
  <2> QED BY <2>1, <2>2
<1> QED BY <1>1, <1>2, <1>3 DEF Lifecycle!Move, LastActor

LEMMA LifecycleStep ==
  ASSUME TypeOK, OrderOfFinalized, [Next]_vars
  PROVE  [Lifecycle!Next]_(Lifecycle!vars)
<1>1. ASSUME NEW s \in Session, NEW q \in Request, FinalizeCheckout(s, q)
      PROVE  Lifecycle!Next
  BY <1>1, LifecycleCreate DEF Lifecycle!Next
<1>2. ASSUME NEW s \in Session, NEW by \in Actor, NEW to \in OrderStatus,
             LegalMove(s, by, to)
      PROVE  Lifecycle!Next
  <2>1. Lifecycle!Move(s, by, to)
    BY <1>2, LifecycleMove
  <2>2. by \in Lifecycle!Authority /\ to \in Lifecycle!OrderStatus
    BY DEF Actor, OrderStatus, Lifecycle!Authority, Lifecycle!OrderStatus
  <2> QED BY <2>1, <2>2 DEF Lifecycle!Next
<1>3. CASE UNCHANGED orderVars /\ clock' = clock
  BY <1>3 DEF orderVars, Lifecycle!vars
<1>4. CASE UNCHANGED orderVars /\ clock' = clock + 1
  <2>1. Lifecycle!Tick
    BY <1>4 DEF orderVars, Lifecycle!Tick
  <2> QED BY <2>1 DEF Lifecycle!Next
<1> QED BY <1>1, <1>2, <1>3, <1>4, OrderSteps

\* Carts, sessions, stock, workers and clock together implement the life cycle
\* of an order: every transaction is a move its authority may make on its side
\* of the deadline, or none at all.
THEOREM ImplementsLifecycleCorrect == Spec => ImplementsLifecycle
<1>1. Init => Lifecycle!Init
  BY DEF Init, NoOrder, Lifecycle!Init
<1>2. TypeOK /\ OrderOfFinalized /\ [Next]_vars
        => [Lifecycle!Next]_(Lifecycle!vars)
  BY LifecycleStep
<1> QED BY <1>1, <1>2, FinalizedCorrect, PTL
        DEF Spec, ImplementsLifecycle, Lifecycle!Spec
=============================================================================
