----------------------------- MODULE StockProofs -----------------------------
(***************************************************************************)
(* The counters of the snapshots, for every value of the constants: held   *)
(* stock never exceeds the stock on the shelf, the reserved counter is the *)
(* sum of the held reservations, and therefore no pending order is stuck.  *)
(***************************************************************************)
EXTENDS ReservationProofs

\* A reservation that exists is on a snapshot.
Placed ==
  \A r \in ResId :
    reservations[r].status # "none" => reservations[r].snapshot \in Snapshot

StockInv == OrdersInv /\ Placed /\ StockCovered /\ ReservedIsHeld

-----------------------------------------------------------------------------
(* Sums before and after a step *)

LEMMA InStatusType ==
  ASSUME NEW status, NEW n PROVE InStatus(status, n) \in SUBSET ResId
BY DEF InStatus

\* A sum of reservations whose quantities stay is the same after the step.
LEMMA SumUnchanged ==
  ASSUME NEW R, R \in SUBSET ResId,
         \A r \in R : reservations'[r].quantity = reservations[r].quantity
  PROVE  Quantity(R, QuantityOf') = Quantity(R, QuantityOf)
<1>1. \A r \in R : QuantityOf'[r] = QuantityOf[r]
  BY DEF QuantityOf
<1> QED BY <1>1, QuantityCongruence

\* The part of the held stock of snapshot n that belongs to one order.
LinkedOn(s, n) == {r \in Linked(s) : reservations[r].snapshot = n}

\* Settling an order takes its reservations, and nothing else, out of the held
\* ones.
LEMMA HeldAfterSettle ==
  ASSUME TypeOK, NEW s \in Session, AllLinked(s, "held"),
         NEW status, status \notin {"none", "held"},
         reservations' = Settled(s, status), NEW n \in Snapshot
  PROVE  Quantity(InStatus("held", n)', QuantityOf') =
           Quantity(InStatus("held", n), QuantityOf) - Aggregate(s, n)
<1> DEFINE Held == InStatus("held", n)
           L == LinkedOn(s, n)
<1>1. L \in SUBSET Held
  BY DEF LinkedOn, AllLinked, InStatus, Linked, ResId
<1>2. InStatus("held", n)' = Held \ L
  <2>1. ASSUME NEW r \in ResId
        PROVE  r \in InStatus("held", n)' <=> r \in Held \ L
    <3>1. reservations'[r].snapshot = reservations[r].snapshot
      BY SettledEffect
    <3>2. CASE r \in Linked(s)
      BY <3>1, <3>2, SettledEffect DEF InStatus, LinkedOn
    <3>3. CASE r \notin Linked(s)
      BY <3>3, SettledEffect DEF InStatus, LinkedOn
    <3> QED BY <3>2, <3>3
  <2>2. Held \subseteq ResId /\ InStatus("held", n)' \subseteq ResId
    BY DEF InStatus
  <2> HIDE DEF Held, L
  <2> QED BY <2>1, <2>2
<1>3. Held \in SUBSET ResId
  BY InStatusType
<1>4. Aggregate(s, n) = Quantity(L, QuantityOf)
  BY DEF Aggregate, LinkedOn
<1> HIDE DEF Held, L
<1>5. \A r \in Held \ L : reservations'[r].quantity = reservations[r].quantity
  BY <1>3, SettledEffect
<1>6. Quantity(Held \ L, QuantityOf') = Quantity(Held \ L, QuantityOf)
  BY <1>3, <1>5, SumUnchanged
<1>7. Quantity(Held \ L, QuantityOf) =
        Quantity(Held, QuantityOf) - Quantity(L, QuantityOf)
  <2>1. IsFiniteSet(Held)
    BY <1>3, ReservationSum
  <2>2. \A r \in Held : QuantityOf[r] \in Nat
    BY <1>3 DEF TypeOK, QuantityOf, Reservation
  <2> QED BY <1>1, <2>1, <2>2, QuantityDifference
<1> QED BY <1>2, <1>4, <1>6, <1>7 DEF Held

\* A checkout adds to the held stock of a snapshot what its lines demand.
LEMMA HeldAfterFinalize ==
  ASSUME OrdersInv, NEW s \in Session, NEW q \in Request, FinalizeCheckout(s, q),
         NEW n \in Snapshot, NEW lines, NEW items, NEW alloc, NEW deadline,
         items = carts[SessionCart[s]].items, lines = LinesOf(items),
         reservations' = HoldLines(s, lines, alloc, items, deadline)
  PROVE  Quantity(InStatus("held", n)', QuantityOf') =
           Quantity(InStatus("held", n), QuantityOf)
           + Demand(alloc, lines, items, n)
<1> DEFINE Held == InStatus("held", n)
           L == {l \in lines : alloc[l] = n}
           T == {s} \X L
<1> TypeOK
  BY DEF OrdersInv
<1>1. /\ lines \subseteq Listing /\ IsFiniteSet(lines)
      /\ \A r \in {s} \X lines : /\ r \in ResId
                                 /\ reservations[r].status = "none"
  <2>1. lines \subseteq Listing
    BY DEF LinesOf
  <2>2. \A r \in {s} \X lines : reservations[r].status = "none"
    BY HeldLines
  <2>3. IsFiniteSet(lines)
    BY <2>1, StockAssumption, FS_Subset
  <2> QED BY <2>1, <2>2, <2>3 DEF ResId
<1>2. ASSUME NEW l \in lines
      PROVE  /\ reservations'[<<s, l>>].status = "held"
             /\ reservations'[<<s, l>>].snapshot = alloc[l]
             /\ reservations'[<<s, l>>].quantity = items[l]
  BY <1>1 DEF HoldLines
<1>3. \A r \in ResId \ ({s} \X lines) : reservations'[r] = reservations[r]
  BY DEF HoldLines
<1>4. \A l \in lines : items[l] \in Nat
  <2>1. items \in Items
    BY StockAssumption DEF TypeOK, CartRow
  <2> QED BY <1>1, <2>1, NumberAssumption DEF Items
<1>5. Held \in SUBSET ResId /\ T \in SUBSET ResId /\ Held \cap T = {}
  <2>1. T \subseteq {s} \X lines
    OBVIOUS
  <2>2. T \subseteq ResId /\ \A r \in T : reservations[r].status = "none"
    BY <1>1, <2>1
  <2>3. \A r \in Held : r \in ResId /\ reservations[r].status = "held"
    BY DEF InStatus
  <2> HIDE DEF T, Held
  <2> QED BY <2>2, <2>3
<1>6. InStatus("held", n)' = Held \cup T
  <2>1. ASSUME NEW r \in ResId
        PROVE  r \in InStatus("held", n)' <=> r \in Held \cup T
    <3>1. CASE r \in {s} \X lines
      <4>1. PICK l \in lines : r = <<s, l>>
        BY <3>1
      <4>2. r \notin Held
        BY <1>1, <3>1 DEF InStatus
      <4>3. r \in T <=> alloc[l] = n
        BY <4>1
      <4>4. r \in InStatus("held", n)' <=> alloc[l] = n
        BY <1>2, <4>1 DEF InStatus
      <4> HIDE DEF Held, T
      <4> QED BY <4>2, <4>3, <4>4
    <3>2. CASE r \notin {s} \X lines
      <4>1. r \notin T
        BY <3>2
      <4>2. r \in InStatus("held", n)' <=> r \in Held
        BY <1>3, <3>2 DEF InStatus
      <4> HIDE DEF Held, T
      <4> QED BY <4>1, <4>2
    <3> QED BY <3>1, <3>2
  <2>2. InStatus("held", n)' \subseteq ResId
    BY DEF InStatus
  <2> HIDE DEF Held, T
  <2> QED BY <2>1, <2>2, <1>5
<1>7. Quantity(T, QuantityOf') = Demand(alloc, lines, items, n)
  <2>1. \A l \in lines : QuantityOf'[<<s, l>>] = items[l]
    BY <1>1, <1>2 DEF QuantityOf
  <2>2. IsFiniteSet(lines)
    BY <1>1
  <2>3. Quantity(Tagged(s, L), QuantityOf') = Demand(alloc, lines, items, n)
    BY <1>4, <2>1, <2>2, DemandTagged
  <2>4. T = Tagged(s, L)
    BY DEF Tagged
  <2> QED BY <2>3, <2>4
<1>8. IsFiniteSet(Held) /\ IsFiniteSet(T)
  <2> HIDE DEF Held, T
  <2> QED BY <1>5, ReservationSum
<1>9. \A r \in Held : reservations'[r].quantity = reservations[r].quantity
  <2>1. \A r \in Held : r \in ResId /\ r \notin {s} \X lines
    BY <1>1 DEF InStatus
  <2> QED BY <1>3, <2>1
<1>10. \A r \in Held \cup T : QuantityOf'[r] \in Nat
  <2>1. TypeOK'
    BY TypeFinalize
  <2> HIDE DEF Held, T
  <2> QED BY <1>5, <2>1 DEF TypeOK, QuantityOf, Reservation
<1> HIDE DEF Held, T, L
<1>11. Quantity(Held \cup T, QuantityOf') =
         Quantity(Held, QuantityOf') + Quantity(T, QuantityOf')
  BY <1>5, <1>8, <1>10, QuantityDisjointUnion
<1>12. Quantity(Held, QuantityOf') = Quantity(Held, QuantityOf)
  BY <1>5, <1>9, SumUnchanged
<1> QED BY <1>6, <1>7, <1>11, <1>12 DEF Held

\* A standalone reservation adds its quantity to its snapshot.
LEMMA HeldAfterReserve ==
  ASSUME TypeOK, NEW t \in Token, NEW m \in Snapshot, NEW k \in 0 .. MaxOnHand,
         ReserveInventory(t, m, k), NEW n \in Snapshot
  PROVE  Quantity(InStatus("held", n)', QuantityOf') =
           Quantity(InStatus("held", n), QuantityOf) + (IF n = m THEN k ELSE 0)
<1> DEFINE Held == InStatus("held", n)
<1>1. /\ t \in ResId /\ k \in Nat /\ reservations[t].status = "none"
      /\ reservations'[t] = [status |-> "held", snapshot |-> m, quantity |-> k,
                             expires |-> 0]
      /\ \A r \in ResId : r # t => reservations'[r] = reservations[r]
  BY NumberAssumption DEF ReserveInventory, TypeOK, ResId
<1>2. Held \in SUBSET ResId /\ t \notin Held
  BY <1>1 DEF InStatus
<1>3. \A r \in Held : reservations'[r].quantity = reservations[r].quantity
  <2> HIDE DEF Held
  <2> QED BY <1>1, <1>2
<1>4. Quantity(Held, QuantityOf') = Quantity(Held, QuantityOf)
  <2> HIDE DEF Held
  <2> QED BY <1>2, <1>3, SumUnchanged
<1>5. CASE n # m
  <2>1. InStatus("held", n)' = Held
    <3>1. ASSUME NEW r \in ResId
          PROVE  r \in InStatus("held", n)' <=> r \in Held
      BY <1>1, <1>5 DEF InStatus
    <3>2. InStatus("held", n)' \subseteq ResId
      BY DEF InStatus
    <3> HIDE DEF Held
    <3> QED BY <1>2, <3>1, <3>2
  <2>2. Quantity(Held, QuantityOf) \in Nat
    <3> HIDE DEF Held
    <3> QED BY <1>2, ReservationSum
  <2> HIDE DEF Held
  <2> QED BY <1>4, <1>5, <2>1, <2>2 DEF Held
<1>6. CASE n = m
  <2>1. InStatus("held", n)' = Held \cup {t}
    <3>1. ASSUME NEW r \in ResId
          PROVE  r \in InStatus("held", n)' <=> r \in Held \cup {t}
      BY <1>1, <1>6 DEF InStatus
    <3>2. InStatus("held", n)' \subseteq ResId
      BY DEF InStatus
    <3> HIDE DEF Held
    <3> QED BY <1>1, <1>2, <3>1, <3>2
  <2>2. IsFiniteSet(Held) /\ IsFiniteSet({t}) /\ Held \cap {t} = {}
    <3> HIDE DEF Held
    <3> QED BY <1>2, ReservationSum, FS_Singleton
  <2>3. QuantityOf'[t] = k
    BY <1>1 DEF QuantityOf
  <2>4. \A r \in Held \cup {t} : QuantityOf'[r] \in Nat
    <3>1. \A r \in Held : QuantityOf'[r] \in Nat
      <4> HIDE DEF Held
      <4> QED BY <1>2, <1>3 DEF TypeOK, QuantityOf, Reservation
    <3> HIDE DEF Held
    <3> QED BY <1>1, <2>3, <3>1
  <2> HIDE DEF Held
  <2>5. Quantity(Held \cup {t}, QuantityOf') =
          Quantity(Held, QuantityOf') + Quantity({t}, QuantityOf')
    BY <2>2, <2>4, QuantityDisjointUnion
  <2>6. Quantity({t}, QuantityOf') = k
    BY <1>1, <2>3, QuantitySingleton
  <2> QED BY <1>4, <1>6, <2>1, <2>5, <2>6 DEF Held
<1> QED BY <1>5, <1>6

\* A step that leaves the reservations leaves every sum over them.
LEMMA SumsFrame ==
  ASSUME UNCHANGED reservations, NEW status, NEW n
  PROVE  /\ InStatus(status, n)' = InStatus(status, n)
         /\ QuantityOf' = QuantityOf
BY DEF InStatus, QuantityOf

\* The counters a checkout leaves.
LEMMA FinalizeCounters ==
  ASSUME OrdersInv, NEW s \in Session, NEW q \in Request, FinalizeCheckout(s, q)
  PROVE  \E alloc :
           LET items == carts[SessionCart[s]].items
               lines == LinesOf(items)
           IN /\ \A l \in lines : alloc[l] \in Snapshot
              /\ reservations' =
                   HoldLines(s, lines, alloc, items, clock + ConfirmationDuration)
              /\ \A n \in Snapshot :
                   /\ Demand(alloc, lines, items, n) \in Nat
                   /\ reserved'[n] = reserved[n] + Demand(alloc, lines, items, n)
                   /\ Demand(alloc, lines, items, n) > 0 =>
                        Demand(alloc, lines, items, n) <= onHand[n] - reserved[n]
<1> DEFINE items == carts[SessionCart[s]].items
           lines == LinesOf(items)
<1>1. PICK alloc \in [lines -> Snapshot] :
        /\ \A n \in Snapshot : Demand(alloc, lines, items, n) > 0 =>
             Demand(alloc, lines, items, n) <= Available(n)
        /\ reserved' =
             [n \in Snapshot |-> reserved[n] + Demand(alloc, lines, items, n)]
        /\ reservations' =
             HoldLines(s, lines, alloc, items, clock + ConfirmationDuration)
  BY DEF FinalizeCheckout
<1>2. items \in Items
  BY StockAssumption DEF OrdersInv, TypeOK, CartRow
<1>3. \A n \in Snapshot : Demand(alloc, lines, items, n) \in Nat
  BY <1>2, DemandType
<1> HIDE DEF items
<1> QED BY <1>1, <1>3 DEF Available, items

-----------------------------------------------------------------------------
(* The counters *)

LEMMA CoveredStep ==
  ASSUME OrdersInv, StockCovered, [Next]_vars
  PROVE  StockCovered'
<1> TypeOK
  BY DEF OrdersInv
<1> SUFFICES ASSUME NEW n \in Snapshot PROVE reserved'[n] <= onHand'[n]
  BY DEF StockCovered
<1>1. reserved[n] \in Nat /\ onHand[n] \in Nat /\ reserved[n] <= onHand[n]
  BY DEF TypeOK, StockCovered
<1>2. ASSUME NEW s \in Session, ConfirmOrder(s)
      PROVE  reserved'[n] <= onHand'[n]
  <2>1. /\ onHand'[n] = onHand[n] - Aggregate(s, n)
        /\ reserved'[n] = reserved[n] - Aggregate(s, n)
    BY <1>2 DEF ConfirmOrder
  <2> QED BY <1>1, <2>1, AggregateType
<1>3. ASSUME NEW s \in Session, NEW actor, NEW status,
             ReleaseHeld(s, status, actor)
      PROVE  reserved'[n] <= onHand'[n]
  <2>1. /\ onHand'[n] = onHand[n]
        /\ reserved'[n] = reserved[n] - Aggregate(s, n)
    BY <1>3 DEF ReleaseHeld
  <2> QED BY <1>1, <2>1, AggregateType
<1>4. ASSUME NEW s \in Session, CancelConfirmedOrder(s)
      PROVE  reserved'[n] <= onHand'[n]
  <2>1. /\ onHand'[n] = onHand[n] + Aggregate(s, n)
        /\ reserved'[n] = reserved[n]
    BY <1>4 DEF CancelConfirmedOrder
  <2> QED BY <1>1, <2>1, AggregateType
<1>5. ASSUME NEW s \in Session, NEW q \in Request, FinalizeCheckout(s, q)
      PROVE  reserved'[n] <= onHand'[n]
  <2>1. PICK k \in Nat : /\ reserved'[n] = reserved[n] + k
                         /\ k > 0 => k <= onHand[n] - reserved[n]
    BY <1>5, FinalizeCounters
  <2>2. onHand' = onHand
    BY <1>5 DEF FinalizeCheckout
  <2> QED BY <1>1, <2>1, <2>2
<1>6. ASSUME NEW m \in Snapshot, NEW d \in Adjustments, AdjustInventory(m, d)
      PROVE  reserved'[n] <= onHand'[n]
  <2>1. d \in Int /\ reserved' = reserved
    BY <1>6, NumberAssumption DEF AdjustInventory
  <2>2. CASE m = n
    <3>1. onHand'[n] = onHand[n] + d
      BY <1>6, <2>2 DEF AdjustInventory, TypeOK
    <3>2. d < 0 => onHand[n] + d >= reserved[n]
      BY <1>6, <2>2 DEF AdjustInventory, MayAdjust
    <3> QED BY <1>1, <2>1, <3>1, <3>2
  <2>3. CASE m # n
    <3>1. onHand'[n] = onHand[n]
      BY <1>6, <2>3 DEF AdjustInventory, TypeOK
    <3> QED BY <1>1, <2>1, <3>1
  <2> QED BY <2>2, <2>3
<1>7. ASSUME NEW t \in Token, NEW m \in Snapshot, NEW k \in 0 .. MaxOnHand,
             ReserveInventory(t, m, k)
      PROVE  reserved'[n] <= onHand'[n]
  <2>1. onHand' = onHand
    BY <1>7 DEF ReserveInventory
  <2>2. CASE m = n
    <3>1. reserved'[n] = reserved[n] + k /\ onHand[n] - reserved[n] >= k
      BY <1>7, <2>2 DEF ReserveInventory, Available, TypeOK
    <3> QED BY <1>1, <2>1, <3>1, NumberAssumption
  <2>3. CASE m # n
    <3>1. reserved'[n] = reserved[n]
      BY <1>7, <2>3 DEF ReserveInventory, TypeOK
    <3> QED BY <1>1, <2>1, <3>1
  <2> QED BY <2>2, <2>3
<1>8. CASE UNCHANGED <<onHand, reserved>>
  BY <1>1, <1>8
<1> QED BY <1>2, <1>3, <1>4, <1>5, <1>6, <1>7, <1>8, StepCases
        DEF stockVars, AdvanceOrderStatus

LEMMA HeldStep ==
  ASSUME OrdersInv, ReservedIsHeld, [Next]_vars
  PROVE  ReservedIsHeld'
<1> TypeOK
  BY DEF OrdersInv
<1> DEFINE Total(n) == Quantity(InStatus("held", n), QuantityOf)
<1> SUFFICES ASSUME NEW n \in Snapshot
             PROVE  reserved'[n] = Quantity(InStatus("held", n)', QuantityOf')
  BY DEF ReservedIsHeld
<1>1. reserved[n] = Quantity(InStatus("held", n), QuantityOf)
  BY DEF ReservedIsHeld
<1>2. ASSUME NEW s \in Session, ConfirmOrder(s)
      PROVE  reserved'[n] = Quantity(InStatus("held", n)', QuantityOf')
  <2>1. reserved'[n] = reserved[n] - Aggregate(s, n)
    BY <1>2 DEF ConfirmOrder
  <2>2. AllLinked(s, "held") /\ reservations' = Settled(s, "consumed")
    BY <1>2 DEF ConfirmOrder
  <2> QED BY <1>1, <2>1, <2>2, HeldAfterSettle
<1>3. ASSUME NEW s \in Session, NEW actor, NEW status \in {"released", "expired"},
             ReleaseHeld(s, status, actor)
      PROVE  reserved'[n] = Quantity(InStatus("held", n)', QuantityOf')
  <2>1. reserved'[n] = reserved[n] - Aggregate(s, n)
    BY <1>3 DEF ReleaseHeld
  <2>2. AllLinked(s, "held") /\ reservations' = Settled(s, status)
    BY <1>3 DEF ReleaseHeld
  <2> QED BY <1>1, <2>1, <2>2, HeldAfterSettle
<1>4. ASSUME NEW s \in Session, NEW q \in Request, FinalizeCheckout(s, q)
      PROVE  reserved'[n] = Quantity(InStatus("held", n)', QuantityOf')
  <2> DEFINE items == carts[SessionCart[s]].items
             lines == LinesOf(items)
             deadline == clock + ConfirmationDuration
  <2>1. PICK alloc :
          /\ reservations' = HoldLines(s, lines, alloc, items, deadline)
          /\ reserved'[n] = reserved[n] + Demand(alloc, lines, items, n)
    BY <1>4, FinalizeCounters
  <2>2. Quantity(InStatus("held", n)', QuantityOf') =
          Quantity(InStatus("held", n), QuantityOf)
          + Demand(alloc, lines, items, n)
    BY <1>4, <2>1, HeldAfterFinalize
  <2> QED BY <1>1, <2>1, <2>2
<1>5. ASSUME NEW m \in Snapshot, NEW t \in Token, NEW k \in 0 .. MaxOnHand,
             ReserveInventory(t, m, k)
      PROVE  reserved'[n] = Quantity(InStatus("held", n)', QuantityOf')
  <2>1. reserved'[n] = reserved[n] + (IF n = m THEN k ELSE 0)
    <3>1. reserved[n] \in Nat
      BY DEF TypeOK
    <3>2. reserved' = [reserved EXCEPT ![m] = @ + k]
      BY <1>5 DEF ReserveInventory
    <3> QED BY <3>1, <3>2 DEF TypeOK
  <2> QED BY <1>1, <1>5, <2>1, HeldAfterReserve
<1>6. CASE UNCHANGED <<reserved, reservations>>
  BY <1>1, <1>6, SumsFrame
<1>7. \/ \E s \in Session : ConfirmOrder(s)
      \/ \E s \in Session : \E actor \in Actor :
           \E status \in {"released", "expired"} : ReleaseHeld(s, status, actor)
      \/ \E s \in Session : \E q \in Request : FinalizeCheckout(s, q)
      \/ \E t \in Token : \E m \in Snapshot : \E k \in 0 .. MaxOnHand :
           ReserveInventory(t, m, k)
      \/ UNCHANGED <<reserved, reservations>>
  BY StepCases DEF stockVars, AdvanceOrderStatus, CancelConfirmedOrder,
                    AdjustInventory
<1> QED BY <1>2, <1>3, <1>4, <1>5, <1>6, <1>7

LEMMA PlacedStep ==
  ASSUME OrdersInv, Placed, [Next]_vars
  PROVE  Placed'
<1> TypeOK
  BY DEF OrdersInv
<1> SUFFICES ASSUME NEW r \in ResId, reservations'[r].status # "none"
             PROVE  reservations'[r].snapshot \in Snapshot
  BY DEF Placed, ResId
<1>0. reservations[r].status # "none" => reservations[r].snapshot \in Snapshot
  BY DEF Placed
<1>1. ASSUME NEW s \in Session, NEW status, status # "none",
             reservations' = Settled(s, status)
      PROVE  reservations'[r].snapshot \in Snapshot
  <2>1. reservations'[r].snapshot = reservations[r].snapshot
    BY <1>1, SettledEffect
  <2>2. reservations[r].status # "none"
    <3>1. CASE r \in Linked(s)
      BY <3>1 DEF Linked
    <3>2. CASE r \notin Linked(s)
      BY <1>1, <3>2, SettledEffect
    <3> QED BY <3>1, <3>2
  <2> QED BY <1>0, <2>1, <2>2
<1>2. ASSUME NEW s \in Session, NEW q \in Request, FinalizeCheckout(s, q)
      PROVE  reservations'[r].snapshot \in Snapshot
  <2> DEFINE items == carts[SessionCart[s]].items
             lines == LinesOf(items)
             deadline == clock + ConfirmationDuration
  <2>1. PICK alloc :
          /\ reservations' = HoldLines(s, lines, alloc, items, deadline)
          /\ \A l \in lines : alloc[l] \in Snapshot
    BY <1>2, FinalizeCounters
  <2> HIDE DEF lines, items, deadline
  <2>2. CASE r \in {s} \X lines
    BY <2>1, <2>2 DEF HoldLines
  <2>3. CASE r \notin {s} \X lines
    BY <1>0, <2>1, <2>3 DEF HoldLines
  <2> QED BY <2>2, <2>3
<1>3. ASSUME NEW n \in Snapshot, NEW t \in Token, NEW k, ReserveInventory(t, n, k)
      PROVE  reservations'[r].snapshot \in Snapshot
  BY <1>0, <1>3 DEF ReserveInventory, TypeOK
<1>4. CASE UNCHANGED reservations
  BY <1>0, <1>4
<1>5. \/ \E s \in Session : \E status : /\ status # "none"
                                       /\ reservations' = Settled(s, status)
      \/ \E s \in Session : \E q \in Request : FinalizeCheckout(s, q)
      \/ \E t \in Token : \E n \in Snapshot : \E k : ReserveInventory(t, n, k)
      \/ UNCHANGED reservations
  BY StepCases DEF stockVars, ConfirmOrder, ReleaseHeld, CancelConfirmedOrder,
                    AdvanceOrderStatus, AdjustInventory
<1> QED BY <1>1, <1>2, <1>3, <1>4, <1>5

LEMMA StockInit == Init => Placed /\ StockCovered /\ ReservedIsHeld
<1>0. Init => Placed
  BY DEF Init, Placed, NoReservation
<1> SUFFICES ASSUME Init, NEW n \in Snapshot
             PROVE  /\ reserved[n] <= onHand[n]
                    /\ reserved[n] = Quantity(InStatus("held", n), QuantityOf)
  BY <1>0 DEF StockCovered, ReservedIsHeld
<1>1. reserved[n] = 0 /\ onHand[n] \in Nat
  BY StockAssumption DEF Init
<1>2. InStatus("held", n) = {}
  BY DEF Init, InStatus, NoReservation
<1>3. Quantity({}, QuantityOf) = 0
  BY QuantityEmpty
<1> QED BY <1>1, <1>2, <1>3

LEMMA StockInvCorrect == Spec => []StockInv
<1>1. Init => Placed /\ StockCovered /\ ReservedIsHeld
  BY StockInit
<1>2. OrdersInv /\ Placed /\ StockCovered /\ ReservedIsHeld /\ [Next]_vars
        => Placed' /\ StockCovered' /\ ReservedIsHeld'
  BY PlacedStep, CoveredStep, HeldStep
<1>3. Spec => [](OrdersInv /\ Placed /\ StockCovered /\ ReservedIsHeld)
  BY <1>1, <1>2, OrdersInvCorrect, PTL DEF Spec
<1>4. OrdersInv /\ Placed /\ StockCovered /\ ReservedIsHeld => StockInv
  BY DEF StockInv
<1> QED BY <1>3, <1>4, PTL

\* The last unit is sold once: no interleaving of checkouts, adjustments and
\* transitions, however many, holds more of a snapshot than is on its shelf.
THEOREM StockCoveredCorrect == Spec => []StockCovered
<1>1. StockInv => StockCovered
  BY DEF StockInv
<1> QED BY <1>1, StockInvCorrect, PTL

\* The reserved counter is the sum of the reservations held on its snapshot.
THEOREM ReservedIsHeldCorrect == Spec => []ReservedIsHeld
<1>1. StockInv => ReservedIsHeld
  BY DEF StockInv
<1> QED BY <1>1, StockInvCorrect, PTL

-----------------------------------------------------------------------------
(* No order is stuck *)

LEMMA CanSettle == StockInv => OrdersCanSettle
<1> SUFFICES ASSUME StockInv, NEW s \in Session
             PROVE  /\ orders[s].status = "pending" =>
                         /\ Linked(s) # {}
                         /\ AllLinked(s, "held")
                         /\ CanConsume(s)
                         /\ CanRelease(s)
                    /\ CanCancelConfirmed(s) => AllLinked(s, "consumed")
  BY DEF OrdersCanSettle
<1>1. TypeOK /\ ReservationsFollow(s)
  BY DEF StockInv, OrdersInv, ReservationsFollowOrder
<1>2. ASSUME orders[s].status = "pending"
      PROVE  Linked(s) # {} /\ AllLinked(s, "held")
  BY <1>1, <1>2 DEF ReservationsFollow, SettledAs, AllLinked
<1>3. ASSUME orders[s].status = "pending", NEW n \in Snapshot
      PROVE  /\ Aggregate(s, n) <= reserved[n]
             /\ reserved[n] <= onHand[n]
             /\ Aggregate(s, n) <= onHand[n]
  <2> DEFINE Held == InStatus("held", n)
             L == LinkedOn(s, n)
  <2>1. L \in SUBSET Held
    BY <1>2, <1>3 DEF LinkedOn, AllLinked, InStatus, Linked, ResId
  <2>2. Held \in SUBSET ResId
    BY InStatusType
  <2>3. \A r \in Held : QuantityOf[r] \in Nat
    <3> HIDE DEF Held
    <3> QED BY <1>1, <2>2 DEF TypeOK, QuantityOf, Reservation
  <2>4. Quantity(L, QuantityOf) <= Quantity(Held, QuantityOf)
    <3> HIDE DEF Held, L
    <3>1. IsFiniteSet(Held)
      BY <1>1, <2>2, ReservationSum
    <3> QED BY <2>1, <2>3, <3>1, QuantityDifference
  <2>5. Aggregate(s, n) = Quantity(L, QuantityOf)
    BY DEF Aggregate, LinkedOn
  <2>6. reserved[n] = Quantity(Held, QuantityOf)
    BY DEF StockInv, ReservedIsHeld
  <2>7. reserved[n] <= onHand[n]
    BY DEF StockInv, StockCovered
  <2>8. reserved[n] \in Nat /\ onHand[n] \in Nat /\ Aggregate(s, n) \in Nat
    BY <1>1, AggregateType DEF TypeOK
  <2> HIDE DEF Held, L
  <2> QED BY <2>4, <2>5, <2>6, <2>7, <2>8
<1>4. Touched(s) \subseteq Snapshot
  <2>1. Placed
    BY DEF StockInv
  <2> QED BY <2>1 DEF Placed, Touched, Linked, ResId
<1>5. CanCancelConfirmed(s) => AllLinked(s, "consumed")
  BY <1>1 DEF CanCancelConfirmed, ReservationsFollow, SettledAs, AllLinked
<1> QED BY <1>2, <1>3, <1>4, <1>5 DEF CanConsume, CanRelease

\* Every pending order can be confirmed as far as its stock is concerned, and
\* can always be cancelled or expired: the fail-closed branches of the
\* transitions are unreachable, so none of them keeps stock for ever.
THEOREM OrdersCanSettleCorrect == Spec => []OrdersCanSettle
BY CanSettle, StockInvCorrect, PTL

-----------------------------------------------------------------------------
(***************************************************************************)
(* The ledger.  The totals of inventory_movements are the sums of the      *)
(* consumed reservations, and of those whose order was cancelled after its *)
(* confirmation; that a confirmation finds all reservations of its order   *)
(* held, and such a cancellation all of them consumed, makes the sums move *)
(* with the totals.                                                        *)
(***************************************************************************)

\* The consumed reservations of a snapshot after their order is confirmed.
LEMMA ConsumedAfterConfirm ==
  ASSUME TypeOK, NEW s \in Session, AllLinked(s, "held"),
         reservations' = Settled(s, "consumed"), NEW n \in Snapshot
  PROVE  Quantity(InStatus("consumed", n)', QuantityOf') =
           Quantity(InStatus("consumed", n), QuantityOf) + Aggregate(s, n)
<1> DEFINE Consumed == InStatus("consumed", n)
           L == LinkedOn(s, n)
<1>1. L \in SUBSET ResId /\ Consumed \in SUBSET ResId
  BY InStatusType DEF LinkedOn, Linked, ResId
<1>2. Consumed \cap L = {}
  BY DEF LinkedOn, AllLinked, InStatus
<1>3. InStatus("consumed", n)' = Consumed \cup L
  <2>1. ASSUME NEW r \in ResId
        PROVE  r \in InStatus("consumed", n)' <=> r \in Consumed \cup L
    <3>1. reservations'[r].snapshot = reservations[r].snapshot
      BY SettledEffect
    <3>2. CASE r \in Linked(s)
      BY <3>1, <3>2, SettledEffect DEF InStatus, LinkedOn, AllLinked
    <3>3. CASE r \notin Linked(s)
      BY <3>3, SettledEffect DEF InStatus, LinkedOn
    <3> QED BY <3>2, <3>3
  <2>2. InStatus("consumed", n)' \subseteq ResId
    BY DEF InStatus
  <2> HIDE DEF Consumed, L
  <2> QED BY <1>1, <2>1, <2>2
<1>4. Aggregate(s, n) = Quantity(L, QuantityOf)
  BY DEF Aggregate, LinkedOn
<1> HIDE DEF Consumed, L
<1>5. Quantity(Consumed \cup L, QuantityOf') = Quantity(Consumed \cup L, QuantityOf)
  <2>1. \A r \in Consumed \cup L :
          reservations'[r].quantity = reservations[r].quantity
    BY <1>1, SettledEffect
  <2> QED BY <1>1, <2>1, SumUnchanged
<1>6. IsFiniteSet(Consumed) /\ IsFiniteSet(L)
  BY <1>1, ReservationSum
<1>7. \A r \in Consumed \cup L : QuantityOf[r] \in Nat
  BY <1>1 DEF TypeOK, QuantityOf, Reservation
<1>8. Quantity(Consumed \cup L, QuantityOf) =
        Quantity(Consumed, QuantityOf) + Quantity(L, QuantityOf)
  BY <1>2, <1>6, <1>7, QuantityDisjointUnion
<1> QED BY <1>3, <1>4, <1>5, <1>8 DEF Consumed

\* A step that consumes no reservation and brings no consumed one back, nor
\* changes which of their orders are cancelled, leaves both sums.
LEMMA LedgerSumsFrame ==
  ASSUME NEW n \in Snapshot,
         \A r \in ResId :
           /\ r \in InStatus("consumed", n)' <=> r \in InStatus("consumed", n)
           /\ r \in InStatus("consumed", n) =>
                reservations'[r].quantity = reservations[r].quantity,
         \A r \in InStatus("consumed", n) : r \in Session \X Listing =>
           (orders'[r[1]].status = "cancelled" <=> orders[r[1]].status = "cancelled")
  PROVE  /\ Quantity(InStatus("consumed", n)', QuantityOf') =
              Quantity(InStatus("consumed", n), QuantityOf)
         /\ Quantity(Restocked(n)', QuantityOf') = Quantity(Restocked(n), QuantityOf)
<1>1. InStatus("consumed", n)' = InStatus("consumed", n)
  BY DEF InStatus
<1>2. Restocked(n)' = Restocked(n)
  BY <1>1 DEF Restocked
<1>3. /\ InStatus("consumed", n) \in SUBSET ResId
      /\ Restocked(n) \in SUBSET InStatus("consumed", n)
  BY InStatusType DEF Restocked
<1>4. Quantity(InStatus("consumed", n), QuantityOf') =
        Quantity(InStatus("consumed", n), QuantityOf)
  BY <1>3, SumUnchanged
<1>5. Quantity(Restocked(n), QuantityOf') = Quantity(Restocked(n), QuantityOf)
  BY <1>3, SumUnchanged
<1> QED BY <1>1, <1>2, <1>4, <1>5

\* A confirmation changes no reservation of a cancelled order.
LEMMA RestockedAfterConfirm ==
  ASSUME TypeOK, NEW s \in Session, ConfirmOrder(s), NEW n \in Snapshot
  PROVE  Quantity(Restocked(n)', QuantityOf') = Quantity(Restocked(n), QuantityOf)
<1>1. /\ reservations' = Settled(s, "consumed") /\ AllLinked(s, "held")
      /\ Transition(s, "confirmed", "seller")
  BY DEF ConfirmOrder
<1>2. orders'[s].status = "confirmed"
  BY <1>1, TransitionEffect
<1>3. \A u \in Session : u # s => orders'[u] = orders[u]
  BY <1>1, TransitionEffect
<1>4. Restocked(n)' = Restocked(n)
  <2>1. ASSUME NEW u \in Session, NEW l \in Listing
        PROVE  <<u, l>> \in Restocked(n)' <=> <<u, l>> \in Restocked(n)
    <3>1. <<u, l>> \in ResId
      BY DEF ResId
    <3>2. CASE u = s
      <4>1. <<u, l>> \notin Restocked(n)'
        BY <1>2, <3>2 DEF Restocked
      <4>2. reservations[<<u, l>>].status # "consumed"
        BY <1>1, <3>2 DEF AllLinked, Linked
      <4> QED BY <4>1, <4>2 DEF Restocked, InStatus
    <3>3. CASE u # s
      <4>1. <<u, l>> \in ResId \ Linked(s)
        BY <3>1, <3>3 DEF Linked
      <4>2. reservations'[<<u, l>>] = reservations[<<u, l>>]
        BY <1>1, <4>1, SettledEffect
      <4> QED BY <1>3, <3>1, <3>3, <4>2 DEF Restocked, InStatus
    <3> QED BY <3>2, <3>3
  <2>2. Restocked(n) \subseteq Session \X Listing
    BY DEF Restocked
  <2>3. Restocked(n)' \subseteq Session \X Listing
    BY DEF Restocked
  <2> QED BY <2>1, <2>2, <2>3
<1>5. Restocked(n) \in SUBSET ResId
  BY DEF Restocked, InStatus
<1>6. Quantity(Restocked(n), QuantityOf') = Quantity(Restocked(n), QuantityOf)
  BY <1>1, <1>5, SettledEffect, SumUnchanged
<1> QED BY <1>4, <1>6

\* A cancellation after the confirmation adds the reservations of its order to
\* those that came back.
LEMMA RestockedAfterCancel ==
  ASSUME TypeOK, NEW s \in Session, CancelConfirmedOrder(s), NEW n \in Snapshot
  PROVE  Quantity(Restocked(n)', QuantityOf') =
           Quantity(Restocked(n), QuantityOf) + Aggregate(s, n)
<1> DEFINE R == Restocked(n)
           L == LinkedOn(s, n)
<1>1. /\ orders[s].status # "cancelled" /\ AllLinked(s, "consumed")
      /\ Transition(s, "cancelled", "seller") /\ UNCHANGED reservations
  BY DEF CancelConfirmedOrder, CanCancelConfirmed
<1>2. /\ orders'[s].status = "cancelled"
      /\ \A u \in Session : u # s => orders'[u] = orders[u]
  BY <1>1, TransitionEffect
<1>3. R \in SUBSET ResId /\ L \in SUBSET ResId
  BY DEF Restocked, InStatus, LinkedOn, Linked, ResId
<1>4. R \cap L = {}
  BY <1>1 DEF Restocked, LinkedOn, Linked
<1>5. Restocked(n)' = R \cup L
  <2>1. ASSUME NEW u \in Session, NEW l \in Listing
        PROVE  <<u, l>> \in Restocked(n)' <=> <<u, l>> \in R \cup L
    <3>1. <<u, l>> \in ResId
      BY DEF ResId
    <3>2. CASE u = s
      <4>1. <<u, l>> \in Restocked(n)' <=>
              /\ reservations[<<u, l>>].status = "consumed"
              /\ reservations[<<u, l>>].snapshot = n
        BY <1>1, <1>2, <3>1, <3>2 DEF Restocked, InStatus
      <4>2. <<u, l>> \notin R
        BY <1>1, <3>2 DEF Restocked
      <4>3. <<u, l>> \in L <=>
              /\ reservations[<<u, l>>].status = "consumed"
              /\ reservations[<<u, l>>].snapshot = n
        BY <1>1, <3>2 DEF LinkedOn, Linked, AllLinked
      <4> HIDE DEF R, L
      <4> QED BY <4>1, <4>2, <4>3
    <3>3. CASE u # s
      <4>1. <<u, l>> \in Restocked(n)' <=> <<u, l>> \in R
        BY <1>1, <1>2, <3>1, <3>3 DEF Restocked, InStatus
      <4>2. <<u, l>> \notin L
        BY <3>3 DEF LinkedOn, Linked
      <4> HIDE DEF R, L
      <4> QED BY <4>1, <4>2
    <3> QED BY <3>2, <3>3
  <2>2. R \cup L \subseteq Session \X Listing
    BY DEF Restocked, LinkedOn, Linked
  <2>3. Restocked(n)' \subseteq Session \X Listing
    BY DEF Restocked
  <2> HIDE DEF R, L
  <2> QED BY <2>1, <2>2, <2>3
<1>6. Aggregate(s, n) = Quantity(L, QuantityOf)
  BY DEF Aggregate, LinkedOn
<1>7. QuantityOf' = QuantityOf
  BY <1>1 DEF QuantityOf
<1> HIDE DEF R, L
<1>8. IsFiniteSet(R) /\ IsFiniteSet(L)
  BY <1>3, ReservationSum
<1>9. \A r \in R \cup L : QuantityOf[r] \in Nat
  BY <1>3 DEF TypeOK, QuantityOf, Reservation
<1>10. Quantity(R \cup L, QuantityOf) =
         Quantity(R, QuantityOf) + Quantity(L, QuantityOf)
  BY <1>4, <1>8, <1>9, QuantityDisjointUnion
<1> QED BY <1>5, <1>6, <1>7, <1>10 DEF R

\* The columns of one snapshot balance.
Balanced(n) ==
  /\ onHand[n] = InitialStock[n] + movements[n].adjustment
                 + movements[n].reservation_consumed
                 + movements[n].order_cancellation_restock
  /\ movements[n].reservation_consumed =
       -Quantity(InStatus("consumed", n), QuantityOf)
  /\ movements[n].order_cancellation_restock =
       Quantity(Restocked(n), QuantityOf)

\* A step that moves no on-hand stock writes no movement.
LEMMA BalancedFrame ==
  ASSUME NEW n \in Snapshot, Balanced(n),
         onHand'[n] = onHand[n], movements'[n] = movements[n],
         \A r \in ResId :
           /\ r \in InStatus("consumed", n)' <=> r \in InStatus("consumed", n)
           /\ r \in InStatus("consumed", n) =>
                reservations'[r].quantity = reservations[r].quantity,
         \A r \in InStatus("consumed", n) : r \in Session \X Listing =>
           (orders'[r[1]].status = "cancelled" <=> orders[r[1]].status = "cancelled")
  PROVE  Balanced(n)'
<1>1. /\ Quantity(InStatus("consumed", n)', QuantityOf') =
           Quantity(InStatus("consumed", n), QuantityOf)
      /\ Quantity(Restocked(n)', QuantityOf') = Quantity(Restocked(n), QuantityOf)
  BY LedgerSumsFrame
<1> QED BY <1>1 DEF Balanced

LEMMA BalancedStep ==
  ASSUME OrdersInv, NEW n \in Snapshot, Balanced(n), [Next]_vars
  PROVE  Balanced(n)'
<1> TypeOK
  BY DEF OrdersInv
<1>0. /\ onHand[n] \in Nat /\ movements[n] \in MovementTotals
      /\ movements[n].adjustment \in Int
      /\ movements[n].reservation_consumed \in Int
      /\ movements[n].order_cancellation_restock \in Int
      /\ InitialStock[n] \in Nat
  BY StockAssumption DEF TypeOK, MovementTotals
<1>1. ASSUME NEW s \in Session, ConfirmOrder(s) PROVE Balanced(n)'
  <2>1. /\ onHand'[n] = onHand[n] - Aggregate(s, n)
        /\ movements'[n] = [movements[n] EXCEPT
             !.reservation_consumed = @ - Aggregate(s, n)]
    BY <1>1 DEF ConfirmOrder
  <2>2. Aggregate(s, n) \in Nat
    BY AggregateType
  <2>3. /\ movements'[n].adjustment = movements[n].adjustment
        /\ movements'[n].reservation_consumed =
             movements[n].reservation_consumed - Aggregate(s, n)
        /\ movements'[n].order_cancellation_restock =
             movements[n].order_cancellation_restock
    BY <1>0, <2>1 DEF MovementTotals
  <2>4. Quantity(InStatus("consumed", n)', QuantityOf') =
          Quantity(InStatus("consumed", n), QuantityOf) + Aggregate(s, n)
    BY <1>1, ConsumedAfterConfirm DEF ConfirmOrder
  <2>5. Quantity(Restocked(n)', QuantityOf') = Quantity(Restocked(n), QuantityOf)
    BY <1>1, RestockedAfterConfirm
  <2>6. Quantity(InStatus("consumed", n), QuantityOf) \in Nat
    BY InStatusType, ReservationSum
  <2> QED BY <1>0, <2>1, <2>2, <2>3, <2>4, <2>5, <2>6 DEF Balanced
<1>2. ASSUME NEW s \in Session, CancelConfirmedOrder(s) PROVE Balanced(n)'
  <2>1. /\ onHand'[n] = onHand[n] + Aggregate(s, n)
        /\ movements'[n] = [movements[n] EXCEPT
             !.order_cancellation_restock = @ + Aggregate(s, n)]
        /\ UNCHANGED reservations
    BY <1>2 DEF CancelConfirmedOrder
  <2>2. Aggregate(s, n) \in Nat
    BY AggregateType
  <2>3. /\ movements'[n].adjustment = movements[n].adjustment
        /\ movements'[n].reservation_consumed = movements[n].reservation_consumed
        /\ movements'[n].order_cancellation_restock =
             movements[n].order_cancellation_restock + Aggregate(s, n)
    BY <1>0, <2>1 DEF MovementTotals
  <2>4. Quantity(Restocked(n)', QuantityOf') =
          Quantity(Restocked(n), QuantityOf) + Aggregate(s, n)
    BY <1>2, RestockedAfterCancel
  <2>5. /\ InStatus("consumed", n)' = InStatus("consumed", n)
        /\ QuantityOf' = QuantityOf
    BY <2>1, SumsFrame
  <2> QED BY <1>0, <2>1, <2>2, <2>3, <2>4, <2>5 DEF Balanced
<1>3. ASSUME NEW s \in Session, NEW actor, NEW status \in {"released", "expired"},
             ReleaseHeld(s, status, actor)
      PROVE  Balanced(n)'
  <2>1. /\ reservations' = Settled(s, status) /\ AllLinked(s, "held")
        /\ Transition(s, "cancelled", actor)
        /\ UNCHANGED <<onHand, movements>>
    BY <1>3 DEF ReleaseHeld
  <2>2. ASSUME NEW r \in ResId
        PROVE  /\ r \in InStatus("consumed", n)' <=> r \in InStatus("consumed", n)
               /\ reservations'[r].quantity = reservations[r].quantity
    <3>1. CASE r \in Linked(s)
      BY <2>1, <3>1, SettledEffect DEF InStatus, AllLinked
    <3>2. CASE r \notin Linked(s)
      BY <2>1, <3>2, SettledEffect DEF InStatus
    <3> QED BY <3>1, <3>2
  <2>3. ASSUME NEW r \in InStatus("consumed", n), r \in Session \X Listing
        PROVE  orders'[r[1]] = orders[r[1]]
    <3>1. r[1] \in Session /\ r \in {r[1]} \X Listing
      BY <2>3
    <3>2. r[1] # s
      BY <2>1, <3>1 DEF InStatus, AllLinked, Linked
    <3> QED BY <2>1, <3>1, <3>2, TransitionEffect
  <2> QED BY <2>1, <2>2, <2>3, BalancedFrame
<1>4. ASSUME NEW s \in Session, NEW to \in OrderStatus, AdvanceOrderStatus(s, to)
      PROVE  Balanced(n)'
  <2>1. /\ orders[s].status # "cancelled" /\ to # "cancelled"
        /\ Transition(s, to, "seller")
        /\ UNCHANGED <<reservations, onHand, movements>>
    BY <1>4 DEF AdvanceOrderStatus, NeutralAdvance, stockVars
  <2>2. ASSUME NEW u \in Session
        PROVE  orders'[u].status = "cancelled" <=> orders[u].status = "cancelled"
    <3>1. CASE u = s
      BY <2>1, <3>1, TransitionEffect
    <3>2. CASE u # s
      BY <2>1, <3>2, TransitionEffect
    <3> QED BY <3>1, <3>2
  <2>3. InStatus("consumed", n)' = InStatus("consumed", n)
    BY <2>1, SumsFrame
  <2> QED BY <2>1, <2>2, <2>3, BalancedFrame
<1>5. ASSUME NEW s \in Session, NEW q \in Request, FinalizeCheckout(s, q)
      PROVE  Balanced(n)'
  <2> DEFINE lines == LinesOf(carts[SessionCart[s]].items)
  <2>1. /\ Linked(s) = {}
        /\ \A r \in {s} \X lines : /\ reservations[r].status = "none"
                                   /\ reservations'[r].status = "held"
        /\ \A r \in ResId \ ({s} \X lines) : reservations'[r] = reservations[r]
    BY <1>5, HeldLines
  <2>2. UNCHANGED <<onHand, movements>>
    BY <1>5 DEF FinalizeCheckout
  <2> HIDE DEF lines
  <2>3. ASSUME NEW r \in ResId
        PROVE  /\ r \in InStatus("consumed", n)' <=> r \in InStatus("consumed", n)
               /\ r \in InStatus("consumed", n) =>
                    reservations'[r].quantity = reservations[r].quantity
    <3>1. CASE r \in {s} \X lines
      BY <2>1, <3>1 DEF InStatus
    <3>2. CASE r \notin {s} \X lines
      BY <2>1, <3>2 DEF InStatus
    <3> QED BY <3>1, <3>2
  <2>4. ASSUME NEW r \in InStatus("consumed", n), r \in Session \X Listing
        PROVE  orders'[r[1]] = orders[r[1]]
    <3>1. r[1] \in Session /\ r \in {r[1]} \X Listing
      BY <2>4
    <3>2. r[1] # s
      BY <2>1, <3>1 DEF InStatus, Linked
    <3> QED BY <1>5, <3>1, <3>2, FinalizeEffect
  <2> QED BY <2>2, <2>3, <2>4, BalancedFrame
<1>6. ASSUME NEW m \in Snapshot, NEW d \in Adjustments, AdjustInventory(m, d)
      PROVE  Balanced(n)'
  <2>1. /\ UNCHANGED <<orders, reservations>> /\ d \in Int
        /\ onHand' = [onHand EXCEPT ![m] = @ + d]
        /\ movements' = [movements EXCEPT ![m].adjustment = @ + d]
    BY <1>6, NumberAssumption DEF AdjustInventory, orderVars
  <2>2. /\ InStatus("consumed", n)' = InStatus("consumed", n)
        /\ QuantityOf' = QuantityOf
    BY <2>1, SumsFrame
  <2>3. Restocked(n)' = Restocked(n)
    BY <2>1, <2>2 DEF Restocked
  <2>4. CASE m = n
    <3>1. /\ onHand'[n] = onHand[n] + d
          /\ movements'[n] = [movements[n] EXCEPT !.adjustment = @ + d]
      BY <2>1, <2>4 DEF TypeOK
    <3>2. /\ movements'[n].adjustment = movements[n].adjustment + d
          /\ movements'[n].reservation_consumed = movements[n].reservation_consumed
          /\ movements'[n].order_cancellation_restock =
               movements[n].order_cancellation_restock
      BY <1>0, <3>1 DEF MovementTotals
    <3> QED BY <1>0, <2>1, <2>2, <2>3, <3>1, <3>2 DEF Balanced
  <2>5. CASE m # n
    <3>1. onHand'[n] = onHand[n] /\ movements'[n] = movements[n]
      BY <2>1, <2>5 DEF TypeOK
    <3> QED BY <2>2, <2>3, <3>1 DEF Balanced
  <2> QED BY <2>4, <2>5
<1>7. ASSUME NEW t \in Token, NEW m \in Snapshot, NEW k \in 0 .. MaxOnHand,
             ReserveInventory(t, m, k)
      PROVE  Balanced(n)'
  <2>1. /\ reservations[t].status = "none"
        /\ reservations' = [reservations EXCEPT ![t] =
             [status |-> "held", snapshot |-> m, quantity |-> k, expires |-> 0]]
        /\ UNCHANGED <<orders, onHand, movements>>
    BY <1>7 DEF ReserveInventory, orderVars
  <2>2. ASSUME NEW r \in ResId
        PROVE  /\ r \in InStatus("consumed", n)' <=> r \in InStatus("consumed", n)
               /\ r \in InStatus("consumed", n) =>
                    reservations'[r].quantity = reservations[r].quantity
    <3>1. CASE r = t
      BY <2>1, <3>1 DEF InStatus, TypeOK
    <3>2. CASE r # t
      BY <2>1, <3>2 DEF InStatus, TypeOK
    <3> QED BY <3>1, <3>2
  <2> QED BY <2>1, <2>2, BalancedFrame
<1>8. CASE UNCHANGED <<orders, stockVars>>
  <2>1. UNCHANGED <<orders, reservations, onHand, movements>>
    BY <1>8 DEF stockVars
  <2>2. InStatus("consumed", n)' = InStatus("consumed", n)
    BY <2>1, SumsFrame
  <2> QED BY <2>1, <2>2, BalancedFrame
<1> QED BY <1>1, <1>2, <1>3, <1>4, <1>5, <1>6, <1>7, <1>8, StepCases

\* The movements of a snapshot account for every unit on its shelf, whatever
\* happened to it: what was sold left once, what was cancelled came back once.
THEOREM LedgerExplainsStockCorrect == Spec => []LedgerExplainsStock
<1>1. LedgerExplainsStock <=> \A n \in Snapshot : Balanced(n)
  BY DEF LedgerExplainsStock, Balanced
<1>2. Init => \A n \in Snapshot : Balanced(n)
  <2> SUFFICES ASSUME Init, NEW n \in Snapshot PROVE Balanced(n)
    OBVIOUS
  <2>1. InStatus("consumed", n) = {}
    BY DEF Init, InStatus, NoReservation
  <2>2. Restocked(n) = {}
    BY <2>1 DEF Restocked
  <2>3. Quantity({}, QuantityOf) = 0
    BY QuantityEmpty
  <2>4. /\ onHand[n] = InitialStock[n] /\ InitialStock[n] \in Nat
        /\ movements[n].adjustment = 0
        /\ movements[n].reservation_consumed = 0
        /\ movements[n].order_cancellation_restock = 0
    BY StockAssumption DEF Init, NoMovement
  <2> QED BY <2>1, <2>2, <2>3, <2>4 DEF Balanced
<1>3. OrdersInv /\ (\A n \in Snapshot : Balanced(n)) /\ [Next]_vars
        => (\A n \in Snapshot : Balanced(n))'
  BY BalancedStep
<1> QED BY <1>1, <1>2, <1>3, OrdersInvCorrect, PTL DEF Spec
=============================================================================
