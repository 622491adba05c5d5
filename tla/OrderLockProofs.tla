--------------------------- MODULE OrderLockProofs ---------------------------
(***************************************************************************)
(* The row locks of orders, for any number of connections, carts, orders   *)
(* and snapshots.                                                          *)
(*                                                                         *)
(* The tables have an order (Rank) that no script goes against, and within *)
(* a table the ids have theirs.  The strengthening: a transaction has all  *)
(* rows of the statements before one it has a row of (InOrder), and in a   *)
(* sorted statement all rows before one it has (Sorted).  So what it holds *)
(* is below what it waits for, and in a ring the rows waited for would     *)
(* descend for ever.  Products have no order: there a new slug is needed to*)
(* make a checkout wait or to wait for one, and it waits for its product   *)
(* before it holds a row (SlugHoldsNothing).                               *)
(***************************************************************************)
EXTENDS OrderLocks, WellFoundedInduction, TLAPS

Rank ==
  [ checkout_sessions |-> 1, carts |-> 2, orders |-> 3,
    inventory_snapshots |-> 4, inventory_reservations |-> 5,
    store_order_sequences |-> 6, products |-> 7, storefront_revisions |-> 8 ]

Unordered == {"products", "storefront_revisions"}

Below(r, q) ==
  \/ Rank[r[1]] < Rank[q[1]]
  \/ r[1] = q[1] /\ r[1] \in ById /\ r[2] < q[2]
  \/ r[1] = q[1] /\ r[1] \in Unordered

Typed ==
  /\ call \in [Tx -> Call \cup {None}]
  /\ want \in [Tx -> Row \cup {None}]
  /\ holders \in [Row -> SUBSET Tx]

Owned ==
  \A r \in Row : \A t \in holders[r] :
    /\ call[t] # None
    /\ \E i \in DOMAIN Script[call[t]] : r \in Script[call[t]][i]

Exclusive ==
  \A r \in Row : \A t, u \in holders[r] : t # u => Shares(t, r) /\ Shares(u, r)

Asked(t) ==
  want[t] # None => call[t] # None /\ Ahead(t) # {} /\ want[t] \in Turn(t)

InOrder(t) ==
  call[t] # None =>
    \A i, j \in DOMAIN Script[call[t]] : \A r \in Script[call[t]][i] :
      \A q \in Script[call[t]][j] : j < i /\ t \in holders[r] => t \in holders[q]

Sorted(t) ==
  call[t] # None =>
    \A i \in DOMAIN Script[call[t]] : \A r, q \in Script[call[t]][i] :
      r[1] \in ById /\ q[2] <= r[2] /\ t \in holders[r] => t \in holders[q]

LockInv ==
  Typed /\ Owned /\ Exclusive /\ \A t \in Tx : Asked(t) /\ InOrder(t) /\ Sorted(t)

-----------------------------------------------------------------------------
(***************************************************************************)
(* Rows and scripts.                                                       *)
(***************************************************************************)
LEMMA Least ==
  ASSUME NEW S \in SUBSET Nat, S # {}
  PROVE  \E n \in S : \A m \in S : n <= m
<1> DEFINE R == OpToRel(<, Nat)
<1>1. IsWellFoundedOn(R, Nat)
  BY NatLessThanWellFounded, Zenon
<1>2. \A m, n \in Nat : m < n => <<m, n>> \in R
  BY DEF OpToRel
<1> HIDE DEF R
<1>3. PICK n \in S : \A m \in S : <<m, n>> \notin R
  BY <1>1, WFMin
<1>4. \A m \in S : n \in Nat /\ m \in Nat /\ ~ (m < n)
  BY <1>2, <1>3
<1> QED BY <1>3, <1>4

LEMMA RowForm ==
  ASSUME NEW r \in Row
  PROVE  /\ r = <<r[1], r[2]>>
         /\ r[1] \in DOMAIN Rank
         /\ Rank[r[1]] \in 1..8
         /\ r[1] \in ById => r[2] \in Nat
         /\ Rank[r[1]] = 8 <=> r[1] = "storefront_revisions"
BY LocksAssumption DEF Row, Rows, Rank, ById

\* A statement locks rows of one table; only those of four tables can
\* be several.
OneTable(S, table) ==
  /\ S \subseteq Row
  /\ \A r \in S : r[1] = table
  /\ table \in DOMAIN Rank
  /\ table \notin ById \cup Unordered => \A r, q \in S : r = q

LEMMA RowsTable ==
  /\ \A s \in Session : OneTable(Rows("checkout_sessions", {s}), "checkout_sessions")
  /\ \A c \in Cart : OneTable(Rows("carts", {c}), "carts")
  /\ \A o \in Order : OneTable(Rows("orders", {o}), "orders")
  /\ \A S \in SUBSET Snapshot :
       OneTable(Rows("inventory_snapshots", S), "inventory_snapshots")
  /\ \A S \in SUBSET Reservation :
       OneTable(Rows("inventory_reservations", S), "inventory_reservations")
  /\ \A s \in Store :
       OneTable(Rows("store_order_sequences", {s}), "store_order_sequences")
  /\ \A S \in SUBSET Product : OneTable(Rows("products", S), "products")
  /\ \A S \in SUBSET Store :
       OneTable(Rows("storefront_revisions", S), "storefront_revisions")
<1>1. \A s \in Session : OneTable(Rows("checkout_sessions", {s}), "checkout_sessions")
  BY DEF OneTable, Row, Rows, Rank, ById, Unordered
<1>2. \A c \in Cart : OneTable(Rows("carts", {c}), "carts")
  BY DEF OneTable, Row, Rows, Rank, ById, Unordered
<1>3. \A o \in Order : OneTable(Rows("orders", {o}), "orders")
  BY DEF OneTable, Row, Rows, Rank, ById, Unordered
<1>4. \A S \in SUBSET Snapshot :
        OneTable(Rows("inventory_snapshots", S), "inventory_snapshots")
  BY DEF OneTable, Row, Rows, Rank, ById, Unordered
<1>5. \A S \in SUBSET Reservation :
        OneTable(Rows("inventory_reservations", S), "inventory_reservations")
  BY DEF OneTable, Row, Rows, Rank, ById, Unordered
<1>6. \A s \in Store :
        OneTable(Rows("store_order_sequences", {s}), "store_order_sequences")
  BY DEF OneTable, Row, Rows, Rank, ById, Unordered
<1>7. \A S \in SUBSET Product : OneTable(Rows("products", S), "products")
  BY DEF OneTable, Row, Rows, Rank, ById, Unordered
<1>8. \A S \in SUBSET Store :
        OneTable(Rows("storefront_revisions", S), "storefront_revisions")
  BY DEF OneTable, Row, Rows, Rank, ById, Unordered
<1> QED BY <1>1, <1>2, <1>3, <1>4, <1>5, <1>6, <1>7, <1>8

LEMMA CallForm ==
  ASSUME NEW c \in Call
  PROVE  \/ c.op = "finalize" /\ c.on \in Session
         \/ c.op = "cart" /\ c.on \in Cart
         \/ c.op = "transition" /\ c.on \in Order
         \/ c.op = "stock" /\ c.on \in Snapshot
         \/ c.op = "rename" /\ c.on \in Product
BY DEF Call, Op

\* The tables a script locks, statement by statement.
Tables(op) ==
  CASE op = "finalize" -> << "checkout_sessions", "carts", "inventory_snapshots",
                             "store_order_sequences", "products" >>
    [] op = "cart" -> << "carts" >>
    [] op = "transition" -> << "orders", "inventory_snapshots",
                               "inventory_reservations" >>
    [] op = "stock" -> << "inventory_snapshots", "storefront_revisions" >>
    [] op = "rename" -> << "products", "storefront_revisions" >>

LEMMA ScriptForm ==
  ASSUME NEW c \in Call
  PROVE  /\ DOMAIN Script[c] = DOMAIN Tables(c.op)
         /\ DOMAIN Script[c] \subseteq Nat
         /\ \A i \in DOMAIN Script[c] : OneTable(Script[c][i], Tables(c.op)[i])
<1>1. CASE c.op = "finalize" /\ c.on \in Session
  <2> DEFINE k == CartOf[c.on]
  <2>1. /\ k \in Cart /\ StoreOf[k] \in Store /\ Candidates[k] \in SUBSET Snapshot
        /\ Ordered[k] \in SUBSET Product
    BY <1>1, LocksAssumption
  <2>2. Script[c] = FinalizeCheckout(c.on)
    BY <1>1 DEF Script
  <2>3. /\ OneTable(Rows("checkout_sessions", {c.on}), "checkout_sessions")
        /\ OneTable(Rows("carts", {k}), "carts")
        /\ OneTable(Rows("inventory_snapshots", Candidates[k]), "inventory_snapshots")
        /\ OneTable(Rows("store_order_sequences", {StoreOf[k]}), "store_order_sequences")
        /\ OneTable(Rows("products", Ordered[k]), "products")
    BY <1>1, <2>1, RowsTable
  <2>4. Tables(c.op) = << "checkout_sessions", "carts", "inventory_snapshots",
                          "store_order_sequences", "products" >>
    BY <1>1 DEF Tables
  <2> QED BY <2>2, <2>3, <2>4 DEF FinalizeCheckout
<1>2. CASE c.op = "cart" /\ c.on \in Cart
  <2>1. Script[c] = GetCart(c.on) /\ Tables(c.op) = << "carts" >>
    BY <1>2 DEF Script, Tables
  <2> QED BY <1>2, <2>1, RowsTable DEF GetCart
<1>3. CASE c.op = "transition" /\ c.on \in Order
  <2> DEFINE S == {SnapshotOf[r] : r \in Items[c.on]}
  <2>1. S \in SUBSET Snapshot /\ Items[c.on] \in SUBSET Reservation
    BY <1>3, LocksAssumption
  <2>2. Script[c] = Transition(c.on)
    BY <1>3 DEF Script
  <2>3. /\ OneTable(Rows("orders", {c.on}), "orders")
        /\ OneTable(Rows("inventory_snapshots", S), "inventory_snapshots")
        /\ OneTable(Rows("inventory_reservations", Items[c.on]), "inventory_reservations")
    BY <1>3, <2>1, RowsTable
  <2>4. Tables(c.op) = << "orders", "inventory_snapshots", "inventory_reservations" >>
    BY <1>3 DEF Tables
  <2> QED BY <2>2, <2>3, <2>4 DEF Transition
<1>4. CASE c.op = "stock" /\ c.on \in Snapshot
  <2>1. Publishers[c.on] \in SUBSET Store /\ {c.on} \in SUBSET Snapshot
    BY <1>4, LocksAssumption
  <2>2. Script[c] = WriteStock(c.on)
    BY <1>4 DEF Script
  <2>3. /\ OneTable(Rows("inventory_snapshots", {c.on}), "inventory_snapshots")
        /\ OneTable(Rows("storefront_revisions", Publishers[c.on]), "storefront_revisions")
    BY <2>1, RowsTable
  <2>4. Tables(c.op) = << "inventory_snapshots", "storefront_revisions" >>
    BY <1>4 DEF Tables
  <2> QED BY <2>2, <2>3, <2>4 DEF WriteStock
<1>5. CASE c.op = "rename" /\ c.on \in Product
  <2>1. Listers[c.on] \in SUBSET Store /\ {c.on} \in SUBSET Product
    BY <1>5, LocksAssumption
  <2>2. Script[c] = RenameProduct(c.on)
    BY <1>5 DEF Script
  <2>3. /\ OneTable(Rows("products", {c.on}), "products")
        /\ OneTable(Rows("storefront_revisions", Listers[c.on]), "storefront_revisions")
    BY <2>1, RowsTable
  <2>4. Tables(c.op) = << "products", "storefront_revisions" >>
    BY <1>5 DEF Tables
  <2> QED BY <2>2, <2>3, <2>4 DEF RenameProduct
<1> QED BY <1>1, <1>2, <1>3, <1>4, <1>5, CallForm

\* No script goes down in the order of the tables.
LEMMA TablesAscend ==
  ASSUME NEW c \in Call, NEW i \in DOMAIN Script[c], NEW j \in DOMAIN Script[c],
         i < j, NEW r \in Script[c][i], NEW q \in Script[c][j]
  PROVE  Rank[r[1]] < Rank[q[1]]
<1>1. /\ r[1] = Tables(c.op)[i] /\ q[1] = Tables(c.op)[j]
      /\ i \in DOMAIN Tables(c.op) /\ j \in DOMAIN Tables(c.op)
  BY ScriptForm DEF OneTable
<1> QED BY <1>1, CallForm DEF Tables, Rank

LEMMA OneStatement ==
  ASSUME NEW c \in Call, NEW i \in DOMAIN Script[c], NEW j \in DOMAIN Script[c],
         NEW r, r \in Script[c][i], r \in Script[c][j]
  PROVE  i = j
<1>1. i \in Nat /\ j \in Nat
  BY ScriptForm
<1>2. r \in Row
  BY ScriptForm DEF OneTable
<1>3. Rank[r[1]] \in 1..8
  BY <1>2, RowForm
<1>4. ~ (i < j) /\ ~ (j < i)
  BY <1>3, TablesAscend
<1> QED BY <1>1, <1>4

\* The rows of a statement are of one table, and two only where it sorts them
\* or where their order does not matter.
LEMMA OneOrSorted ==
  ASSUME NEW c \in Call, NEW i \in DOMAIN Script[c],
         NEW r \in Script[c][i], NEW q \in Script[c][i]
  PROVE  /\ r[1] = Tables(c.op)[i] /\ q[1] = r[1]
         /\ r # q => r[1] \in ById \cup Unordered
BY ScriptForm DEF OneTable

LEMMA Running ==
  ASSUME NEW t \in Tx, call[t] \in Call, Ahead(t) # {}
  PROVE  \E i \in DOMAIN Script[call[t]] :
           /\ Missing(t) = {r \in Script[call[t]][i] : t \notin holders[r]}
           /\ Missing(t) # {}
           /\ \A j \in DOMAIN Script[call[t]] :
                j < i => \A r \in Script[call[t]][j] : t \in holders[r]
<1>1. Ahead(t) \in SUBSET Nat
  BY ScriptForm DEF Ahead
<1>2. PICK n \in Ahead(t) : \A j \in Ahead(t) : n <= j
  BY <1>1, Least
<1> DEFINE i == CHOOSE k \in Ahead(t) : \A j \in Ahead(t) : k <= j
<1>3. i \in Ahead(t) /\ \A j \in Ahead(t) : i <= j
  BY <1>2
<1>4. Missing(t) = {r \in Script[call[t]][i] : t \notin holders[r]}
  BY DEF Missing
<1>5. i \in DOMAIN Script[call[t]] /\ Missing(t) # {}
  BY <1>3, <1>4 DEF Ahead
<1>6. ASSUME NEW j \in DOMAIN Script[call[t]], j < i,
             NEW r \in Script[call[t]][j]
      PROVE  t \in holders[r]
  <2>1. j \notin Ahead(t)
    BY <1>1, <1>3, <1>6
  <2> QED BY <2>1 DEF Ahead
<1> HIDE DEF i
<1> QED BY <1>4, <1>5, <1>6

LEMMA RunningAt ==
  ASSUME NEW t \in Tx, call[t] \in Call, Ahead(t) # {}
  PROVE  \E i \in DOMAIN Script[call[t]] :
           /\ i = CHOOSE k \in Ahead(t) : \A j \in Ahead(t) : k <= j
           /\ Missing(t) = {r \in Script[call[t]][i] : t \notin holders[r]}
<1>1. Ahead(t) \in SUBSET Nat
  BY ScriptForm DEF Ahead
<1>2. \E n \in Ahead(t) : \A j \in Ahead(t) : n <= j
  BY <1>1, Least
<1> QED BY <1>2 DEF Missing, Ahead

LEMMA TurnForm ==
  ASSUME NEW t \in Tx
  PROVE  /\ Turn(t) \subseteq Missing(t)
         /\ \A w \in Turn(t) :
              (\A r \in Missing(t) : r[1] \in ById) =>
                \A q \in Missing(t) : w[2] <= q[2]
BY DEF Turn, Ascending

-----------------------------------------------------------------------------
(***************************************************************************)
(* What a transaction holds is below what it waits for.                    *)
(***************************************************************************)
LEMMA HeldBelowWanted ==
  ASSUME LockInv, NEW t \in Tx, want[t] # None, NEW r \in Row, t \in holders[r]
  PROVE  Below(r, want[t])
<1> DEFINE c == call[t]
           w == want[t]
<1>1. c \in Call /\ Ahead(t) # {} /\ w \in Turn(t)
  BY DEF LockInv, Asked, Typed
<1>2. PICK i \in DOMAIN Script[c] :
        /\ Missing(t) = {q \in Script[c][i] : t \notin holders[q]}
        /\ \A j \in DOMAIN Script[c] :
             j < i => \A q \in Script[c][j] : t \in holders[q]
  BY <1>1, Running
<1>3. w \in Script[c][i] /\ t \notin holders[w]
  BY <1>1, <1>2, TurnForm
<1>4. PICK j \in DOMAIN Script[c] : r \in Script[c][j]
  BY DEF LockInv, Owned
<1>5. i \in Nat /\ j \in Nat
  BY <1>1, ScriptForm
<1>6. c # None
  BY <1>1, LocksAssumption
<1>7. CASE j < i
  BY <1>1, <1>3, <1>4, <1>7, TablesAscend DEF Below
<1>8. ~ (i < j)
  BY <1>1, <1>3, <1>4, <1>6 DEF LockInv, InOrder
<1>9. CASE j = i
  <2>1. r # w
    BY <1>3
  <2>2. r[1] = w[1] /\ r[1] \in ById \cup Unordered
    BY <1>1, <1>3, <1>4, <1>9, <2>1, OneOrSorted
  <2>3. CASE r[1] \in Unordered
    BY <2>2, <2>3 DEF Below
  <2>4. CASE r[1] \in ById
    <3>1. w \in Row
      BY <1>1, <1>3, ScriptForm DEF OneTable
    <3>2. r[2] \in Nat /\ w[2] \in Nat
      BY <2>2, <2>4, <3>1, RowForm
    <3>3. ~ (w[2] <= r[2])
      BY <1>1, <1>3, <1>4, <1>9, <1>6, <2>4 DEF LockInv, Sorted
    <3> QED BY <2>2, <2>4, <3>2, <3>3 DEF Below
  <2> QED BY <2>2, <2>3, <2>4
<1> QED BY <1>5, <1>7, <1>8, <1>9

\* A new slug that waits for its product holds no row yet.
LEMMA SlugHoldsNothing ==
  ASSUME LockInv, NEW t \in Tx, want[t] # None, want[t][1] = "products",
         call[t].op # "finalize", NEW r \in Row
  PROVE  t \notin holders[r]
<1> DEFINE c == call[t]
           w == want[t]
<1>1. SUFFICES ASSUME t \in holders[r] PROVE FALSE
  OBVIOUS
<1>2. c \in Call /\ Ahead(t) # {} /\ w \in Turn(t)
  BY DEF LockInv, Asked, Typed
<1>3. PICK i \in DOMAIN Script[c] :
        Missing(t) = {q \in Script[c][i] : t \notin holders[q]}
  BY <1>2, Running
<1>4. w \in Script[c][i] /\ t \notin holders[w]
  BY <1>2, <1>3, TurnForm
<1>5. Tables(c.op)[i] = "products" /\ i \in DOMAIN Tables(c.op)
  BY <1>2, <1>4, ScriptForm, OneOrSorted
<1>6. c.op = "rename" /\ c.on \in Product /\ i = 1
  BY <1>2, <1>5, CallForm DEF Tables
<1>7. PICK j \in DOMAIN Script[c] : r \in Script[c][j]
  BY <1>1 DEF LockInv, Owned
<1>8. j \in {1, 2} /\ Script[c][1] = Rows("products", {c.on})
  BY <1>6, <1>2 DEF Script, RenameProduct
<1>9. CASE j = 1
  BY <1>1, <1>4, <1>6, <1>7, <1>8, <1>9 DEF Rows
<1>10. CASE j = 2
  <2>1. c # None
    BY <1>2, LocksAssumption
  <2> QED BY <1>1, <1>4, <1>6, <1>7, <1>10, <2>1 DEF LockInv, InOrder
<1> QED BY <1>8, <1>9, <1>10

\* In a ring every transaction is waited for, by one that wants a row below.
LEMMA NoOtherCycle ==
  ASSUME LockInv, NEW D \in SUBSET Tx, Cycle(D)
  PROVE  \A t \in D : want[t][1] = "storefront_revisions"
<1> DEFINE A == {t \in D : want[t][1] # "storefront_revisions"}
           rank(t) == Rank[want[t][1]]
<1>1. \A t \in D : want[t] \in Row /\ want[t] # None
  BY DEF Cycle, Blockers, LockInv, Typed
<1>2. ASSUME NEW u \in A
      PROVE  \E t \in A : /\ Below(want[t], want[u])
                           /\ ~ (want[t][1] = "products" /\ want[u][1] = "products")
  <2>1. PICK t \in D : u \in Blockers(t)
    BY DEF Cycle
  <2>2. /\ u \in holders[want[t]] /\ want[t] \in Row
        /\ ~ (Shares(t, want[t]) /\ Shares(u, want[t]))
    BY <1>1, <2>1 DEF Blockers, InTheWay
  <2>3. Below(want[t], want[u])
    BY <1>1, <2>2, HeldBelowWanted
  <2>4. t \in A
    BY <1>1, <2>2, <2>3, RowForm DEF Below, Rank
  <2>5. ASSUME want[t][1] = "products", want[u][1] = "products"
        PROVE  FALSE
    <3>1. call[u].op = "finalize"
      BY <1>1, <2>2, <2>5, SlugHoldsNothing
    <3>2. call[t].op # "finalize"
      BY <2>2, <2>5, <3>1 DEF Shares
    <3>3. PICK v \in D : t \in Blockers(v)
      BY <2>4 DEF Cycle
    <3>4. t \in holders[want[v]] /\ want[v] \in Row
      BY <1>1, <3>3 DEF Blockers, InTheWay
    <3> QED BY <1>1, <2>5, <3>2, <3>4, SlugHoldsNothing
  <2> QED BY <2>3, <2>4, <2>5
<1>3. SUFFICES ASSUME A # {} PROVE FALSE
  OBVIOUS
<1>4. \A t \in A : rank(t) \in Nat
  BY <1>1, RowForm
<1> DEFINE K == {rank(t) : t \in A}
<1>5. K \in SUBSET Nat /\ K # {}
  BY <1>3, <1>4
<1> HIDE DEF K
<1>6. PICK k \in K : \A m \in K : k <= m
  BY <1>5, Least
<1>7. k \in Nat /\ (\E t \in A : rank(t) = k) /\ (\A t \in A : k <= rank(t))
  BY <1>5, <1>6 DEF K
<1> DEFINE B == {t \in A : rank(t) = k}
<1>8. B # {} /\ k \in Nat
  BY <1>4, <1>7
<1>9. ASSUME NEW u \in B
      PROVE  \E t \in B : /\ want[t][2] \in Nat /\ want[u][2] \in Nat
                           /\ want[t][2] < want[u][2]
  <2>1. PICK t \in A : /\ Below(want[t], want[u])
                       /\ ~ (want[t][1] = "products" /\ want[u][1] = "products")
    BY <1>2
  <2>2. k <= rank(t) /\ rank(u) = k /\ rank(t) \in Nat
    BY <1>4, <1>7
  <2>3. /\ want[t][1] = want[u][1] /\ want[t][1] \in ById
        /\ want[t][2] < want[u][2]
    BY <1>8, <2>1, <2>2 DEF Below, Unordered
  <2>4. want[t] \in Row /\ want[u] \in Row
    BY <1>1
  <2> QED BY <2>2, <2>3, <2>4, RowForm
<1> DEFINE N == {want[t][2] : t \in B}
<1>10. N \in SUBSET Nat /\ N # {}
  BY <1>8, <1>9
<1> HIDE DEF N
<1>11. PICK n \in N : \A m \in N : n <= m
  BY <1>10, Least
<1>12. PICK u \in B : want[u][2] = n
  BY <1>11 DEF N
<1>13. PICK t \in B : want[t][2] \in Nat /\ n \in Nat /\ want[t][2] < n
  BY <1>9, <1>12
<1>14. n <= want[t][2]
  BY <1>11, <1>13 DEF N
<1> QED BY <1>13, <1>14

\* Only checkouts have a sequence, and after it the products.
LEMMA SequenceForm ==
  ASSUME NEW c \in Call, NEW k \in DOMAIN Script[c], NEW r \in Script[c][k],
         r[1] = "store_order_sequences"
  PROVE  /\ c.op = "finalize" /\ k = 4
         /\ \A i \in DOMAIN Script[c] : i \in 1..5
         /\ \A q \in Script[c][k] : q = r
<1>1. r[1] = Tables(c.op)[k] /\ k \in DOMAIN Tables(c.op)
  BY ScriptForm, OneOrSorted
<1>2. c.op = "finalize" /\ k = 4
  BY <1>1, CallForm DEF Tables
<1>3. \A i \in DOMAIN Script[c] : i \in 1..5
  BY <1>2, ScriptForm DEF Tables
<1>4. \A q \in Script[c][k] : q = r
  BY OneOrSorted DEF ById, Unordered
<1> QED BY <1>2, <1>3, <1>4

LEMMA SequenceWaits ==
  ASSUME LockInv, NEW s \in Store, NEW t \in holders[<<"store_order_sequences", s>>],
         want[t] # None
  PROVE  /\ want[t][1] = "products"
         /\ \A u \in Blockers(t) :
              /\ call[u].op = "rename"
              /\ want[u] # None => want[u][1] = "storefront_revisions"
<1> DEFINE c == call[t]
           w == want[t]
           r == <<"store_order_sequences", s>>
<1>1. r \in Row
  BY DEF Row, Rows
<1>2. t \in Tx
  BY <1>1 DEF LockInv, Typed
<1>3. c \in Call /\ Ahead(t) # {} /\ w \in Turn(t) /\ w \in Row
  BY <1>2 DEF LockInv, Asked, Typed
<1>4. PICK i \in DOMAIN Script[c] :
        /\ Missing(t) = {q \in Script[c][i] : t \notin holders[q]}
        /\ \A j \in DOMAIN Script[c] :
             j < i => \A q \in Script[c][j] : t \in holders[q]
  BY <1>2, <1>3, Running
<1>5. w \in Script[c][i] /\ t \notin holders[w]
  BY <1>2, <1>3, <1>4, TurnForm
<1>6. PICK k \in DOMAIN Script[c] : r \in Script[c][k]
  BY <1>1 DEF LockInv, Owned
<1>7. c.op = "finalize" /\ k = 4 /\ i \in 1..5 /\ \A q \in Script[c][k] : q = r
  BY <1>3, <1>6, SequenceForm
<1>8. i # 4
  BY <1>5, <1>7
<1>9. ~ (i < 4)
  <2>1. c # None
    BY <1>3, LocksAssumption
  <2> QED BY <1>2, <1>5, <1>6, <1>7, <2>1 DEF LockInv, InOrder
<1>10. w[1] = "products"
  <2>1. i = 5 /\ w[1] = Tables(c.op)[i]
    BY <1>3, <1>5, <1>7, <1>8, <1>9, OneOrSorted
  <2> QED BY <1>7, <2>1 DEF Tables
<1>11. ASSUME NEW u \in Blockers(t)
       PROVE  /\ call[u].op = "rename"
              /\ want[u] # None => want[u][1] = "storefront_revisions"
  <2>1. u \in holders[w] /\ ~ Shares(u, w) /\ u \in Tx
    BY <1>3, <1>7, <1>10, <1>11 DEF Blockers, InTheWay, Shares, LockInv, Typed
  <2>2. call[u] \in Call /\ call[u].op # "finalize"
    BY <1>3, <1>10, <2>1 DEF LockInv, Owned, Typed, Shares
  <2>3. PICK j \in DOMAIN Script[call[u]] : w \in Script[call[u]][j]
    BY <1>3, <2>1 DEF LockInv, Owned
  <2>4. j \in DOMAIN Tables(call[u].op) /\ Tables(call[u].op)[j] = "products"
    BY <1>10, <2>2, <2>3, ScriptForm, OneOrSorted
  <2>5. call[u].op = "rename"
    BY <2>2, <2>4, CallForm DEF Tables
  <2>6. ASSUME want[u] # None
        PROVE  want[u][1] = "storefront_revisions"
    <3>1. want[u] \in Turn(u) /\ Ahead(u) # {}
      BY <2>1, <2>6 DEF LockInv, Asked
    <3>2. PICK m \in DOMAIN Script[call[u]] : want[u] \in Script[call[u]][m]
      BY <2>1, <2>2, <3>1, Running, TurnForm
    <3>3. /\ m \in DOMAIN Tables(call[u].op)
          /\ want[u][1] = Tables(call[u].op)[m]
      BY <2>2, <3>2, ScriptForm, OneOrSorted
    <3>4. want[u][1] \in {"products", "storefront_revisions"}
      BY <2>5, <3>3 DEF Tables
    <3>5. want[u][1] # "products"
      BY <1>3, <2>1, <2>2, <2>6, SlugHoldsNothing
    <3> QED BY <3>4, <3>5
  <2> QED BY <2>5, <2>6
<1> QED BY <1>10, <1>11

-----------------------------------------------------------------------------
(***************************************************************************)
(* Every step keeps the invariant.                                         *)
(***************************************************************************)
LEMMA InitInv == Init => LockInv
<1> SUFFICES ASSUME Init PROVE LockInv
  OBVIOUS
<1> USE LocksAssumption DEF Init
<1>1. Typed
  BY DEF Typed
<1>2. Owned /\ Exclusive
  BY DEF Owned, Exclusive
<1>3. ASSUME NEW t \in Tx PROVE Asked(t) /\ InOrder(t) /\ Sorted(t)
  BY DEF Asked, InOrder, Sorted
<1> QED BY <1>1, <1>2, <1>3 DEF LockInv

\* A transaction of which neither the call nor the locks change.
LEMMA Untouched ==
  ASSUME LockInv, Typed', NEW u \in Tx, call'[u] = call[u],
         \A r \in Row : u \in holders'[r] <=> u \in holders[r],
         want'[u] \in {want[u], None}
  PROVE  Asked(u)' /\ InOrder(u)' /\ Sorted(u)'
<1>1. Asked(u) /\ InOrder(u) /\ Sorted(u)
  BY DEF LockInv
<1>2. CASE call[u] = None
  BY <1>1, <1>2, LocksAssumption DEF Asked, InOrder, Sorted
<1>3. CASE call[u] \in Call
  <2>1. \A i \in DOMAIN Script[call[u]] : Script[call[u]][i] \subseteq Row
    BY <1>3, ScriptForm DEF OneTable
  <2>2. Ahead(u)' = Ahead(u)
    BY <2>1 DEF Ahead
  <2>3. CASE want[u] = None
    BY <1>1, <2>1, <2>3, LocksAssumption DEF Asked, InOrder, Sorted
  <2>4. CASE want[u] # None
    <3>1. PICK i \in DOMAIN Script[call[u]] :
            /\ i = CHOOSE k \in Ahead(u) : \A j \in Ahead(u) : k <= j
            /\ Missing(u) = {r \in Script[call[u]][i] : u \notin holders[r]}
      BY <1>1, <1>3, <2>4, RunningAt DEF Asked
    <3>2. Missing(u)' = {r \in Script[call[u]][i] : u \notin holders'[r]}
      BY <2>2, <3>1 DEF Missing
    <3>3. Missing(u)' = Missing(u)
      BY <2>1, <3>1, <3>2
    <3>4. Turn(u)' = Turn(u)
      BY <3>3 DEF Turn
    <3>5. Asked(u)'
      BY <1>1, <2>2, <3>4 DEF Asked
    <3> QED BY <1>1, <2>1, <3>5 DEF InOrder, Sorted
  <2> QED BY <2>3, <2>4
<1> QED BY <1>2, <1>3 DEF LockInv, Typed

LEMMA BeginKeeps ==
  ASSUME LockInv, NEW t \in Tx, NEW c \in Call, Begin(t, c)
  PROVE  LockInv'
<1> USE DEF Begin
<1>1. Typed'
  BY DEF LockInv, Typed
<1>2. \A r \in Row : t \notin holders[r]
  BY DEF LockInv, Owned
<1>3. \A r \in Row : \A u \in holders[r] : u \in Tx /\ call'[u] = call[u]
  BY <1>2 DEF LockInv, Typed
<1>4. Owned'
  BY <1>3 DEF LockInv, Owned
<1>5. Exclusive'
  BY <1>3 DEF LockInv, Exclusive, Shares
<1>6. want[t] = None
  BY DEF LockInv, Asked
<1>7. Asked(t)' /\ InOrder(t)' /\ Sorted(t)'
  <2>1. call'[t] = c /\ want'[t] = None
    BY <1>6 DEF LockInv, Typed
  <2>2. \A i \in DOMAIN Script[c] : Script[c][i] \subseteq Row
    BY ScriptForm DEF OneTable
  <2> QED BY <1>2, <2>1, <2>2 DEF Asked, InOrder, Sorted
<1>8. ASSUME NEW u \in Tx, u # t PROVE Asked(u)' /\ InOrder(u)' /\ Sorted(u)'
  <2>1. call'[u] = call[u] /\ want'[u] = want[u] /\ holders' = holders
    BY <1>8 DEF LockInv, Typed
  <2> QED BY <1>1, <2>1, Untouched
<1> QED BY <1>1, <1>4, <1>5, <1>7, <1>8 DEF LockInv

LEMMA WaitKeeps ==
  ASSUME LockInv, NEW t \in Tx, call[t] # None, Ahead(t) # {},
         NEW r \in Turn(t), Wait(t, r)
  PROVE  LockInv'
<1> USE DEF Wait
<1>1. want' = [want EXCEPT ![t] = r]
  OBVIOUS
<1>2. call[t] \in Call /\ want \in [Tx -> Row \cup {None}]
  BY DEF LockInv, Typed
<1>3. r \in Row
  BY <1>1, <1>2, Running, TurnForm, ScriptForm DEF OneTable
<1>4. Typed'
  BY <1>1, <1>3 DEF LockInv, Typed
<1>5. Owned' /\ Exclusive'
  BY DEF LockInv, Owned, Exclusive, Shares
<1>6. Asked(t)' /\ InOrder(t)' /\ Sorted(t)'
  <2>1. Ahead(t)' = Ahead(t) /\ Turn(t)' = Turn(t)
    BY DEF Ahead, Turn, Missing
  <2>2. want'[t] = r
    BY <1>1, <1>2
  <2> QED BY <1>1, <2>1, <2>2 DEF Asked, InOrder, Sorted, LockInv
<1>7. ASSUME NEW u \in Tx, u # t PROVE Asked(u)' /\ InOrder(u)' /\ Sorted(u)'
  <2>1. want'[u] = want[u]
    BY <1>1, <1>2, <1>7
  <2> QED BY <1>4, <2>1, Untouched
<1> QED BY <1>4, <1>5, <1>6, <1>7 DEF LockInv

LEMMA GrantKeeps ==
  ASSUME LockInv, NEW t \in Tx, call[t] # None, Ahead(t) # {},
         NEW w \in Turn(t), Grant(t, w)
  PROVE  LockInv'
<1> USE DEF Grant
<1> DEFINE c == call[t]
<1>1. /\ c \in Call /\ c # None /\ Ahead(t) # {} /\ w \in Turn(t) /\ w \in Row
      /\ want \in [Tx -> Row \cup {None}] /\ holders \in [Row -> SUBSET Tx]
  <2>1. c \in Call
    BY DEF LockInv, Typed
  <2>2. w \in Row
    BY <2>1, Running, TurnForm, ScriptForm DEF OneTable
  <2> QED BY <2>1, <2>2 DEF LockInv, Typed
<1>2. Typed'
  BY <1>1 DEF LockInv, Typed
<1>3. /\ holders'[w] = holders[w] \cup {t}
      /\ \A q \in Row : q # w => holders'[q] = holders[q]
  BY <1>1
<1>4. PICK i \in DOMAIN Script[c] :
        /\ Missing(t) = {q \in Script[c][i] : t \notin holders[q]}
        /\ \A j \in DOMAIN Script[c] :
             j < i => \A q \in Script[c][j] : t \in holders[q]
  BY <1>1, Running
<1>5. w \in Script[c][i]
  BY <1>1, <1>4, TurnForm
<1>6. Owned'
  BY <1>1, <1>3, <1>5 DEF LockInv, Owned
<1>7. \A j \in DOMAIN Script[c] : Script[c][j] \subseteq Row
  BY <1>1, ScriptForm DEF OneTable
<1>8. Asked(t)'
  BY <1>1 DEF Asked
<1>9. InOrder(t)'
  <2> SUFFICES ASSUME NEW k \in DOMAIN Script[c], NEW j \in DOMAIN Script[c],
                      NEW r \in Script[c][k], NEW q \in Script[c][j],
                      j < k, t \in holders'[r]
               PROVE  t \in holders'[q]
    BY DEF InOrder
  <2>1. CASE r = w
    <3>1. k = i
      BY <1>1, <1>5, <2>1, OneStatement
    <3> QED BY <1>3, <1>4, <1>7, <3>1
  <2>2. CASE r # w
    <3>1. t \in holders[r]
      BY <1>3, <1>7, <2>2
    <3>2. t \in holders[q]
      BY <1>1, <3>1 DEF LockInv, InOrder
    <3> QED BY <1>3, <1>7, <3>2
  <2> QED BY <2>1, <2>2
<1>10. Sorted(t)'
  <2> SUFFICES ASSUME NEW k \in DOMAIN Script[c],
                      NEW r \in Script[c][k], NEW q \in Script[c][k],
                      r[1] \in ById, q[2] <= r[2], t \in holders'[r]
               PROVE  t \in holders'[q]
    BY DEF Sorted
  <2>1. CASE r = w
    <3>1. k = i
      BY <1>1, <1>5, <2>1, OneStatement
    <3>2. CASE t \in holders[q]
      BY <1>3, <1>7, <3>2
    <3>3. CASE q = w
      BY <1>3, <3>3
    <3>4. CASE t \notin holders[q] /\ q # w
      <4>1. \A m \in Missing(t) : m[1] \in ById
        BY <1>1, <1>4, <2>1, <3>1, OneOrSorted
      <4>2. w[2] <= q[2]
        BY <1>1, <1>4, <3>1, <3>4, <4>1, TurnForm
      <4>3. q[1] = w[1]
        BY <1>1, <2>1, OneOrSorted
      <4>4. q[2] \in Nat /\ w[2] \in Nat
        BY <1>1, <1>7, <2>1, <4>3, RowForm
      <4>5. q \in Row /\ q = <<q[1], q[2]>> /\ w = <<w[1], w[2]>>
        BY <1>1, <1>7, RowForm
      <4>6. q[2] = w[2]
        BY <2>1, <4>2, <4>4
      <4>7. q = w
        BY <4>3, <4>5, <4>6
      <4> QED BY <3>4, <4>7
    <3> QED BY <3>2, <3>3, <3>4
  <2>2. CASE r # w
    <3>1. t \in holders[r]
      BY <1>3, <1>7, <2>2
    <3>2. t \in holders[q]
      BY <1>1, <3>1 DEF LockInv, Sorted
    <3> QED BY <1>3, <1>7, <3>2
  <2> QED BY <2>1, <2>2
<1>11. Exclusive'
  <2>1. \A u \in holders[w] : Shares(t, w) /\ Shares(u, w)
    BY DEF InTheWay
  <2>2. \A u \in Tx, r \in Row : Shares(u, r)' = Shares(u, r)
    BY DEF Shares
  <2> SUFFICES ASSUME NEW r \in Row, NEW u \in holders'[r], NEW v \in holders'[r],
                      u # v
               PROVE  Shares(u, r)' /\ Shares(v, r)'
    BY DEF Exclusive
  <2>3. u \in Tx /\ v \in Tx
    BY <1>2 DEF Typed
  <2>4. CASE u \in holders[r] /\ v \in holders[r]
    BY <2>2, <2>3, <2>4 DEF LockInv, Exclusive
  <2>5. CASE r = w /\ (u = t \/ v = t)
    BY <1>3, <2>1, <2>2, <2>3, <2>5
  <2> QED BY <1>3, <2>4, <2>5
<1>12. ASSUME NEW u \in Tx, u # t PROVE Asked(u)' /\ InOrder(u)' /\ Sorted(u)'
  <2>1. want'[u] = want[u] /\ \A r \in Row : u \in holders'[r] <=> u \in holders[r]
    BY <1>1, <1>3, <1>12
  <2> QED BY <1>2, <2>1, Untouched
<1> QED BY <1>2, <1>6, <1>8, <1>9, <1>10, <1>11, <1>12 DEF LockInv

LEMMA AskKeeps ==
  ASSUME LockInv, NEW t \in Tx, Ask(t)
  PROVE  LockInv'
BY GrantKeeps, WaitKeeps DEF Ask

LEMMA LockKeeps ==
  ASSUME LockInv, NEW t \in Tx, Lock(t)
  PROVE  LockInv'
<1>1. call[t] # None /\ Ahead(t) # {} /\ want[t] \in Turn(t) /\ Grant(t, want[t])
  BY DEF LockInv, Asked, Lock
<1> QED BY <1>1, GrantKeeps

LEMMA EndKeeps ==
  ASSUME LockInv, NEW t \in Tx, End(t)
  PROVE  LockInv'
<1> USE DEF End
<1>1. /\ call \in [Tx -> Call \cup {None}] /\ want \in [Tx -> Row \cup {None}]
      /\ holders \in [Row -> SUBSET Tx]
  BY DEF LockInv, Typed
<1>2. \A r \in Row : holders'[r] = holders[r] \ {t}
  BY DEF Release
<1>3. Typed'
  BY <1>1 DEF Typed, Release
<1>4. \A r \in Row : \A u \in holders'[r] :
        u \in holders[r] /\ u \in Tx /\ call'[u] = call[u]
  BY <1>1, <1>2
<1>5. Owned'
  BY <1>4 DEF LockInv, Owned
<1>6. Exclusive'
  BY <1>4 DEF LockInv, Exclusive, Shares
<1>7. Asked(t)' /\ InOrder(t)' /\ Sorted(t)'
  BY <1>1 DEF Asked, InOrder, Sorted
<1>8. ASSUME NEW u \in Tx, u # t PROVE Asked(u)' /\ InOrder(u)' /\ Sorted(u)'
  <2>1. /\ call'[u] = call[u] /\ want'[u] = want[u]
        /\ \A r \in Row : u \in holders'[r] <=> u \in holders[r]
    BY <1>1, <1>2, <1>8
  <2> QED BY <1>3, <2>1, Untouched
<1> QED BY <1>3, <1>5, <1>6, <1>7, <1>8 DEF LockInv

LEMMA NextKeeps == LockInv /\ [Next]_vars => LockInv'
<1> SUFFICES ASSUME LockInv, [Next]_vars PROVE LockInv'
  OBVIOUS
<1>1. CASE UNCHANGED vars
  <2>1. UNCHANGED <<call, want, holders>>
    BY <1>1 DEF vars
  <2>2. Typed' /\ Owned' /\ Exclusive'
    BY <2>1 DEF LockInv, Typed, Owned, Exclusive, Shares
  <2>3. \A u \in Tx : Asked(u)' /\ InOrder(u)' /\ Sorted(u)'
    BY <2>1, <2>2, Untouched
  <2> QED BY <2>2, <2>3 DEF LockInv
<1>2. CASE Next
  <2>1. PICK t \in Tx : \/ \E c \in Call : Begin(t, c)
                        \/ Continue(t) \/ Lock(t) \/ ReturnEarly(t)
    BY <1>2 DEF Next
  <2>2. CASE \E c \in Call : Begin(t, c)
    BY <2>2, BeginKeeps
  <2>3. CASE Ask(t)
    BY <2>3, AskKeeps
  <2>4. CASE Lock(t)
    BY <2>4, LockKeeps
  <2>5. CASE Commit(t) \/ ReturnEarly(t) \/ DeadlockVictim(t)
    BY <2>5, EndKeeps DEF Commit, ReturnEarly, DeadlockVictim
  <2> QED BY <2>1, <2>2, <2>3, <2>4, <2>5 DEF Continue
<1> QED BY <1>1, <1>2

\* The invariant of the lock order, for every run.
LEMMA LockInvHolds == Spec => []LockInv
BY InitInv, NextKeeps, PTL DEF Spec

-----------------------------------------------------------------------------
(***************************************************************************)
(* The theorems.                                                           *)
(***************************************************************************)
\* Locks belong to open transactions whose calls name the row, only checkouts
\* hold a row together, and a transaction waits only for the next row of the
\* statement that runs.
THEOREM TypeCorrect == Spec => []TypeOK
<1>1. LockInv => TypeOK
  BY DEF LockInv, Typed, Owned, Exclusive, Asked, TypeOK
<1> QED BY <1>1, LockInvHolds, PTL

\* Checkouts, cart edits and transitions lock along one order of all rows, and
\* a new slug waits for its product before it holds a row: no ring of waiting
\* transactions passes through anything but revisions, so every deadlock of
\* these calls consists of writes in the middle of their bumps.
THEOREM OrdersNeverDeadlockCorrect == Spec => []OrdersNeverDeadlock
<1>1. LockInv => OrdersNeverDeadlock
  BY NoOtherCycle DEF OrdersNeverDeadlock
<1> QED BY <1>1, LockInvHolds, PTL

\* Between the number it takes and its end a checkout waits for nothing but a
\* product whose slug is changed, by a write that waits for revisions at most:
\* the checkouts of a store wait on its sequence for work that goes on, and for
\* the bumps of renamed products.
THEOREM SequenceWaitsForSlugsOnlyCorrect == Spec => []SequenceWaitsForSlugsOnly
<1>1. LockInv => SequenceWaitsForSlugsOnly
  BY SequenceWaits DEF SequenceWaitsForSlugsOnly
<1> QED BY <1>1, LockInvHolds, PTL
=============================================================================
