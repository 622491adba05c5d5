----------------------------- MODULE OrderLocks -----------------------------
(***************************************************************************)
(* The row locks of the transactions of modules/commerce that OrderInventory*)
(* and StorefrontCache take as single steps: checkouts, cart edits, order  *)
(* transitions, stock writes and the renaming of products, one lock request*)
(* after the other.                                                        *)
(*                                                                         *)
(* A call is the list of its locking statements, each with the rows it     *)
(* locks.  A transaction keeps every lock to its end.  What the rows hold  *)
(* is left out: it decides only whether a call returns early, and a call   *)
(* may end after any of its steps.                                         *)
(*                                                                         *)
(* The foreign key of order_items locks a product FOR KEY SHARE: checkouts *)
(* share the row, but not with a new slug, which is a key.                 *)
(***************************************************************************)
EXTENDS Naturals, Sequences, FiniteSets

CONSTANTS
  Session,      \* checkout_sessions
  Cart,         \* carts
  Order,        \* orders
  Snapshot,     \* inventory_snapshots, by the order of their ids
  Reservation,  \* inventory_reservations, by the order of their ids
  Store,        \* store_order_sequences and storefront_revisions, one row each
  Product,      \* products
  Tx,           \* the connections, one transaction each
  CartOf,       \* the cart of a session
  StoreOf,      \* the store of a cart
  Candidates,   \* the snapshots that can serve the lines of a cart
  Ordered,      \* the products of the lines of a cart
  Items,        \* the reservations of the items of an order
  SnapshotOf,   \* the snapshot of a reservation
  Publishers,   \* the stores that publish a snapshot
  Listers,      \* the stores that list a product
  None          \* no transaction, no row, no call

VARIABLES
  call,   \* the call of each connection
  want,   \* the row its statement asks for
  holders \* the transactions that hold a row

vars == <<call, want, holders>>

Rows(table, ids) == {<<table, i>> : i \in ids}

Row ==
  Rows("checkout_sessions", Session) \cup Rows("carts", Cart)
    \cup Rows("orders", Order) \cup Rows("inventory_snapshots", Snapshot)
    \cup Rows("inventory_reservations", Reservation)
    \cup Rows("store_order_sequences", Store) \cup Rows("products", Product)
    \cup Rows("storefront_revisions", Store)

-----------------------------------------------------------------------------
(***************************************************************************)
(* The calls and their locking statements.                                 *)
(***************************************************************************)
Op(name, ids) == [op : {name}, on : ids]

Call ==
  Op("finalize", Session) \cup Op("cart", Cart) \cup Op("transition", Order)
    \cup Op("stock", Snapshot) \cup Op("rename", Product)

ASSUME LocksAssumption ==
  /\ Snapshot \subseteq Nat
  /\ Reservation \subseteq Nat
  /\ CartOf \in [Session -> Cart]
  /\ StoreOf \in [Cart -> Store]
  /\ Candidates \in [Cart -> SUBSET Snapshot]
  /\ Ordered \in [Cart -> SUBSET Product]
  /\ Items \in [Order -> SUBSET Reservation]
  /\ SnapshotOf \in [Reservation -> Snapshot]
  /\ Publishers \in [Snapshot -> SUBSET Store]
  /\ Listers \in [Product -> SUBSET Store]
  /\ \A o, q \in Order : o # q => Items[o] \cap Items[q] = {}  \* UNIQUE
  /\ None \notin Tx \cup Row \cup Call

\* Mutant: the number is allocated before the snapshots are locked.
NumberFirst(s) ==
  LET c == CartOf[s]
  IN  << Rows("checkout_sessions", {s}),
         Rows("carts", {c}),
         Rows("store_order_sequences", {StoreOf[c]}),
         Rows("inventory_snapshots", Candidates[c]),
         Rows("products", Ordered[c]) >>

\* FinalizeCheckout: session, cart, the candidates of all lines together, the
\* sequence, and with the items of the order the products they refer to.
\* HoldReservation locks rows the transaction has already.  A replay, like
\* EvaluateCheckoutSession, returns after the second statement.
FinalizeCheckout(s) ==
  LET c == CartOf[s]
  IN  << Rows("checkout_sessions", {s}),
         Rows("carts", {c}),
         Rows("inventory_snapshots", Candidates[c]),
         Rows("store_order_sequences", {StoreOf[c]}),
         Rows("products", Ordered[c]) >>

\* getCart on the transaction of an edit or of CreateCheckoutSession.
GetCart(c) == << Rows("carts", {c}) >>

\* Confirmation, both cancellations and expiry lock the same rows in the same
\* order: the order, the snapshots found by SELECT DISTINCT, and its
\* reservations.  AdvanceOrderStatus and a transition that is refused return
\* after the first statement.
Transition(o) ==
  << Rows("orders", {o}),
     Rows("inventory_snapshots", {SnapshotOf[r] : r \in Items[o]}),
     Rows("inventory_reservations", Items[o]) >>

\* ReserveInventory and AdjustInventory, with their bump.
WriteStock(n) ==
  << Rows("inventory_snapshots", {n}),
     Rows("storefront_revisions", Publishers[n]) >>

\* UpdateProduct with another slug, and its bump.
RenameProduct(p) ==
  << Rows("products", {p}),
     Rows("storefront_revisions", Listers[p]) >>

Script ==
  [c \in Call |->
     CASE c.op = "finalize" -> FinalizeCheckout(c.on)
       [] c.op = "cart" -> GetCart(c.on)
       [] c.op = "transition" -> Transition(c.on)
       [] c.op = "stock" -> WriteStock(c.on)
       [] c.op = "rename" -> RenameProduct(c.on)]

-----------------------------------------------------------------------------
Init ==
  /\ call = [t \in Tx |-> None]
  /\ want = [t \in Tx |-> None]
  /\ holders = [r \in Row |-> {}]

\* withTx opens a transaction.
Begin(t, c) ==
  /\ call[t] = None
  /\ call' = [call EXCEPT ![t] = c]
  /\ UNCHANGED <<want, holders>>

\* The statements of t that have rows left to lock.  The first of them is the
\* one that runs: those before have returned, a row locked twice does not wait,
\* and a list of no ids is not queried.
Ahead(t) ==
  {i \in DOMAIN Script[call[t]] : \E r \in Script[call[t]][i] : t \notin holders[r]}

Missing(t) ==
  LET i == CHOOSE i \in Ahead(t) : \A j \in Ahead(t) : i <= j
  IN  {r \in Script[call[t]][i] : t \notin holders[r]}

\* ORDER BY id ASC FOR UPDATE
Ascending(rows) == {r \in rows : \A q \in rows : r[2] <= q[2]}

ById == {"inventory_snapshots", "inventory_reservations"}

\* Mutant: the ids are locked in the order they were found.
TurnAsFound(t) == Missing(t)

\* The items of an order come in the order of their listings, and the bump
\* meets its stores in the order of its plan: any row can be the next.
Turn(t) ==
  LET rows == Missing(t)
  IN  IF \A r \in rows : r[1] \in ById THEN Ascending(rows) ELSE rows

\* FOR KEY SHARE; every other lock excludes all others.
Shares(t, r) == call[t].op = "finalize" /\ r[1] = "products"

InTheWay(t, r) == {u \in holders[r] : ~ (Shares(t, r) /\ Shares(u, r))}

\* The holders that t waits for.
Blockers(t) == IF want[t] = None THEN {} ELSE InTheWay(t, want[t])

Grant(t, r) ==
  /\ InTheWay(t, r) = {}
  /\ holders' = [holders EXCEPT ![r] = @ \cup {t}]
  /\ want' = [want EXCEPT ![t] = None]
  /\ UNCHANGED call

Wait(t, r) ==
  /\ InTheWay(t, r) # {}
  /\ want' = [want EXCEPT ![t] = r]
  /\ UNCHANGED <<call, holders>>

\* The running statement comes to its next row.
Ask(t) ==
  /\ call[t] # None /\ want[t] = None
  /\ Ahead(t) # {}
  /\ \E r \in Turn(t) : Grant(t, r) \/ Wait(t, r)

\* The last of those in the way has ended.
Lock(t) == want[t] # None /\ Grant(t, want[t])

\* Mutant: the connection goes back to the pool without ROLLBACK.
ReleaseNothing(t) == holders

Release(t) == [r \in Row |-> holders[r] \ {t}]

End(t) ==
  /\ call' = [call EXCEPT ![t] = None]
  /\ want' = [want EXCEPT ![t] = None]
  /\ holders' = Release(t)

\* Mutant: a checkout that succeeds leaves its transaction open.
CommitNothing(t) ==
  call[t] # None /\ call[t].op # "finalize" /\ Ahead(t) = {} /\ End(t)

Commit(t) == call[t] # None /\ Ahead(t) = {} /\ End(t)

\* An early return, a failed statement, a cancelled context or a connection
\* that is lost: the rows are free again.
ReturnEarly(t) == call[t] # None /\ Ahead(t) # {} /\ End(t)

-----------------------------------------------------------------------------
(***************************************************************************)
(* Waiting.                                                                *)
(***************************************************************************)
\* Transactions that wait for each other: each for another of them, and each
\* with another that waits for it.
Cycle(D) ==
  /\ D # {}
  /\ \A t \in D : /\ \E u \in D : u \in Blockers(t)
                  /\ \E u \in D : t \in Blockers(u)

\* PostgreSQL ends one of them.
DeadlockVictim(t) ==
  /\ \E D \in SUBSET Tx : t \in D /\ Cycle(D)
  /\ End(t)

Continue(t) == Ask(t) \/ Commit(t) \/ DeadlockVictim(t)

Next ==
  \E t \in Tx :
    \/ \E c \in Call : Begin(t, c)
    \/ Continue(t) \/ Lock(t) \/ ReturnEarly(t)

Spec == Init /\ [][Next]_vars

(***************************************************************************)
(* Fairness.  A connection goes on while it can (its loss is ReturnEarly), *)
(* and the deadlock detector runs for every wait.  The waiters of a row    *)
(* queue for its lock, so one that waits while the row is released again   *)
(* and again gets it: strong fairness of Lock.  Only a FOR KEY SHARE does  *)
(* not queue behind a new slug; what becomes of a slug that checkouts pass *)
(* again and again is left open by EveryTransactionEnds.                   *)
(***************************************************************************)
Fairness ==
  \A t \in Tx :
    WF_vars(Continue(t)) /\ SF_vars(Lock(t))

FairSpec == Spec /\ Fairness

-----------------------------------------------------------------------------
(***************************************************************************)
(* Properties.                                                             *)
(***************************************************************************)
\* A transaction holds rows of its call only, and waits for a row of the
\* statement that runs.
TypeOK ==
  /\ call \in [Tx -> Call \cup {None}]
  /\ holders \in [Row -> SUBSET Tx]
  /\ \A r \in Row : \A t \in holders[r] :
       /\ call[t] # None
       /\ \E i \in DOMAIN Script[call[t]] : r \in Script[call[t]][i]
       /\ \A u \in holders[r] : t # u => Shares(t, r) /\ Shares(u, r)
  /\ \A t \in Tx :
       want[t] # None => /\ call[t] # None /\ Ahead(t) # {}
                         /\ want[t] \in Turn(t)

\* Checkouts, cart edits and order transitions never deadlock, not even where
\* the locks of checkouts and of transitions meet on snapshots (the "lock
\* linearity" the documents promise) or those of checkouts and new slugs on
\* products.  Only writes whose bumps meet the revisions of several stores in
\* different orders wait for each other.
OrdersNeverDeadlock ==
  \A D \in SUBSET Tx :
    Cycle(D) => \A t \in D : want[t][1] = "storefront_revisions"

\* The sequence of a store is locked by one checkout at a time, from the number
\* it takes to its end.  In that time it can wait for one thing, the product of
\* an item whose slug is changed, and who changes it waits for revisions at
\* most: the checkouts of a store queue behind the bump of a renamed product,
\* never behind a cart, a snapshot or an order of somebody else.
SequenceWaitsForSlugsOnly ==
  \A s \in Store : \A t \in holders[<<"store_order_sequences", s>>] :
    want[t] # None =>
      /\ want[t][1] = "products"
      /\ \A u \in Blockers(t) :
           /\ call[u].op = "rename"
           /\ want[u] # None => want[u][1] = "storefront_revisions"

\* A new slug waits while a checkout shares its product with others.
PassedBy(t) == \E u \in Blockers(t) : Shares(u, want[t])

\* Every call ends, whatever it waits for and whoever overtakes it, but for a
\* new slug that finds checkouts on its product again and again.
EveryTransactionEnds ==
  \A t \in Tx : []<>(call[t] = None \/ PassedBy(t))
=============================================================================
