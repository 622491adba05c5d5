-------------------------- MODULE StorefrontCache --------------------------
(***************************************************************************)
(* modules/commerce/storefront_revision.go and the operations that call    *)
(* it, and internal/coreapi/storefront.go: the generation of a store's     *)
(* public pages, the transactions that advance it, and the reads that are  *)
(* labelled with it and cached by a consumer downstream.                   *)
(*                                                                         *)
(* A writer runs one transaction: the statement that changes its row, the  *)
(* statement that finds the stores to bump and locks their revisions one   *)
(* by one, COMMIT.  A reader runs the statements of a page one by one.     *)
(* READ COMMITTED: a statement sees what was committed when it began and   *)
(* what its own transaction wrote.                                         *)
(***************************************************************************)
EXTENDS StorefrontCatalog, Sequences

CONSTANTS
  Writer,  \* transactions of sellers, suppliers, moderators and orders
  Reader,  \* requests of a downstream cache, one at a time each
  Traffic, \* what runs together: the operations of writers, the pages read
  Seed     \* catalogues that the operations below have built before

ASSUME CacheAssumption ==
  /\ IsFiniteSet(Writer)
  /\ Seed \subseteq Database
  /\ Traffic \subseteq [writes : SUBSET STRING, pages : SUBSET DOMAIN Statements]

VARIABLES
  db,       \* the committed rows
  revision, \* storefront_revisions.revision, a missing row being 1
  traffic,  \* the traffic of this behaviour
  phase,    \* where a writer is in its transaction
  write,    \* the row a writer changes and the selector of its bump
  todo,     \* the stores its bump found
  held,     \* the revisions it has locked
  step,     \* where a reader is in its request
  request,  \* the page it reads
  label,    \* the generation it read
  parts,    \* what its statements returned; all of them are a cache entry
  unseen    \* observer: the output changed since the last bump

writing == <<phase, write, todo, held>>
reading == <<step, request, label, parts>>
vars == <<db, revision, traffic, writing, reading, unseen>>

NoWrite == [table |-> None, key |-> None, value |-> None, old |-> {},
            rule |-> "none", id |-> None]

NoRequest == [store |-> None, page |-> "bootstrap", product |-> None, slug |-> None]

Init ==
  /\ db \in Seed
  /\ revision = [s \in Store |-> 1]
  /\ traffic \in Traffic
  /\ phase = [w \in Writer |-> "new"]
  /\ write = [w \in Writer |-> NoWrite]
  /\ todo = [w \in Writer |-> {}]
  /\ held = [w \in Writer |-> {}]
  /\ step = [r \in Reader |-> "idle"]
  /\ request = [r \in Reader |-> NoRequest]
  /\ label = [r \in Reader |-> 0]
  /\ parts = [r \in Reader |-> <<>>]
  /\ unseen = [s \in Store |-> FALSE]

-----------------------------------------------------------------------------
(* The selectors, and the stores a write has to bump *)

Stores(d, L) == {StoreOf[l] : l \in {l \in L : d.listing[l] # "absent"}}

ByProduct(d, p) == Stores(d, {l \in Listing : ProductOf[l] = p})

BySupplierOffer(d, o) == Stores(d, {l \in Listing : OfferOf[l] = o})

\* The stores that sell the product of a snapshot from the owner of its stock.
ByInventorySnapshot(d, n) ==
  Stores(d, {l \in Listing : /\ ProductOf[l] = ProductOf[VariantOf[n]]
                             /\ Source(l) = Owner[At[n]]})

ByFulfillmentLocation(d, f) ==
  UNION {ByInventorySnapshot(d, n) :
           n \in {n \in Snapshot : At[n] = f /\ d.stock[n] # "absent"}}

\* Mutant: the category itself.
SubtreeRoot(d, c) == {c}

Subtree(d, c) ==
  LET below == [x \in Category |-> {y \in Category : d.category[y].parent = x}]
  IN  Closure({c}, below)

ByCategorySubtree(d, c) ==
  UNION {ByProduct(d, p) : p \in {p \in Product : d.link[p] \cap Subtree(d, c) # {}}}

Selected(d, t) ==
  CASE t.rule = "none" -> {}
    [] t.rule = "store" -> {t.id}
    [] t.rule = "listing" -> Stores(d, {t.id})
    [] t.rule = "product" -> ByProduct(d, t.id)
    [] t.rule = "offer" -> BySupplierOffer(d, t.id)
    [] t.rule = "variant" -> ByProduct(d, ProductOf[t.id])
    [] t.rule = "sku" -> ByProduct(d, ProductOf[t.id])
    [] t.rule = "snapshot" -> ByInventorySnapshot(d, t.id)
    [] t.rule = "location" -> ByFulfillmentLocation(d, t.id)
    [] t.rule = "category" -> ByCategorySubtree(d, t.id)

\* The rows with the write t.  The categories of a product are replaced one by
\* one: those its DELETE did not see stay.
Apply(d, t) ==
  IF t.table = "link" THEN [d EXCEPT !.link[t.key] = (@ \ t.old) \cup t.value]
  ELSE [d EXCEPT ![t.table][t.key] = t.value]

-----------------------------------------------------------------------------
(* Rows and locks *)

Open == {w \in Writer : phase[w] \in {"written", "bumping"}}

Rows(t) ==
  IF t.table = "link" THEN {<<"link", t.key, c>> : c \in t.old \cup t.value}
  ELSE {<<t.table, t.key>>}

\* A new slug locks the key of its row against new references ...
Keys(t) ==
  IF t.table \in {"product", "category"} /\ t.value.slug # db[t.table][t.key].slug
  THEN Rows(t) ELSE {}

\* ... and a foreign key locks the row it refers to against a new slug.
Refers(t) ==
  CASE t.table = "listing" /\ db.listing[t.key] = "absent" -> {<<"product", ProductOf[t.key]>>}
    [] t.table = "variant" /\ db.variant[t.key] = "absent" -> {<<"product", ProductOf[t.key]>>}
    [] t.table = "link" /\ t.value # {} ->
         {<<"product", t.key>>} \cup {<<"category", c>> : c \in t.value}
    [] t.table = "category" /\ t.value.parent \notin {None, db.category[t.key].parent} ->
         {<<"category", t.value.parent>>}
    [] OTHER -> {}

Clash(t, u) ==
  \/ Rows(t) \cap Rows(u) # {}
  \/ Keys(t) \cap Refers(u) # {}
  \/ Refers(t) \cap Keys(u) # {}

Free(w, t) == \A v \in Open \ {w} : ~Clash(t, write[v])

\* The first statement of a transaction, once no other holds its rows.
Change(w, table, key, value, rule, id) ==
  LET t == [table |-> table, key |-> key, value |-> value, old |-> {},
            rule |-> rule, id |-> id] IN
  /\ phase[w] = "new"
  /\ Free(w, t)
  /\ phase' = [phase EXCEPT ![w] = "written"]
  /\ write' = [write EXCEPT ![w] = t]
  /\ UNCHANGED <<db, revision, traffic, todo, held, reading, unseen>>

-----------------------------------------------------------------------------
(* The operations that change what a storefront shows.  The statement of    *)
(* updateStorefrontStatus sets the status and leaves the rest of the row.   *)

UpdateStoreStatus(w) ==
  \E s \in Store, active \in BOOLEAN :
    Change(w, "store", s, [db.store[s] EXCEPT !.active = active], "store", s)

UpdateStoreProfile(w) ==
  \E s \in Store, text \in Text, active \in BOOLEAN :
    Change(w, "store", s, [text |-> text, active |-> active], "store", s)

PublishTheme(w) ==
  \E s \in Store, text \in Text : Change(w, "theme", s, text, "store", s)

UpdateProductStatus(w) ==
  \E p \in Product, active \in BOOLEAN :
    Change(w, "product", p, [db.product[p] EXCEPT !.active = active], "product", p)

UpdateProduct(w) ==
  \E p \in Product, slug \in Text, active \in BOOLEAN :
    Change(w, "product", p, [slug |-> slug, active |-> active], "product", p)

UpsertProductTranslation(w) ==
  \E p \in Product, text \in Text : Change(w, "words", p, text, "product", p)

CreateVariant(w) ==
  \E v \in Variant :
    /\ db.variant[v] = "absent"
    /\ Change(w, "variant", v, "bare", "product", ProductOf[v])

CreateSKU(w) ==
  \E v \in Variant :
    /\ db.variant[v] = "bare"
    /\ Change(w, "variant", v, "sku", "variant", v)

UpdateCategoryStatus(w) ==
  \E c \in Category, active \in BOOLEAN :
    Change(w, "category", c, [db.category[c] EXCEPT !.active = active], "category", c)

\* The new parent may be any category, also one below c.
UpdateCategory(w) ==
  \E c \in Category, slug \in Text, active \in BOOLEAN, parent \in Category \cup {None} :
    Change(w, "category", c, [slug |-> slug, active |-> active, parent |-> parent],
           "category", c)

UpsertCategoryTranslation(w) ==
  \E c \in Category, text \in Text : Change(w, "label", c, text, "category", c)

\* DELETE sees the links of now and waits for those that others hold ...
SetProductCategories(w) ==
  \E p \in Product, C \in SUBSET Category :
    /\ phase[w] = "new"
    /\ phase' = [phase EXCEPT ![w] = "waiting"]
    /\ write' = [write EXCEPT ![w] =
         [table |-> "link", key |-> p, value |-> C, old |-> db.link[p],
          rule |-> "product", id |-> p]]
    /\ UNCHANGED <<db, revision, traffic, todo, held, reading, unseen>>

\* ... and the new links follow.
ReplaceLinks(w) ==
  /\ phase[w] = "waiting"
  /\ Free(w, write[w])
  /\ phase' = [phase EXCEPT ![w] = "written"]
  /\ UNCHANGED <<db, revision, traffic, write, todo, held, reading, unseen>>

\* A listing is newer than those it can see.
CreateSellerListing(w) ==
  \E l \in Listing, status \in {"inactive", "active"} :
    /\ db.listing[l] = "absent"
    /\ \A k \in Listing : db.listing[k] # "absent" => k < l
    /\ Change(w, "listing", l, status, "store", StoreOf[l])

UpdateSellerListingStatus(w) ==
  \E l \in Listing, status \in {"inactive", "active"} :
    /\ db.listing[l] # "absent"
    /\ Change(w, "listing", l, status, "listing", l)

SetSellerListingPrice(w) ==
  \E l \in Listing, price \in Text :
    /\ db.listing[l] # "absent"
    /\ Change(w, "price", l, price, "listing", l)

UpdateSupplierOfferStatus(w) ==
  \E o \in Offer, active \in BOOLEAN : Change(w, "offer", o, active, "offer", o)

SetSupplierOfferAvailability(w) ==
  \E o \in Offer, yes \in BOOLEAN : Change(w, "available", o, yes, "offer", o)

UpdateFulfillmentLocationStatus(w) ==
  \E f \in Location, active \in BOOLEAN : Change(w, "location", f, active, "location", f)

CreateInventorySnapshot(w) ==
  \E n \in Snapshot, level \in {"none", "some"} :
    /\ db.stock[n] = "absent"
    /\ db.variant[VariantOf[n]] = "sku"
    /\ Change(w, "stock", n, level, "sku", VariantOf[n])

\* The sum may be positive before and after.
AdjustInventory(w) ==
  \E n \in Snapshot, level \in {"none", "some"} :
    /\ db.stock[n] # "absent"
    /\ Change(w, "stock", n, level, "snapshot", n)

ReserveInventory(w) ==
  \E n \in Snapshot, level \in {"none", "some"} :
    /\ db.stock[n] = "some"
    /\ Change(w, "stock", n, level, "snapshot", n)

\* A checkout takes stock and bumps nothing ...
HoldReservation(w) ==
  \E n \in Snapshot, level \in {"none", "some"} :
    /\ db.stock[n] = "some"
    /\ Change(w, "stock", n, level, "none", None)

\* ... nor does a cancelled or expired order that gives it back.
ReturnStock(w) ==
  \E n \in Snapshot :
    /\ db.stock[n] # "absent"
    /\ Change(w, "stock", n, "some", "none", None)

Operations(w) ==
  \/ "store" \in traffic.writes /\ (UpdateStoreStatus(w) \/ UpdateStoreProfile(w) \/ PublishTheme(w))
  \/ "product" \in traffic.writes
       /\ (UpdateProductStatus(w) \/ UpdateProduct(w) \/ UpsertProductTranslation(w))
  \/ "variant" \in traffic.writes /\ (CreateVariant(w) \/ CreateSKU(w))
  \/ "category" \in traffic.writes
       /\ (UpdateCategoryStatus(w) \/ UpdateCategory(w) \/ UpsertCategoryTranslation(w))
  \/ "link" \in traffic.writes /\ SetProductCategories(w)
  \/ "listing" \in traffic.writes
       /\ (CreateSellerListing(w) \/ UpdateSellerListingStatus(w) \/ SetSellerListingPrice(w))
  \/ "supplier" \in traffic.writes
       /\ (\/ UpdateSupplierOfferStatus(w)
           \/ SetSupplierOfferAvailability(w)
           \/ UpdateFulfillmentLocationStatus(w))
  \/ "stock" \in traffic.writes
       /\ (CreateInventorySnapshot(w) \/ AdjustInventory(w) \/ ReserveInventory(w))
  \/ "order" \in traffic.writes /\ (HoldReservation(w) \/ ReturnStock(w))

-----------------------------------------------------------------------------
(* The bump and the end of a transaction *)

\* The selector runs on committed rows and the transaction's own.
BumpStorefrontRevisions(w) ==
  /\ phase[w] = "written"
  /\ phase' = [phase EXCEPT ![w] = "bumping"]
  /\ todo' = [todo EXCEPT ![w] = Selected(Apply(db, write[w]), write[w])]
  /\ UNCHANGED <<db, revision, traffic, write, held, reading, unseen>>

\* Mutant: a revision is taken that another transaction has locked.
LockAnyRevision(w) ==
  \E s \in todo[w] \ held[w] :
    /\ held' = [held EXCEPT ![w] = @ \cup {s}]
    /\ UNCHANGED <<db, revision, traffic, phase, write, todo, reading, unseen>>

\* ON CONFLICT DO UPDATE locks the revision; the order is the plan's.
LockRevision(w) ==
  \E s \in todo[w] \ held[w] :
    /\ \A v \in Writer : s \notin held[v]
    /\ held' = [held EXCEPT ![w] = @ \cup {s}]
    /\ UNCHANGED <<db, revision, traffic, phase, write, todo, reading, unseen>>

End(w) ==
  /\ phase' = [phase EXCEPT ![w] = "done"]
  /\ write' = [write EXCEPT ![w] = NoWrite]
  /\ todo' = [todo EXCEPT ![w] = {}]
  /\ held' = [held EXCEPT ![w] = {}]

\* Mutant: every bump writes the generation of a first bump.
BumpedToTwo(w) == [s \in Store |-> IF s \in held[w] THEN 2 ELSE revision[s]]

Bumped(w) == [s \in Store |-> IF s \in held[w] THEN revision[s] + 1 ELSE revision[s]]

Commit(w) ==
  /\ phase[w] = "bumping"
  /\ held[w] = todo[w]
  /\ db' = Apply(db, write[w])
  /\ revision' = Bumped(w)
  /\ unseen' = [s \in Store |-> /\ s \notin held[w]
                                /\ unseen[s] \/ Output(db', s) # Output(db, s)]
  /\ End(w)
  /\ UNCHANGED <<traffic, reading>>

\* An error, a lost connection, or the victim of a deadlock.
Abort(w) ==
  /\ phase[w] \in {"waiting", "written", "bumping"}
  /\ End(w)
  /\ UNCHANGED <<db, revision, traffic, reading, unseen>>

-----------------------------------------------------------------------------
(* Public reads *)

\* scopeFor resolves the host of an active store.  A product page is asked for
\* by the slug of a link.
Resolve(r) ==
  \E q \in Request :
    /\ step[r] \in {"idle", "cached"}
    /\ db.store[q.store].active
    /\ q.page \in traffic.pages
    /\ q.page = "product" => q.slug = db.product[q.product].slug
    /\ step' = [step EXCEPT ![r] = "label"]
    /\ request' = [request EXCEPT ![r] = q]
    /\ parts' = [parts EXCEPT ![r] = <<>>]
    /\ label' = [label EXCEPT ![r] = 0]
    /\ UNCHANGED <<db, revision, traffic, writing, unseen>>

\* RevisionFor comes before the payload.
ReadLabel(r) ==
  /\ step[r] = "label"
  /\ label' = [label EXCEPT ![r] = revision[request[r].store]]
  /\ step' = [step EXCEPT ![r] = "read"]
  /\ UNCHANGED <<db, revision, traffic, writing, request, parts, unseen>>

\* The next statement of the page.  The last one completes the entry; a page
\* that is not found is an error and is not labelled.
ReadPart(r) ==
  LET q == request[r]
      statements == Statements[q.page]
      found == Part(db, q, statements[Len(parts[r]) + 1])
      read == Append(parts[r], found)
  IN
  /\ step[r] = "read"
  /\ step' = [step EXCEPT ![r] = IF found = None THEN "idle"
                                 ELSE IF Len(read) = Len(statements) THEN "cached"
                                 ELSE "read"]
  /\ parts' = [parts EXCEPT ![r] = IF found = None THEN <<>> ELSE read]
  /\ label' = [label EXCEPT ![r] = IF found = None THEN 0 ELSE @]
  /\ request' = [request EXCEPT ![r] = IF found = None THEN NoRequest ELSE @]
  /\ UNCHANGED <<db, revision, traffic, writing, unseen>>

Next ==
  \/ \E w \in Writer :
       \/ Operations(w)
       \/ ReplaceLinks(w)
       \/ BumpStorefrontRevisions(w)
       \/ LockRevision(w)
       \/ Commit(w)
       \/ Abort(w)
  \/ \E r \in Reader : Resolve(r) \/ ReadLabel(r) \/ ReadPart(r)

Spec == Init /\ [][Next]_vars

-----------------------------------------------------------------------------
TypeOK ==
  /\ db \in Database
  /\ \A s \in Store : revision[s] \in 1..(1 + Cardinality(Writer))
  /\ phase \in [Writer -> {"new", "waiting", "written", "bumping", "done"}]
  /\ \A w \in Writer : held[w] \subseteq todo[w] /\ todo[w] \subseteq Store
  /\ \A v, w \in Writer : v # w => held[v] \cap held[w] = {}
  /\ step \in [Reader -> {"idle", "label", "read", "cached"}]
  /\ unseen \in [Store -> BOOLEAN]

\* A cache entry whose label is the store's revision, and whose store resolves.
Served(r) ==
  LET s == request[r].store IN
  step[r] = "cached" /\ label[r] = revision[s] /\ db.store[s].active

\* storefrontRead: an entry a downstream cache still serves shows the rows of
\* now, in all its parts, unless a write changed the output of its store and
\* did not bump it.
ServedIsCurrent ==
  \A r \in Reader :
    Served(r) /\ ~unseen[request[r].store] => parts[r] = Page(db, request[r])

\* bumpStorefrontRevisions: the selectors find every store whose pages a write
\* changes.  A store is missed only when it came into the reach of the write
\* after the bump statement looked, and by order stock movements.
OnlyLateStoresAreMissed ==
  [][\A w \in Writer, s \in Store :
       phase[w] = "bumping" /\ phase'[w] = "done" /\ Output(db', s) # Output(db, s) =>
         \/ revision'[s] = revision[s] + 1
         \/ write[w].rule = "none"
         \/ s \in Selected(db', write[w]) \ held[w]]_vars

\* storefront_revision.go:17 "a committed change is never visible under its old
\* generation": what a cache serves is what the store shows.
CacheFresh ==
  \A r \in Reader : Served(r) => parts[r] = Page(db, request[r])
=============================================================================
