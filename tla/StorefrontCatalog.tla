------------------------- MODULE StorefrontCatalog -------------------------
(***************************************************************************)
(* modules/storefront/catalog_repository.go and catalog/selection.go: what *)
(* each statement of a public read finds in the committed rows d.  One     *)
(* market and one locale.  Filters, sorting and paging of browse pages     *)
(* choose among the rows given here.  Slugs are unique in their table: a   *)
(* Text picks one of the names of its own row.                             *)
(***************************************************************************)
EXTENDS Naturals, FiniteSets

CONSTANTS
  Store,      \* stores.id
  Product,    \* products.id
  Category,   \* categories.id: numbers, in the order of the ids
  Variant,    \* variants.id, created 'active', with one SKU at most
  Listing,    \* seller_listings.id: numbers, in the order of created_at
  Offer,      \* supplier_offers.id
  Location,   \* fulfillment_locations.id
  Snapshot,   \* inventory_snapshots.id
  ProductOf,  \* the product of a variant, the product of a listing
  StoreOf,    \* the store of a listing
  OfferOf,    \* seller_listings.supplier_offer_id, None for own stock
  Owner,      \* supplier_id of an offer; supplier_id or store_id of a location
  VariantOf,  \* the variant whose SKU a snapshot counts
  At,         \* the location of a snapshot
  Text,       \* names, slugs, prices, configurations
  None        \* no row, no page

\* Rows are keyed by numbers where the code orders them.
ASSUME CatalogAssumption ==
  /\ Category \cup Listing \subseteq Nat /\ IsFiniteSet(Listing)
  /\ StoreOf \in [Listing -> Store]
  /\ OfferOf \in [Listing -> Offer \cup {None}]
  /\ VariantOf \in [Snapshot -> Variant]
  /\ At \in [Snapshot -> Location]
  /\ \A x \in Variant \cup Listing : ProductOf[x] \in Product
  /\ Offer \cup Location \subseteq DOMAIN Owner
  /\ None \notin Store \cup Product \cup Category \cup Offer \cup Text

\* store, product, category: the row with its settings or slug, and whether
\* its status is 'active'; words, label: the translations of a product and of
\* a category; link: product_categories; available: is_available of an offer;
\* stock: whether on_hand_qty - reserved_qty is positive.
Database ==
  [store : [Store -> [text : Text, active : BOOLEAN]],
   theme : [Store -> Text],
   product : [Product -> [slug : Text, active : BOOLEAN]],
   words : [Product -> Text],
   variant : [Variant -> {"absent", "bare", "sku"}],
   link : [Product -> SUBSET Category],
   category : [Category -> [slug : Text, active : BOOLEAN,
                            parent : Category \cup {None}]],
   label : [Category -> Text],
   listing : [Listing -> {"absent", "inactive", "active"}],
   price : [Listing -> Text \cup {None}],
   offer : [Offer -> BOOLEAN],
   available : [Offer -> BOOLEAN],
   location : [Location -> BOOLEAN],
   stock : [Snapshot -> {"absent", "none", "some"}]]

-----------------------------------------------------------------------------
(* catalog.CanonicalListingSQL *)

Eligible(d, s) ==
  {l \in Listing : /\ StoreOf[l] = s
                   /\ d.listing[l] = "active"
                   /\ d.price[l] # None
                   /\ d.product[ProductOf[l]].active
                   /\ OfferOf[l] # None => d.offer[OfferOf[l]]}

\* The newest eligible listing of each product, whatever its stock.
CanonicalListings(d, s) ==
  {l \in Eligible(d, s) :
     \A k \in Eligible(d, s) : ProductOf[k] = ProductOf[l] => k <= l}

Listed(d, s) == {ProductOf[l] : l \in Eligible(d, s)}

Canonical(d, s, p) ==
  CHOOSE l \in CanonicalListings(d, s) : ProductOf[l] = p

\* The owner whose locations a listing sells from.
Source(l) == IF OfferOf[l] = None THEN StoreOf[l] ELSE Owner[OfferOf[l]]

InStock(d, l, n) ==
  /\ d.stock[n] = "some"
  /\ d.location[At[n]]
  /\ Owner[At[n]] = Source(l)

SupplierAvailable(d, l) == OfferOf[l] # None => d.available[OfferOf[l]]

-----------------------------------------------------------------------------
(* eligibleListings and the statements built on it *)

SKUs(d, p) == {v \in Variant : ProductOf[v] = p /\ d.variant[v] = "sku"}

Card(d, s, p) ==
  LET l == Canonical(d, s, p) IN
  [slug |-> d.product[p].slug, name |-> d.words[p], price |-> d.price[l],
   inStock |-> /\ SupplierAvailable(d, l)
               /\ \E n \in Snapshot : VariantOf[n] \in SKUs(d, p) /\ InStock(d, l, n)]

Refs(d, p) ==
  {[id |-> c, slug |-> d.category[c].slug, name |-> d.label[c]] :
     c \in {c \in d.link[p] : d.category[c].active}}

Item(d, s, p) ==
  [card |-> Card(d, s, p),
   category |-> {r \in Refs(d, p) : \A q \in Refs(d, p) : r.id <= q.id},
   variants |-> Cardinality({v \in Variant :
                               ProductOf[v] = p /\ d.variant[v] # "absent"})]

\* Only the first statement of a product page compares the slug.
ProductBySlug(d, s, p, slug) ==
  IF p \in Listed(d, s) /\ d.product[p].slug = slug THEN Card(d, s, p) ELSE None

ProductVariants(d, s, p) ==
  IF p \notin Listed(d, s) THEN {}
  ELSE LET l == Canonical(d, s, p) IN
       {[variant |-> v, sku |-> d.variant[v] = "sku",
         inStock |-> /\ SupplierAvailable(d, l)
                     /\ v \in SKUs(d, p)
                     /\ \E n \in Snapshot : VariantOf[n] = v /\ InStock(d, l, n)] :
          v \in {v \in Variant : ProductOf[v] = p /\ d.variant[v] # "absent"}}

-----------------------------------------------------------------------------
(* publicCategoryTree *)

\* WITH RECURSIVE ... UNION: the least set that holds C and what next gives of
\* its members; parents may form a cycle.
Closure(C, next) ==
  {c \in Category : \A S \in SUBSET Category :
     C \subseteq S /\ (\A x \in S : next[x] \subseteq S) => c \in S}

Direct(d, s) ==
  {c \in Category : d.category[c].active /\ \E p \in Listed(d, s) : c \in d.link[p]}

Tree(d, s) ==
  LET above == [c \in Category |-> {d.category[c].parent} \ {None}]
      shown == {c \in Closure(Direct(d, s), above) : d.category[c].active}
      parent(c) == d.category[c].parent
  IN  {[id |-> c, slug |-> d.category[c].slug, name |-> d.label[c],
        parent |-> IF parent(c) # None /\ d.category[parent(c)].active
                   THEN <<parent(c), d.category[parent(c)].slug>> ELSE None,
        products |-> Cardinality({p \in Listed(d, s) : c \in d.link[p]})] : c \in shown}

-----------------------------------------------------------------------------
(* The statements of each page, in the order the code runs them *)

Statements ==
  [bootstrap |-> <<"bootstrap">>,
   categories |-> <<"tree">>,
   browse |-> <<"count", "list">>,
   product |-> <<"product", "categories", "variants">>]

\* slug: the slug in the URL of a product page
Request ==
  [store : Store, page : DOMAIN Statements \ {"product"}, product : {None}, slug : {None}]
    \cup [store : Store, page : {"product"}, product : Product, slug : Text]

Part(d, q, statement) ==
  CASE statement = "bootstrap" -> <<d.store[q.store].text, d.theme[q.store]>>
    [] statement = "tree" -> Tree(d, q.store)
    [] statement = "count" -> Cardinality(Listed(d, q.store))
    [] statement = "list" -> {Item(d, q.store, p) : p \in Listed(d, q.store)}
    [] statement = "product" -> ProductBySlug(d, q.store, q.product, q.slug)
    [] statement = "categories" -> Refs(d, q.product)
    [] statement = "variants" -> ProductVariants(d, q.store, q.product)

\* The page a request gets when all its statements see d; <<>> for a 404.
Page(d, q) ==
  IF q.page = "product" /\ Part(d, q, "product") = None THEN <<>>
  ELSE [i \in DOMAIN Statements[q.page] |-> Part(d, q, Statements[q.page][i])]

\* Everything the public storefront shows of store s.
Output(d, s) == [q \in {q \in Request : q.store = s} |-> Page(d, q)]
=============================================================================
