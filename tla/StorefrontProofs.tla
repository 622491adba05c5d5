-------------------------- MODULE StorefrontProofs --------------------------
(***************************************************************************)
(* Two halves of one promise, for any number of writers, readers, stores   *)
(* and rows.  The selectors of a write find every store whose pages it     *)
(* changes: a page is a function of rows that lead back to its store by    *)
(* the paths the selectors follow.  And a page read in several statements, *)
(* between other transactions' commits, is either labelled with a          *)
(* generation that has passed or made of parts that still hold.            *)
(***************************************************************************)
EXTENDS StorefrontCache, FiniteSetTheorems, WellFoundedInduction, TLAPS

-----------------------------------------------------------------------------
(* Facts about requests and pages *)

LEMMA RequestFacts ==
  ASSUME NEW q \in Request
  PROVE  q.store \in Store /\ q.page \in {"bootstrap", "categories", "browse", "product"}
  BY DEF Request, Statements

LEMMA StatementFacts ==
  ASSUME NEW page \in {"bootstrap", "categories", "browse", "product"}
  PROVE  /\ Len(Statements[page]) \in Nat \ {0}
         /\ DOMAIN Statements[page] = 1..Len(Statements[page])
         /\ page = "product" => Statements[page][1] = "product"
  <1>1. CASE page = "bootstrap"
    BY <1>1 DEF Statements
  <1>2. CASE page = "categories"
    BY <1>2 DEF Statements
  <1>3. CASE page = "browse"
    BY <1>3 DEF Statements
  <1>4. CASE page = "product"
    BY <1>4 DEF Statements
  <1>5. QED
    BY <1>1, <1>2, <1>3, <1>4

\* Pages that are found and equal are equal in every part.
LEMMA SamePage ==
  ASSUME NEW d, NEW e, NEW q \in Request,
         Page(d, q) = Page(e, q),
         q.page = "product" => Part(d, q, "product") # None
  PROVE  \A i \in DOMAIN Statements[q.page] :
           Part(d, q, Statements[q.page][i]) = Part(e, q, Statements[q.page][i])
  <1> DEFINE D == DOMAIN Statements[q.page]
             P(b) == [i \in D |-> Part(b, q, Statements[q.page][i])]
  <1>1. 1 \in D
    BY RequestFacts, StatementFacts
  <1>2. Page(d, q) = P(d)
    BY DEF Page
  <1>3. Page(e, q) = P(e)
    <2>1. DOMAIN Page(e, q) # {}
      <3>1. DOMAIN P(d) = D
        OBVIOUS
      <3>2. QED
        BY <1>1, <1>2, <3>1
    <2>2. DOMAIN <<>> = {}
      OBVIOUS
    <2>3. Page(e, q) # <<>>
      BY <2>1, <2>2
    <2>4. QED
      BY <2>3 DEF Page
  <1>4. P(d) = P(e)
    BY <1>2, <1>3
  <1>5. \A i \in D : P(d)[i] = P(e)[i]
    BY <1>4
  <1>6. QED
    BY <1>5

-----------------------------------------------------------------------------
(***************************************************************************)
(* What a write changes.  A page of a store is a function of the listings  *)
(* that are eligible, of what is known of their products and of the        *)
(* categories; SameProduct says what has to stay as it was so that the     *)
(* pages do.                                                               *)
(***************************************************************************)

LEMMA LeastExists ==
  ASSUME NEW S \in SUBSET Nat, S # {}
  PROVE  \E x \in S : \A y \in S : x <= y
  <1> DEFINE less == OpToRel(<, Nat)
  <1>1. IsWellFoundedOn(less, Nat)
    BY NatLessThanWellFounded, Zenon
  <1>2. \A x, y \in Nat : x < y => <<x, y>> \in less
    BY DEF OpToRel
  <1> HIDE DEF less
  <1>3. PICK x \in S : \A y \in S : <<y, x>> \notin less
    BY <1>1, WFMin
  <1>4. \A y \in S : x \in Nat /\ y \in Nat /\ ~(y < x)
    BY <1>2, <1>3
  <1>5. QED
    BY <1>3, <1>4

\* A finite set of numbers has a greatest one: above it there are fewest.
LEMMA GreatestExists ==
  ASSUME NEW S \in SUBSET Nat, IsFiniteSet(S), S # {}
  PROVE  \E x \in S : \A y \in S : y <= x
  <1> DEFINE above(x) == {y \in S : y > x}
             T == {Cardinality(above(x)) : x \in S}
  <1>1. \A x \in S : IsFiniteSet(above(x)) /\ Cardinality(above(x)) \in Nat
    BY FS_Subset, FS_CardinalityType
  <1>2. T \in SUBSET Nat /\ T # {}
    BY <1>1
  <1>3. PICK n \in T : \A m \in T : n <= m
    BY <1>2, LeastExists
  <1>4. PICK x \in S : n = Cardinality(above(x))
    BY <1>3
  <1>5. ASSUME NEW y \in S, y > x
        PROVE  FALSE
    <2>1. x \in Nat /\ y \in Nat /\ \A z \in S : z \in Nat
      OBVIOUS
    <2>2. above(y) \subseteq above(x) /\ y \in above(x) /\ y \notin above(y)
      <3>1. \A z \in S : z > y => z > x
        BY <1>5, <2>1
      <3>2. ~(y > y)
        BY <2>1
      <3>3. QED
        BY <1>5, <3>1, <3>2
    <2>3. Cardinality(above(y)) <= Cardinality(above(x))
          /\ Cardinality(above(y)) # Cardinality(above(x))
      BY <1>1, <2>2, FS_Subset
    <2>4. n <= Cardinality(above(y))
      BY <1>3, <1>5
    <2>5. QED
      BY <1>1, <1>4, <1>5, <2>3, <2>4
  <1>6. QED
    BY <1>5

\* catalog.CanonicalListingSQL finds one listing for every listed product.
LEMMA CanonicalFacts ==
  ASSUME NEW d, NEW s, NEW p \in Listed(d, s)
  PROVE  Canonical(d, s, p) \in Eligible(d, s) /\ ProductOf[Canonical(d, s, p)] = p
  <1> DEFINE E == {l \in Eligible(d, s) : ProductOf[l] = p}
  <1>1. E # {} /\ E \subseteq Listing
    BY DEF Listed, Eligible
  <1>2. E \in SUBSET Nat /\ IsFiniteSet(E)
    BY <1>1, FS_Subset, CatalogAssumption
  <1>3. \E l \in E : \A k \in E : k <= l
    BY <1>1, <1>2, GreatestExists
  <1>4. \E l \in CanonicalListings(d, s) : ProductOf[l] = p
    BY <1>3 DEF CanonicalListings
  <1>5. Canonical(d, s, p) \in CanonicalListings(d, s) /\ ProductOf[Canonical(d, s, p)] = p
    BY <1>4 DEF Canonical
  <1>6. QED
    BY <1>5 DEF CanonicalListings

\* What d and e agree on about product p as store s sells it.
SameProduct(d, e, s, p) ==
  /\ e.product[p].slug = d.product[p].slug
  /\ e.words[p] = d.words[p]
  /\ e.link[p] = d.link[p]
  /\ \A v \in Variant : ProductOf[v] = p => e.variant[v] = d.variant[v]
  /\ \A l \in Eligible(d, s) : ProductOf[l] = p =>
       /\ e.price[l] = d.price[l]
       /\ SupplierAvailable(e, l) <=> SupplierAvailable(d, l)
       /\ \A n \in Snapshot :
            ProductOf[VariantOf[n]] = p => (InStock(e, l, n) <=> InStock(d, l, n))

SameShop(d, e, s) ==
  /\ Eligible(e, s) = Eligible(d, s)
  /\ \A p \in Listed(d, s) : SameProduct(d, e, s, p)

LEMMA SameListed ==
  ASSUME NEW d, NEW e, NEW s, SameShop(d, e, s)
  PROVE  /\ Listed(e, s) = Listed(d, s)
         /\ CanonicalListings(e, s) = CanonicalListings(d, s)
         /\ \A p : Canonical(e, s, p) = Canonical(d, s, p)
  <1>1. Eligible(e, s) = Eligible(d, s)
    BY DEF SameShop
  <1>2. CanonicalListings(e, s) = CanonicalListings(d, s)
    BY <1>1 DEF CanonicalListings
  <1>3. QED
    BY <1>1, <1>2 DEF Listed, Canonical

LEMMA SameCard ==
  ASSUME NEW d, NEW e, NEW s, SameShop(d, e, s), NEW p \in Listed(d, s)
  PROVE  /\ Card(e, s, p) = Card(d, s, p)
         /\ ProductVariants(e, s, p) = ProductVariants(d, s, p)
         /\ \A v \in Variant : ProductOf[v] = p => e.variant[v] = d.variant[v]
  <1> DEFINE l == Canonical(d, s, p)
  <1>1. SameProduct(d, e, s, p)
    BY DEF SameShop
  <1>2. l \in Eligible(d, s) /\ ProductOf[l] = p
    BY CanonicalFacts
  <1>3. p \in Listed(e, s) /\ Canonical(e, s, p) = l
    BY SameListed
  <1> HIDE DEF l
  <1>4. /\ e.price[l] = d.price[l]
        /\ SupplierAvailable(e, l) <=> SupplierAvailable(d, l)
        /\ \A n \in Snapshot :
             ProductOf[VariantOf[n]] = p => (InStock(e, l, n) <=> InStock(d, l, n))
    BY <1>1, <1>2 DEF SameProduct
  <1>5. SKUs(e, p) = SKUs(d, p) /\ \A v \in SKUs(d, p) : v \in Variant /\ ProductOf[v] = p
    BY <1>1 DEF SameProduct, SKUs
  <1>6. ASSUME NEW V \in SUBSET {v \in Variant : ProductOf[v] = p}
        PROVE  (\E n \in Snapshot : VariantOf[n] \in V /\ InStock(e, l, n))
                 <=> (\E n \in Snapshot : VariantOf[n] \in V /\ InStock(d, l, n))
    BY <1>4
  <1>7. Card(e, s, p) = Card(d, s, p)
    <2>1. (/\ SupplierAvailable(e, l)
           /\ \E n \in Snapshot : VariantOf[n] \in SKUs(e, p) /\ InStock(e, l, n))
          = (/\ SupplierAvailable(d, l)
             /\ \E n \in Snapshot : VariantOf[n] \in SKUs(d, p) /\ InStock(d, l, n))
      BY <1>4, <1>5, <1>6
    <2>2. QED
      BY <1>1, <1>3, <1>4, <2>1 DEF Card, SameProduct, l
  <1>8. ProductVariants(e, s, p) = ProductVariants(d, s, p)
    <2> DEFINE shown(b, v) ==
                 [variant |-> v, sku |-> b.variant[v] = "sku",
                  inStock |-> /\ SupplierAvailable(b, l)
                              /\ v \in SKUs(b, p)
                              /\ \E n \in Snapshot : VariantOf[n] = v /\ InStock(b, l, n)]
               vs(b) == {v \in Variant : ProductOf[v] = p /\ b.variant[v] # "absent"}
    <2>1. vs(e) = vs(d)
      BY <1>1 DEF SameProduct
    <2>2. ASSUME NEW v \in vs(d)
          PROVE  shown(e, v) = shown(d, v)
      <3>1. (e.variant[v] = "sku") = (d.variant[v] = "sku")
        BY <1>1 DEF SameProduct
      <3>2. (\E n \in Snapshot : VariantOf[n] = v /\ InStock(e, l, n))
              <=> (\E n \in Snapshot : VariantOf[n] = v /\ InStock(d, l, n))
        BY <1>4
      <3>3. (/\ SupplierAvailable(e, l)
             /\ v \in SKUs(e, p)
             /\ \E n \in Snapshot : VariantOf[n] = v /\ InStock(e, l, n))
            = (/\ SupplierAvailable(d, l)
               /\ v \in SKUs(d, p)
               /\ \E n \in Snapshot : VariantOf[n] = v /\ InStock(d, l, n))
        BY <1>4, <1>5, <3>2
      <3>4. QED
        BY <3>1, <3>3
    <2>3. ProductVariants(e, s, p) = {shown(e, v) : v \in vs(e)}
      BY <1>3 DEF ProductVariants, l
    <2>4. ProductVariants(d, s, p) = {shown(d, v) : v \in vs(d)}
      BY DEF ProductVariants, l
    <2> HIDE DEF shown, vs
    <2>5. QED
      BY <2>1, <2>2, <2>3, <2>4
  <1>9. QED
    BY <1>1, <1>7, <1>8 DEF SameProduct

\* The statements of a page, by what they depend on.
LEMMA StatementKinds ==
  /\ \A page \in {"bootstrap", "categories", "browse"} :
       /\ page # "product"
       /\ \A i \in DOMAIN Statements[page] :
            Statements[page][i] \in {"bootstrap", "tree", "count", "list"}
  /\ \A i \in DOMAIN Statements["product"] :
       Statements["product"][i] \in {"product", "categories", "variants"}
  BY DEF Statements

\* A store whose listed products, categories and settings stay shows what it did.
LEMMA SameOutput ==
  ASSUME NEW d, NEW e, NEW s \in Store, SameShop(d, e, s),
         e.store[s].text = d.store[s].text, e.theme[s] = d.theme[s],
         \A p \in Listed(d, s) : Refs(e, p) = Refs(d, p),
         Tree(e, s) = Tree(d, s)
  PROVE  Output(e, s) = Output(d, s)
  <1>1. Listed(e, s) = Listed(d, s)
    BY SameListed
  <1>2. {Item(e, s, p) : p \in Listed(e, s)} = {Item(d, s, p) : p \in Listed(d, s)}
    <2>1. ASSUME NEW p \in Listed(d, s)
          PROVE  Item(e, s, p) = Item(d, s, p)
      <3>1. {v \in Variant : ProductOf[v] = p /\ e.variant[v] # "absent"}
              = {v \in Variant : ProductOf[v] = p /\ d.variant[v] # "absent"}
        BY SameCard
      <3>2. Card(e, s, p) = Card(d, s, p) /\ Refs(e, p) = Refs(d, p)
        BY SameCard
      <3>3. QED
        BY <3>1, <3>2 DEF Item
    <2>2. QED
      BY <1>1, <2>1
  <1>3. \A p, slug : ProductBySlug(e, s, p, slug) = ProductBySlug(d, s, p, slug)
    <2>1. \A p \in Listed(d, s) :
            Card(e, s, p) = Card(d, s, p) /\ e.product[p].slug = d.product[p].slug
      BY SameCard DEF SameShop, SameProduct
    <2>2. QED
      BY <1>1, <2>1 DEF ProductBySlug
  <1>4. ASSUME NEW q \in Request, q.store = s
        PROVE  Page(e, q) = Page(d, q)
    <2>1. q.page \in {"bootstrap", "categories", "browse", "product"}
      BY RequestFacts
    <2>2. CASE q.page # "product"
      <3>1. \A i \in DOMAIN Statements[q.page] :
              Statements[q.page][i] \in {"bootstrap", "tree", "count", "list"}
        BY <2>1, <2>2, StatementKinds
      <3>2. \A statement \in {"bootstrap", "tree", "count", "list"} :
              Part(e, q, statement) = Part(d, q, statement)
        BY <1>1, <1>2, <1>4 DEF Part
      <3>3. QED
        BY <2>2, <3>1, <3>2 DEF Page
    <2>3. CASE q.page = "product"
      <3>1. Part(e, q, "product") = Part(d, q, "product")
        BY <1>3, <1>4 DEF Part
      <3>2. CASE Part(d, q, "product") = None
        BY <2>3, <3>1, <3>2 DEF Page
      <3>3. CASE Part(d, q, "product") # None
        <4>1. q.product \in Listed(d, s)
          BY <1>4, <3>3 DEF Part, ProductBySlug
        <4>2. \A statement \in {"product", "categories", "variants"} :
                Part(e, q, statement) = Part(d, q, statement)
          <5>1. Part(e, q, "categories") = Part(d, q, "categories")
            BY <4>1 DEF Part
          <5>2. Part(e, q, "variants") = Part(d, q, "variants")
            BY <4>1, <1>4, SameCard DEF Part
          <5>3. QED
            BY <3>1, <5>1, <5>2
        <4>3. \A i \in DOMAIN Statements[q.page] :
                Part(e, q, Statements[q.page][i]) = Part(d, q, Statements[q.page][i])
          BY <2>3, <4>2, StatementKinds
        <4>4. QED
          BY <3>1, <3>3, <4>3 DEF Page
      <3>4. QED
        BY <3>2, <3>3
    <2>4. QED
      BY <2>2, <2>3
  <1>5. QED
    BY <1>4 DEF Output

\* As long as the categories stay, so do they as shown for the listed products.
LEMMA SameCategories ==
  ASSUME NEW d, NEW e, NEW s \in Store, SameShop(d, e, s),
         e.category = d.category, e.label = d.label
  PROVE  /\ \A p \in Listed(d, s) : Refs(e, p) = Refs(d, p)
         /\ Tree(e, s) = Tree(d, s)
  <1>1. \A p \in Listed(d, s) : e.link[p] = d.link[p]
    BY DEF SameShop, SameProduct
  <1>2. Listed(e, s) = Listed(d, s)
    BY SameListed
  <1>3. Direct(e, s) = Direct(d, s)
    BY <1>1, <1>2 DEF Direct
  <1>4. \A c : {p \in Listed(e, s) : c \in e.link[p]} = {p \in Listed(d, s) : c \in d.link[p]}
    BY <1>1, <1>2
  <1>5. Tree(e, s) = Tree(d, s)
    BY <1>3, <1>4 DEF Tree
  <1>6. QED
    BY <1>1, <1>5 DEF Refs

-----------------------------------------------------------------------------
(* The selectors find every store whose pages a write changes.              *)

Fields == {"store", "theme", "product", "words", "variant", "link", "category", "label",
           "listing", "price", "offer", "available", "location", "stock"}

\* d and e are the same but for the rows of one table.
SameBut(d, e, table) == \A f \in Fields \ {table} : e[f] = d[f]

\* Stores(d, L) by its members.
LEMMA InStores ==
  ASSUME NEW d, NEW L, NEW l \in L, d.listing[l] # "absent"
  PROVE  StoreOf[l] \in Stores(d, L)
  BY DEF Stores

\* revisionStores: the settings of a store show in its own pages alone.
LEMMA StoreMissed ==
  ASSUME NEW d \in Database, NEW e, NEW s \in Store, NEW table \in {"store", "theme"},
         SameBut(d, e, table), e.store[s] = d.store[s], e.theme[s] = d.theme[s]
  PROVE  Output(e, s) = Output(d, s)
  <1>1. /\ e.product = d.product /\ e.words = d.words /\ e.variant = d.variant
        /\ e.link = d.link /\ e.category = d.category /\ e.label = d.label
        /\ e.listing = d.listing /\ e.price = d.price /\ e.offer = d.offer
        /\ e.available = d.available /\ e.location = d.location /\ e.stock = d.stock
    BY DEF SameBut, Fields
  <1>2. SameShop(d, e, s)
    BY <1>1 DEF SameShop, SameProduct, Eligible, SupplierAvailable, InStock
  <1>3. QED
    BY <1>1, <1>2, SameOutput, SameCategories

\* revisionStoresByProduct: what is known of a product, active or not, shows
\* only where a listing of it exists.
LEMMA ProductMissed ==
  ASSUME NEW d \in Database, NEW e, NEW s \in Store, NEW p,
         NEW table \in {"product", "words", "variant", "link"}, SameBut(d, e, table),
         \A x \in Product : x # p =>
           e.product[x] = d.product[x] /\ e.words[x] = d.words[x] /\ e.link[x] = d.link[x],
         \A v \in Variant : ProductOf[v] # p => e.variant[v] = d.variant[v],
         s \notin ByProduct(e, p)
  PROVE  Output(e, s) = Output(d, s)
  <1>1. /\ e.store = d.store /\ e.theme = d.theme
        /\ e.category = d.category /\ e.label = d.label
        /\ e.listing = d.listing /\ e.price = d.price /\ e.offer = d.offer
        /\ e.available = d.available /\ e.location = d.location /\ e.stock = d.stock
    BY DEF SameBut, Fields
  <1>2. ASSUME NEW l \in Listing, StoreOf[l] = s, d.listing[l] # "absent"
        PROVE  ProductOf[l] # p /\ ProductOf[l] \in Product
    <2>1. ProductOf[l] \in Product
      BY CatalogAssumption
    <2>2. ProductOf[l] # p
      BY <1>1, <1>2, InStores DEF ByProduct
    <2>3. QED
      BY <2>1, <2>2
  <1>3. Eligible(e, s) = Eligible(d, s)
    BY <1>1, <1>2 DEF Eligible
  <1>4. \A x \in Listed(d, s) : x \in Product /\ x # p
    BY <1>2 DEF Listed, Eligible
  <1>5. SameShop(d, e, s)
    BY <1>1, <1>3, <1>4 DEF SameShop, SameProduct, SupplierAvailable, InStock
  <1>6. QED
    BY <1>1, <1>5, SameOutput, SameCategories

\* revisionStoresByListing: a listing shows in its own store, once it exists.
LEMMA ListingMissed ==
  ASSUME NEW d \in Database, NEW e, NEW s \in Store, NEW k,
         NEW table \in {"listing", "price"}, SameBut(d, e, table),
         \A l \in Listing : l # k => e.listing[l] = d.listing[l] /\ e.price[l] = d.price[l],
         StoreOf[k] = s => d.listing[k] = "absent" /\ e.listing[k] = "absent"
  PROVE  Output(e, s) = Output(d, s)
  <1>1. /\ e.store = d.store /\ e.theme = d.theme
        /\ e.product = d.product /\ e.words = d.words /\ e.variant = d.variant
        /\ e.link = d.link /\ e.category = d.category /\ e.label = d.label
        /\ e.offer = d.offer
        /\ e.available = d.available /\ e.location = d.location /\ e.stock = d.stock
    BY DEF SameBut, Fields
  <1>2. Eligible(e, s) = Eligible(d, s) /\ k \notin Eligible(d, s)
    BY <1>1 DEF Eligible
  <1>3. \A l \in Eligible(d, s) : e.price[l] = d.price[l]
    BY <1>2 DEF Eligible
  <1>4. SameShop(d, e, s)
    BY <1>1, <1>2, <1>3 DEF SameShop, SameProduct, SupplierAvailable, InStock
  <1>5. QED
    BY <1>1, <1>4, SameOutput, SameCategories

\* revisionStoresBySupplierOffer: an offer shows where a listing sells from it.
LEMMA OfferMissed ==
  ASSUME NEW d \in Database, NEW e, NEW s \in Store, NEW o,
         NEW table \in {"offer", "available"}, SameBut(d, e, table),
         \A x \in Offer : x # o =>
           e.offer[x] = d.offer[x] /\ e.available[x] = d.available[x],
         s \notin BySupplierOffer(e, o)
  PROVE  Output(e, s) = Output(d, s)
  <1>1. /\ e.store = d.store /\ e.theme = d.theme
        /\ e.product = d.product /\ e.words = d.words /\ e.variant = d.variant
        /\ e.link = d.link /\ e.category = d.category /\ e.label = d.label
        /\ e.listing = d.listing /\ e.price = d.price
        /\ e.location = d.location /\ e.stock = d.stock
    BY DEF SameBut, Fields
  <1>2. ASSUME NEW l \in Listing, StoreOf[l] = s, d.listing[l] # "absent", OfferOf[l] # None
        PROVE  /\ e.offer[OfferOf[l]] = d.offer[OfferOf[l]]
               /\ e.available[OfferOf[l]] = d.available[OfferOf[l]]
    <2>1. OfferOf[l] # o
      BY <1>1, <1>2, InStores DEF BySupplierOffer
    <2>2. OfferOf[l] \in Offer
      BY <1>2, CatalogAssumption
    <2>3. QED
      BY <2>1, <2>2
  <1>3. Eligible(e, s) = Eligible(d, s)
    BY <1>1, <1>2 DEF Eligible
  <1>4. \A l \in Eligible(d, s) : SupplierAvailable(e, l) <=> SupplierAvailable(d, l)
    BY <1>2 DEF Eligible, SupplierAvailable
  <1>5. SameShop(d, e, s)
    BY <1>1, <1>3, <1>4 DEF SameShop, SameProduct, InStock
  <1>6. QED
    BY <1>1, <1>5, SameOutput, SameCategories

\* revisionStoresByInventorySnapshot and revisionStoresByFulfillmentLocation:
\* stock shows where a listing of its product sells from the owner of its place.
LEMMA StockMissed ==
  ASSUME NEW d \in Database, NEW e, NEW s \in Store,
         NEW table \in {"stock", "location"}, SameBut(d, e, table),
         \A n \in Snapshot :
           \/ e.stock[n] = d.stock[n] /\ e.location[At[n]] = d.location[At[n]]
           \/ e.stock[n] # "some" /\ d.stock[n] # "some"
           \/ s \notin ByInventorySnapshot(e, n)
  PROVE  Output(e, s) = Output(d, s)
  <1>1. /\ e.store = d.store /\ e.theme = d.theme
        /\ e.product = d.product /\ e.words = d.words /\ e.variant = d.variant
        /\ e.link = d.link /\ e.category = d.category /\ e.label = d.label
        /\ e.listing = d.listing /\ e.price = d.price
        /\ e.offer = d.offer /\ e.available = d.available
    BY DEF SameBut, Fields
  <1>2. Eligible(e, s) = Eligible(d, s)
    BY <1>1 DEF Eligible
  <1>3. ASSUME NEW l \in Eligible(d, s), NEW n \in Snapshot,
               ProductOf[VariantOf[n]] = ProductOf[l]
        PROVE  InStock(e, l, n) <=> InStock(d, l, n)
    <2>1. CASE e.stock[n] = d.stock[n] /\ e.location[At[n]] = d.location[At[n]]
      BY <2>1 DEF InStock
    <2>2. CASE e.stock[n] # "some" /\ d.stock[n] # "some"
      BY <2>2 DEF InStock
    <2>3. CASE s \notin ByInventorySnapshot(e, n)
      <3>1. l \in Listing /\ StoreOf[l] = s /\ e.listing[l] # "absent"
        BY <1>1 DEF Eligible
      <3>2. Source(l) # Owner[At[n]]
        BY <1>3, <2>3, <3>1, InStores DEF ByInventorySnapshot
      <3>3. QED
        BY <3>2 DEF InStock
    <2>4. QED
      BY <2>1, <2>2, <2>3
  <1>4. SameShop(d, e, s)
    BY <1>1, <1>2, <1>3 DEF SameShop, SameProduct, SupplierAvailable
  <1>5. QED
    BY <1>1, <1>4, SameOutput, SameCategories

\* WITH RECURSIVE: the result is closed, and depends on next only where it leads.
LEMMA ClosureClosed ==
  ASSUME NEW C \in SUBSET Category, NEW next, \A x \in Category : next[x] \subseteq Category
  PROVE  /\ C \subseteq Closure(C, next)
         /\ Closure(C, next) \subseteq Category
         /\ \A x \in Closure(C, next) : next[x] \subseteq Closure(C, next)
  <1>1. C \subseteq Closure(C, next) /\ Closure(C, next) \subseteq Category
    BY DEF Closure
  <1>2. ASSUME NEW x \in Closure(C, next), NEW y \in next[x]
        PROVE  y \in Closure(C, next)
    <2>1. y \in Category
      BY <1>1, <1>2
    <2>2. ASSUME NEW S \in SUBSET Category, C \subseteq S, \A z \in S : next[z] \subseteq S
          PROVE  y \in S
      <3>1. x \in S
        BY <2>2 DEF Closure
      <3>2. QED
        BY <1>2, <2>2, <3>1
    <2>3. QED
      BY <2>1, <2>2 DEF Closure
  <1>3. QED
    BY <1>1, <1>2

LEMMA ClosureWithin ==
  ASSUME NEW R \in SUBSET Category, NEW C \in SUBSET R, NEW next, NEW other,
         \A x \in R : next[x] \subseteq R /\ other[x] = next[x]
  PROVE  Closure(C, other) \subseteq Closure(C, next) \cap R
  <1> SUFFICES ASSUME NEW c \in Closure(C, other)
               PROVE  c \in R /\ c \in Closure(C, next)
    OBVIOUS
  <1>1. c \in Category
    BY DEF Closure
  <1>2. ASSUME NEW S \in SUBSET Category, C \subseteq S, \A x \in S : next[x] \subseteq S
        PROVE  c \in S \cap R
    <2>1. C \subseteq S \cap R /\ \A x \in S \cap R : other[x] \subseteq S \cap R
      BY <1>2
    <2>2. S \cap R \in SUBSET Category
      OBVIOUS
    <2>3. QED
      BY <2>1, <2>2 DEF Closure
  <1>3. c \in R
    BY <1>2
  <1>4. QED
    BY <1>1, <1>2, <1>3 DEF Closure

\* revisionStoresByCategorySubtree: a category shows, by its name, its slug or
\* as an ancestor, only where a product of its subtree is listed.
LEMMA CategoryMissed ==
  ASSUME NEW d \in Database, NEW e \in Database, NEW s \in Store, NEW c \in Category,
         NEW table \in {"category", "label"}, SameBut(d, e, table),
         \A x \in Category : x # c =>
           e.category[x] = d.category[x] /\ e.label[x] = d.label[x],
         s \notin ByCategorySubtree(e, c)
  PROVE  Output(e, s) = Output(d, s)
  <1> DEFINE below == [x \in Category |-> {y \in Category : e.category[y].parent = x}]
             R == Category \ Subtree(e, c)
             above(b) == [x \in Category |-> {b.category[x].parent} \ {None}]
             D == Direct(d, s)
  <1>1. /\ e.store = d.store /\ e.theme = d.theme
        /\ e.product = d.product /\ e.words = d.words /\ e.variant = d.variant
        /\ e.link = d.link /\ e.listing = d.listing /\ e.price = d.price
        /\ e.offer = d.offer
        /\ e.available = d.available /\ e.location = d.location /\ e.stock = d.stock
    BY DEF SameBut, Fields
  <1>2. SameShop(d, e, s)
    BY <1>1 DEF SameShop, SameProduct, Eligible, SupplierAvailable, InStock
  <1>3. Subtree(e, c) = Closure({c}, below)
    BY DEF Subtree
  <1>4. /\ c \in Subtree(e, c) /\ Subtree(e, c) \subseteq Category
        /\ \A x \in Subtree(e, c), y \in Category :
             e.category[y].parent = x => y \in Subtree(e, c)
    <2>1. \A x \in Category : below[x] \subseteq Category
      OBVIOUS
    <2>2. {c} \in SUBSET Category
      OBVIOUS
    <2>3. /\ {c} \subseteq Closure({c}, below)
          /\ Closure({c}, below) \subseteq Category
          /\ \A x \in Closure({c}, below) : below[x] \subseteq Closure({c}, below)
      BY <2>1, <2>2, ClosureClosed
    <2>4. QED
      BY <1>3, <2>3
  \* Outside the subtree the categories are as they were, and so are their parents.
  <1>5. ASSUME NEW x \in R
        PROVE  /\ x \in Category /\ e.category[x] = d.category[x] /\ e.label[x] = d.label[x]
               /\ d.category[x].parent # None => d.category[x].parent \in R
    <2>1. x \in Category /\ e.category[x] = d.category[x] /\ e.label[x] = d.label[x]
      BY <1>4
    <2>2. d.category[x].parent \in Category \cup {None}
      BY <2>1 DEF Database
    <2>3. QED
      BY <1>4, <2>1, <2>2
  <1>6. ASSUME NEW p \in Listed(d, s)
        PROVE  d.link[p] \subseteq R
    <2>1. PICK l \in Listing : StoreOf[l] = s /\ d.listing[l] = "active" /\ ProductOf[l] = p
      BY DEF Listed, Eligible
    <2>2. p \in Product
      BY <2>1, CatalogAssumption
    <2>3. s \in ByProduct(e, p)
      BY <1>1, <2>1, InStores DEF ByProduct
    <2>4. e.link[p] \cap Subtree(e, c) = {}
      BY <2>2, <2>3 DEF ByCategorySubtree
    <2>5. d.link[p] \subseteq Category
      BY <2>2 DEF Database
    <2>6. QED
      BY <1>1, <2>4, <2>5
  <1> HIDE DEF R
  <1>7. Listed(e, s) = Listed(d, s)
    BY <1>2, SameListed
  <1>8. \A p \in Listed(d, s) : Refs(e, p) = Refs(d, p)
    <2>1. ASSUME NEW p \in Listed(d, s)
          PROVE  {x \in e.link[p] : e.category[x].active} = {x \in d.link[p] : d.category[x].active}
      BY <1>1, <1>5, <1>6
    <2>2. ASSUME NEW p \in Listed(d, s), NEW x \in d.link[p]
          PROVE  /\ e.category[x].slug = d.category[x].slug
                 /\ e.label[x] = d.label[x]
      BY <1>5, <1>6, <2>2
    <2>3. QED
      BY <2>1, <2>2 DEF Refs
  <1>9. D \subseteq R /\ Direct(e, s) = D
    <2>1. D \subseteq R
      BY <1>6 DEF Direct
    <2>2. \A p \in Listed(d, s) : e.link[p] = d.link[p] /\ d.link[p] \subseteq R
      BY <1>1, <1>6
    <2>3. \A x \in R : x \in Direct(e, s) <=> x \in D
      BY <1>5, <1>7, <2>2 DEF Direct
    <2>4. Direct(e, s) \subseteq R
      BY <1>7, <2>2 DEF Direct
    <2>5. QED
      BY <2>1, <2>3, <2>4
  <1>10. Closure(D, above(e)) = Closure(D, above(d)) /\ Closure(D, above(d)) \subseteq R
    <2>1. \A x \in R : /\ above(d)[x] \subseteq R /\ above(e)[x] \subseteq R
                       /\ above(e)[x] = above(d)[x]
      BY <1>5
    <2>2. R \in SUBSET Category /\ D \in SUBSET R
      BY <1>9 DEF R
    <2> HIDE DEF above, D
    <2>3. Closure(D, above(e)) \subseteq Closure(D, above(d)) \cap R
      BY <2>1, <2>2, ClosureWithin
    <2>4. Closure(D, above(d)) \subseteq Closure(D, above(e)) \cap R
      BY <2>1, <2>2, ClosureWithin
    <2>5. QED
      BY <2>3, <2>4
  <1>11. Tree(e, s) = Tree(d, s)
    <2> DEFINE shown(b) == {x \in Closure(Direct(b, s), above(b)) : b.category[x].active}
               node(b, x) ==
                 [id |-> x, slug |-> b.category[x].slug, name |-> b.label[x],
                  parent |-> IF b.category[x].parent # None
                                /\ b.category[b.category[x].parent].active
                             THEN <<b.category[x].parent, b.category[b.category[x].parent].slug>>
                             ELSE None,
                  products |-> Cardinality({p \in Listed(b, s) : x \in b.link[p]})]
    <2>1. Tree(d, s) = {node(d, x) : x \in shown(d)} /\ Tree(e, s) = {node(e, x) : x \in shown(e)}
      BY DEF Tree
    <2>2. shown(e) = shown(d) /\ shown(d) \subseteq R
      BY <1>5, <1>9, <1>10
    <2>3. ASSUME NEW x \in R
          PROVE  node(e, x) = node(d, x)
      <3>1. {p \in Listed(e, s) : x \in e.link[p]} = {p \in Listed(d, s) : x \in d.link[p]}
        BY <1>1, <1>7
      <3>2. e.category[x] = d.category[x] /\ e.label[x] = d.label[x]
        BY <1>5
      <3>3. d.category[x].parent # None =>
              e.category[d.category[x].parent] = d.category[d.category[x].parent]
        BY <1>5
      <3>4. QED
        BY <3>1, <3>2, <3>3
    <2> HIDE DEF shown, node
    <2>4. QED
      BY <2>1, <2>2, <2>3
  <1>12. QED
    BY <1>1, <1>2, <1>8, <1>11, SameOutput

\* The writes the operations make: a value of the column's type, and the
\* selector called with the id the operation has at hand.
StoreWrite(t) ==
  /\ t.table \in {"store", "theme"} /\ t.key \in Store
  /\ t.table = "store" => t.value \in [text : Text, active : BOOLEAN]
  /\ t.table = "theme" => t.value \in Text
  /\ t.rule = "store" /\ t.id = t.key

ProductWrite(t) ==
  /\ t.table \in {"product", "words", "link"} /\ t.key \in Product
  /\ t.table = "product" => t.value \in [slug : Text, active : BOOLEAN]
  /\ t.table = "words" => t.value \in Text
  /\ t.table = "link" => t.value \in SUBSET Category
  /\ t.rule = "product" /\ t.id = t.key

VariantWrite(t) ==
  /\ t.table = "variant" /\ t.key \in Variant /\ t.value \in {"bare", "sku"}
  /\ \/ t.rule = "product" /\ t.id = ProductOf[t.key]
     \/ t.rule = "variant" /\ t.id = t.key

CategoryWrite(t) ==
  /\ t.table \in {"category", "label"} /\ t.key \in Category
  /\ t.table = "category" =>
       t.value \in [slug : Text, active : BOOLEAN, parent : Category \cup {None}]
  /\ t.table = "label" => t.value \in Text
  /\ t.rule = "category" /\ t.id = t.key

ListingWrite(t) ==
  /\ t.table \in {"listing", "price"} /\ t.key \in Listing
  /\ t.table = "listing" => t.value \in {"inactive", "active"}
  /\ t.table = "price" => t.value \in Text
  /\ \/ t.table = "listing" /\ t.rule = "store" /\ t.id = StoreOf[t.key]
     \/ t.rule = "listing" /\ t.id = t.key

SupplierWrite(t) ==
  /\ t.table \in {"offer", "available", "location"} /\ t.value \in BOOLEAN /\ t.id = t.key
  /\ t.table = "location" => t.key \in Location /\ t.rule = "location"
  /\ t.table # "location" => t.key \in Offer /\ t.rule = "offer"

StockWrite(t) ==
  /\ t.table = "stock" /\ t.key \in Snapshot /\ t.value \in {"none", "some"}
  /\ \/ t.rule = "sku" /\ t.id = VariantOf[t.key]
     \/ t.rule = "snapshot" /\ t.id = t.key
     \/ t.rule = "none"

LegalWrite(t) ==
  \/ StoreWrite(t) \/ ProductWrite(t) \/ VariantWrite(t) \/ CategoryWrite(t)
  \/ ListingWrite(t) \/ SupplierWrite(t) \/ StockWrite(t)


LEMMA Applied ==
  ASSUME NEW d \in Database, NEW t, LegalWrite(t)
  PROVE  Apply(d, t) \in Database
  <1>1. CASE StoreWrite(t)
    BY <1>1 DEF StoreWrite, Apply, Database
  <1>2. CASE ProductWrite(t)
    BY <1>2 DEF ProductWrite, Apply, Database
  <1>3. CASE VariantWrite(t)
    BY <1>3 DEF VariantWrite, Apply, Database
  <1>4. CASE CategoryWrite(t)
    BY <1>4 DEF CategoryWrite, Apply, Database
  <1>5. CASE ListingWrite(t)
    BY <1>5 DEF ListingWrite, Apply, Database
  <1>6. CASE SupplierWrite(t)
    BY <1>6 DEF SupplierWrite, Apply, Database
  <1>7. CASE StockWrite(t)
    BY <1>7 DEF StockWrite, Apply, Database
  <1>8. QED
    BY <1>1, <1>2, <1>3, <1>4, <1>5, <1>6, <1>7 DEF LegalWrite

\* bumpStorefrontRevisions: a store that the selector of a write does not find,
\* run on the rows with the write, shows after the write what it showed before.
LEMMA SelectorsComplete ==
  ASSUME NEW d \in Database, NEW t, LegalWrite(t), t.rule # "none",
         NEW s \in Store, s \notin Selected(Apply(d, t), t)
  PROVE  Output(Apply(d, t), s) = Output(d, s)
  <1> DEFINE e == Apply(d, t)
  <1>1. CASE t.table # "link" /\ t.table \in Fields
    <2>1. e = [d EXCEPT ![t.table][t.key] = t.value]
      BY <1>1 DEF Apply
    <2> HIDE DEF e
    <2>2. SameBut(d, e, t.table) /\ e[t.table] = [d[t.table] EXCEPT ![t.key] = t.value]
      <3>1. DOMAIN d = Fields
        BY DEF Database, Fields
      <3>2. QED
        BY <1>1, <2>1, <3>1 DEF SameBut
    <2>3. CASE StoreWrite(t)
      <3>1. s # t.key /\ t.table \in {"store", "theme"}
        BY <2>3 DEF StoreWrite, Selected, e
      <3>2. e.store[s] = d.store[s] /\ e.theme[s] = d.theme[s]
        BY <2>2, <3>1 DEF SameBut, Fields, Database
      <3>3. QED
        BY <2>2, <3>1, <3>2, StoreMissed DEF e
    <2>4. CASE ProductWrite(t)
      <3>1. s \notin ByProduct(e, t.key) /\ t.table \in {"product", "words", "variant", "link"}
        BY <2>4 DEF ProductWrite, Selected, e
      <3>2. \A x \in Product : x # t.key =>
              e.product[x] = d.product[x] /\ e.words[x] = d.words[x] /\ e.link[x] = d.link[x]
        BY <2>2, <2>4, <1>1 DEF SameBut, Fields, Database, ProductWrite
      <3>3. e.variant = d.variant
        BY <2>2, <2>4, <1>1 DEF SameBut, Fields, ProductWrite
      <3>4. QED
        BY <2>2, <3>1, <3>2, <3>3, ProductMissed DEF e
    <2>5. CASE VariantWrite(t)
      <3>1. s \notin ByProduct(e, ProductOf[t.key]) /\ t.table = "variant"
        BY <2>5 DEF VariantWrite, Selected, e
      <3>2. e.product = d.product /\ e.words = d.words /\ e.link = d.link
        BY <2>2, <3>1 DEF SameBut, Fields
      <3>3. \A v \in Variant : v # t.key => e.variant[v] = d.variant[v]
        BY <2>2, <3>1 DEF Database
      <3>4. QED
        BY <2>2, <3>1, <3>2, <3>3, ProductMissed DEF e
    <2>6. CASE CategoryWrite(t)
      <3>1. s \notin ByCategorySubtree(e, t.key) /\ t.table \in {"category", "label"}
            /\ t.key \in Category
        BY <2>6 DEF CategoryWrite, Selected, e
      <3>2. \A x \in Category : x # t.key =>
              e.category[x] = d.category[x] /\ e.label[x] = d.label[x]
        BY <2>2, <3>1 DEF SameBut, Fields, Database
      <3>3. e \in Database
        BY Applied DEF e
      <3>4. QED
        BY <2>2, <3>1, <3>2, <3>3, CategoryMissed DEF e
    <2>7. CASE ListingWrite(t)
      <3>1. t.table \in {"listing", "price"} /\ t.key \in Listing
        BY <2>7 DEF ListingWrite
      <3>2. \A l \in Listing : l # t.key => e.listing[l] = d.listing[l] /\ e.price[l] = d.price[l]
        BY <2>2, <3>1 DEF SameBut, Fields, Database
      <3>3. StoreOf[t.key] = s => d.listing[t.key] = "absent" /\ e.listing[t.key] = "absent"
        <4>1. CASE t.table = "listing"
          <5>1. e.listing[t.key] # "absent"
            BY <2>2, <2>7, <4>1, <3>1 DEF ListingWrite, Database
          <5>2. s # StoreOf[t.key]
            BY <2>7, <4>1, <5>1, InStores DEF ListingWrite, Selected, e
          <5>3. QED
            BY <5>2
        <4>2. CASE t.table = "price"
          <5>1. e.listing = d.listing
            BY <2>2, <4>2 DEF SameBut, Fields
          <5>2. s \notin Stores(e, {t.key})
            BY <2>7, <4>2 DEF ListingWrite, Selected, e
          <5>3. QED
            BY <5>1, <5>2, InStores
        <4>3. QED
          BY <3>1, <4>1, <4>2
      <3>4. QED
        BY <2>2, <3>1, <3>2, <3>3, ListingMissed DEF e
    <2>8. CASE SupplierWrite(t) /\ t.rule = "offer"
      <3>1. s \notin BySupplierOffer(e, t.key) /\ t.table \in {"offer", "available"}
        BY <2>8 DEF SupplierWrite, Selected, e
      <3>2. \A x \in Offer : x # t.key =>
              e.offer[x] = d.offer[x] /\ e.available[x] = d.available[x]
        BY <2>2, <3>1 DEF SameBut, Fields, Database
      <3>3. QED
        BY <2>2, <3>1, <3>2, OfferMissed DEF e
    <2>9. CASE SupplierWrite(t) /\ t.rule = "location"
      <3>1. t.table = "location" /\ s \notin ByFulfillmentLocation(e, t.key)
        BY <2>9 DEF SupplierWrite, Selected, e
      <3>2. e.stock = d.stock
        BY <2>2, <3>1 DEF SameBut, Fields
      <3>3. ASSUME NEW n \in Snapshot
            PROVE  \/ e.stock[n] = d.stock[n] /\ e.location[At[n]] = d.location[At[n]]
                   \/ e.stock[n] # "some" /\ d.stock[n] # "some"
                   \/ s \notin ByInventorySnapshot(e, n)
        <4>1. CASE At[n] # t.key
          <5>1. At[n] \in Location
            BY CatalogAssumption
          <5>2. QED
            BY <2>2, <3>1, <3>2, <4>1, <5>1 DEF Database
        <4>2. CASE At[n] = t.key
          BY <3>1, <3>2, <4>2 DEF ByFulfillmentLocation
        <4>3. QED
          BY <4>1, <4>2
      <3>4. QED
        BY <2>2, <3>1, <3>3, StockMissed DEF e
    <2>10. CASE StockWrite(t)
      <3>1. t.table = "stock" /\ t.key \in Snapshot
        BY <2>10 DEF StockWrite
      <3>2. \A n \in Snapshot : n # t.key => e.stock[n] = d.stock[n]
        BY <2>2, <3>1 DEF Database
      <3>3. e.location = d.location
        BY <2>2, <3>1 DEF SameBut, Fields
      <3>4. s \notin ByInventorySnapshot(e, t.key)
        <4>1. CASE t.rule = "snapshot"
          BY <2>10, <4>1 DEF StockWrite, Selected, e
        <4>2. CASE t.rule = "sku"
          <5>1. s \notin ByProduct(e, ProductOf[VariantOf[t.key]])
            BY <2>10, <4>2 DEF StockWrite, Selected, e
          <5>2. QED
            BY <5>1 DEF ByProduct, ByInventorySnapshot, Stores
        <4>3. QED
          BY <2>10, <4>1, <4>2 DEF StockWrite
      <3>5. QED
        BY <2>2, <3>1, <3>2, <3>3, <3>4, StockMissed DEF e
    <2>11. QED
      BY <2>3, <2>4, <2>5, <2>6, <2>7, <2>8, <2>9, <2>10 DEF LegalWrite, SupplierWrite, e
  <1>2. CASE t.table = "link" /\ ProductWrite(t)
    <2>1. e = [d EXCEPT !.link[t.key] = (@ \ t.old) \cup t.value]
      BY <1>2 DEF Apply
    <2>2. SameBut(d, e, "link") /\ \A x \in Product : x # t.key => e.link[x] = d.link[x]
      BY <2>1 DEF Database, SameBut, Fields
    <2>3. s \notin ByProduct(e, t.key)
      BY <1>2 DEF ProductWrite, Selected
    <2>4. e.product = d.product /\ e.words = d.words /\ e.variant = d.variant
      BY <2>2 DEF SameBut, Fields
    <2> HIDE DEF e
    <2>5. QED
      BY <2>2, <2>3, <2>4, ProductMissed DEF e
  <1>3. QED
    BY <1>1, <1>2 DEF LegalWrite, StoreWrite, ProductWrite, VariantWrite, CategoryWrite,
                      ListingWrite, SupplierWrite, StockWrite, Fields

\* Every selector returns stores.
LEMMA SelectedAreStores ==
  ASSUME NEW d, NEW t, LegalWrite(t)
  PROVE  Selected(d, t) \subseteq Store
  <1>1. \A L \in SUBSET Listing : Stores(d, L) \subseteq Store
    BY CatalogAssumption DEF Stores
  <1>2. \A p : ByProduct(d, p) \subseteq Store
    BY <1>1 DEF ByProduct
  <1>3. \A o : BySupplierOffer(d, o) \subseteq Store
    BY <1>1 DEF BySupplierOffer
  <1>4. \A n : ByInventorySnapshot(d, n) \subseteq Store
    BY <1>1 DEF ByInventorySnapshot
  <1>5. \A f : ByFulfillmentLocation(d, f) \subseteq Store
    BY <1>4 DEF ByFulfillmentLocation
  <1>6. \A c : ByCategorySubtree(d, c) \subseteq Store
    BY <1>2 DEF ByCategorySubtree
  <1>7. t.rule = "listing" => Stores(d, {t.id}) \subseteq Store
    BY <1>1 DEF LegalWrite, StoreWrite, ProductWrite, VariantWrite, CategoryWrite,
                ListingWrite, SupplierWrite, StockWrite
  <1>8. t.rule = "store" => t.id \in Store
    BY CatalogAssumption
       DEF LegalWrite, StoreWrite, ProductWrite, VariantWrite, CategoryWrite,
           ListingWrite, SupplierWrite, StockWrite
  <1>9. t.rule \in {"none", "store", "listing", "product", "offer", "variant", "sku",
                    "snapshot", "location", "category"}
    BY DEF LegalWrite, StoreWrite, ProductWrite, VariantWrite, CategoryWrite,
           ListingWrite, SupplierWrite, StockWrite
  <1>10. QED
    BY <1>2, <1>3, <1>4, <1>5, <1>6, <1>7, <1>8, <1>9 DEF Selected

-----------------------------------------------------------------------------
(* The transactions *)

Done == {w \in Writer : phase[w] = "done"}

\* An open transaction makes a legal write; it has found stores, and locked
\* some of their revisions for itself, since it began to bump.
WriterInv(w) ==
  /\ phase[w] \in {"waiting", "written", "bumping"} => LegalWrite(write[w])
  /\ todo[w] \subseteq Store
  /\ held[w] \subseteq todo[w]
  /\ phase[w] # "bumping" => todo[w] = {}

Counted ==
  /\ revision \in [Store -> Nat]
  /\ \A s \in Store : 1 <= revision[s] /\ revision[s] <= 1 + Cardinality(Done)

TransactionInv ==
  /\ db \in Database
  /\ Counted
  /\ phase \in [Writer -> {"new", "waiting", "written", "bumping", "done"}]
  /\ DOMAIN write = Writer /\ DOMAIN todo = Writer /\ DOMAIN held = Writer
  /\ \A w \in Writer : WriterInv(w)
  /\ \A v, w \in Writer : v # w => held[v] \cap held[w] = {}
  /\ unseen \in [Store -> BOOLEAN]

LEMMA DoneFinite ==
  /\ IsFiniteSet(Done) /\ Cardinality(Done) \in Nat
  /\ Cardinality(Done) <= Cardinality(Writer) /\ Cardinality(Writer) \in Nat
  BY CacheAssumption, FS_Subset, FS_CardinalityType DEF Done

LEMMA InitTransactions == Init => TransactionInv
  <1> SUFFICES ASSUME Init PROVE TransactionInv
    OBVIOUS
  <1>1. db \in Database
    BY CacheAssumption DEF Init
  <1>2. Counted
    BY DoneFinite DEF Init, Counted
  <1>3. \A w \in Writer : WriterInv(w)
    BY DEF Init, WriterInv
  <1>4. QED
    BY <1>1, <1>2, <1>3 DEF Init, TransactionInv

\* No writer is done before its transaction ends.
LEMMA CountedStays ==
  ASSUME Counted, revision' = revision, Done' = Done
  PROVE  Counted'
  BY DEF Counted

\* The first statement of a transaction.
LEMMA ChangeStep ==
  ASSUME TransactionInv, NEW w \in Writer, NEW t, LegalWrite(t),
         phase[w] = "new", NEW to \in {"waiting", "written"},
         phase' = [phase EXCEPT ![w] = to], write' = [write EXCEPT ![w] = t],
         UNCHANGED <<db, revision, todo, held, unseen>>
  PROVE  TransactionInv'
  <1>1. Counted'
    <2>1. Done' = Done
      BY DEF Done, TransactionInv
    <2>2. QED
      BY <2>1, CountedStays DEF TransactionInv
  <1>2. ASSUME NEW v \in Writer
        PROVE  WriterInv(v)'
    BY DEF TransactionInv, WriterInv
  <1>3. QED
    BY <1>1, <1>2 DEF TransactionInv

LEMMA ChangeLegal ==
  ASSUME TransactionInv, NEW w \in Writer, NEW table, NEW key, NEW value, NEW rule, NEW id,
         Change(w, table, key, value, rule, id),
         LegalWrite([table |-> table, key |-> key, value |-> value, old |-> {},
                     rule |-> rule, id |-> id])
  PROVE  TransactionInv'
  <1> DEFINE t == [table |-> table, key |-> key, value |-> value, old |-> {},
                   rule |-> rule, id |-> id]
  <1>1. /\ phase[w] = "new" /\ phase' = [phase EXCEPT ![w] = "written"]
        /\ write' = [write EXCEPT ![w] = t]
        /\ UNCHANGED <<db, revision, todo, held, unseen>>
    BY DEF Change
  <1>2. LegalWrite(t)
    OBVIOUS
  <1> HIDE DEF t
  <1>3. QED
    BY <1>1, <1>2, ChangeStep

\* Every operation makes a legal write.
LEMMA OperationStep ==
  ASSUME TransactionInv, NEW w \in Writer, Operations(w)
  PROVE  TransactionInv'
  <1> DEFINE T(table, key, value, rule, id) ==
               [table |-> table, key |-> key, value |-> value, old |-> {},
                rule |-> rule, id |-> id]
  <1>1. \A table, key, value, rule, id :
          Change(w, table, key, value, rule, id) /\ LegalWrite(T(table, key, value, rule, id))
            => TransactionInv'
    BY ChangeLegal
  <1>2. db \in Database
    BY DEF TransactionInv
  <1>3. \A table, key, value, rule, id :
          LET t == T(table, key, value, rule, id)
          IN  /\ t.table = table /\ t.key = key /\ t.value = value
              /\ t.rule = rule /\ t.id = id
    OBVIOUS
  <1> HIDE DEF T
  <1>4. CASE UpdateStoreStatus(w) \/ UpdateStoreProfile(w)
    <2>1. PICK s \in Store, x \in [text : Text, active : BOOLEAN] :
            Change(w, "store", s, x, "store", s)
      <3>1. CASE UpdateStoreStatus(w)
        <4>1. PICK s \in Store, active \in BOOLEAN :
                Change(w, "store", s, [db.store[s] EXCEPT !.active = active], "store", s)
          BY <3>1 DEF UpdateStoreStatus
        <4>2. db.store[s] \in [text : Text, active : BOOLEAN]
          BY <1>2 DEF Database
        <4>3. [db.store[s] EXCEPT !.active = active] \in [text : Text, active : BOOLEAN]
          BY <4>2
        <4>4. QED
          BY <4>1, <4>3
      <3>2. CASE UpdateStoreProfile(w)
        BY <3>2 DEF UpdateStoreProfile
      <3>3. QED
        BY <1>4, <3>1, <3>2
    <2>2. QED
      BY <1>1, <1>3, <2>1 DEF LegalWrite, StoreWrite
  <1>5. CASE PublishTheme(w)
    BY <1>1, <1>3, <1>5 DEF PublishTheme, LegalWrite, StoreWrite
  <1>6. CASE UpdateProductStatus(w) \/ UpdateProduct(w)
    <2>1. PICK p \in Product, x \in [slug : Text, active : BOOLEAN] :
            Change(w, "product", p, x, "product", p)
      <3>1. CASE UpdateProductStatus(w)
        <4>1. PICK p \in Product, active \in BOOLEAN :
                Change(w, "product", p, [db.product[p] EXCEPT !.active = active], "product", p)
          BY <3>1 DEF UpdateProductStatus
        <4>2. db.product[p] \in [slug : Text, active : BOOLEAN]
          BY <1>2 DEF Database
        <4>3. [db.product[p] EXCEPT !.active = active] \in [slug : Text, active : BOOLEAN]
          BY <4>2
        <4>4. QED
          BY <4>1, <4>3
      <3>2. CASE UpdateProduct(w)
        BY <3>2 DEF UpdateProduct
      <3>3. QED
        BY <1>6, <3>1, <3>2
    <2>2. QED
      BY <1>1, <1>3, <2>1 DEF LegalWrite, ProductWrite
  <1>7. CASE UpsertProductTranslation(w)
    BY <1>1, <1>3, <1>7 DEF UpsertProductTranslation, LegalWrite, ProductWrite
  <1>8. CASE CreateVariant(w)
    BY <1>1, <1>3, <1>8 DEF CreateVariant, LegalWrite, VariantWrite
  <1>9. CASE CreateSKU(w)
    BY <1>1, <1>3, <1>9 DEF CreateSKU, LegalWrite, VariantWrite
  <1>10. CASE UpdateCategoryStatus(w) \/ UpdateCategory(w)
    <2>1. PICK c \in Category, x \in [slug : Text, active : BOOLEAN, parent : Category \cup {None}] :
            Change(w, "category", c, x, "category", c)
      <3>1. CASE UpdateCategoryStatus(w)
        <4>1. PICK c \in Category, active \in BOOLEAN :
                Change(w, "category", c, [db.category[c] EXCEPT !.active = active], "category", c)
          BY <3>1 DEF UpdateCategoryStatus
        <4>2. db.category[c] \in [slug : Text, active : BOOLEAN, parent : Category \cup {None}]
          BY <1>2 DEF Database
        <4>3. [db.category[c] EXCEPT !.active = active] \in [slug : Text, active : BOOLEAN, parent : Category \cup {None}]
          BY <4>2
        <4>4. QED
          BY <4>1, <4>3
      <3>2. CASE UpdateCategory(w)
        BY <3>2 DEF UpdateCategory
      <3>3. QED
        BY <1>10, <3>1, <3>2
    <2>2. QED
      BY <1>1, <1>3, <2>1 DEF LegalWrite, CategoryWrite
  <1>11. CASE UpsertCategoryTranslation(w)
    BY <1>1, <1>3, <1>11 DEF UpsertCategoryTranslation, LegalWrite, CategoryWrite
  <1>12. CASE SetProductCategories(w)
    <2>1. PICK p \in Product, C \in SUBSET Category :
            /\ phase[w] = "new" /\ phase' = [phase EXCEPT ![w] = "waiting"]
            /\ write' = [write EXCEPT ![w] =
                 [table |-> "link", key |-> p, value |-> C, old |-> db.link[p],
                  rule |-> "product", id |-> p]]
            /\ UNCHANGED <<db, revision, todo, held, unseen>>
      BY <1>12 DEF SetProductCategories
    <2> DEFINE t == [table |-> "link", key |-> p, value |-> C, old |-> db.link[p],
                     rule |-> "product", id |-> p]
    <2>2. LegalWrite(t)
      BY DEF LegalWrite, ProductWrite
    <2>3. write' = [write EXCEPT ![w] = t]
      BY <2>1
    <2> HIDE DEF t
    <2>4. QED
      BY <2>1, <2>2, <2>3, ChangeStep
  <1>13. CASE CreateSellerListing(w)
    BY <1>1, <1>3, <1>13 DEF CreateSellerListing, LegalWrite, ListingWrite
  <1>14. CASE UpdateSellerListingStatus(w)
    BY <1>1, <1>3, <1>14 DEF UpdateSellerListingStatus, LegalWrite, ListingWrite
  <1>15. CASE SetSellerListingPrice(w)
    BY <1>1, <1>3, <1>15 DEF SetSellerListingPrice, LegalWrite, ListingWrite
  <1>16. CASE UpdateSupplierOfferStatus(w)
    BY <1>1, <1>3, <1>16 DEF UpdateSupplierOfferStatus, LegalWrite, SupplierWrite
  <1>17. CASE SetSupplierOfferAvailability(w)
    BY <1>1, <1>3, <1>17 DEF SetSupplierOfferAvailability, LegalWrite, SupplierWrite
  <1>18. CASE UpdateFulfillmentLocationStatus(w)
    BY <1>1, <1>3, <1>18 DEF UpdateFulfillmentLocationStatus, LegalWrite, SupplierWrite
  <1>19. CASE CreateInventorySnapshot(w)
    BY <1>1, <1>3, <1>19 DEF CreateInventorySnapshot, LegalWrite, StockWrite
  <1>20. CASE AdjustInventory(w) \/ ReserveInventory(w)
    BY <1>1, <1>3, <1>20 DEF AdjustInventory, ReserveInventory, LegalWrite, StockWrite
  <1>21. CASE HoldReservation(w) \/ ReturnStock(w)
    BY <1>1, <1>3, <1>21 DEF HoldReservation, ReturnStock, LegalWrite, StockWrite
  <1>22. QED
    BY <1>4, <1>5, <1>6, <1>7, <1>8, <1>9, <1>10, <1>11, <1>12, <1>13, <1>14, <1>15, <1>16,
       <1>17, <1>18, <1>19, <1>20, <1>21 DEF Operations

\* The new links, and the bump.
LEMMA ReplaceLinksStep ==
  ASSUME TransactionInv, NEW w \in Writer, ReplaceLinks(w)
  PROVE  TransactionInv'
  <1>1. /\ phase[w] = "waiting" /\ phase' = [phase EXCEPT ![w] = "written"]
        /\ UNCHANGED <<db, revision, write, todo, held, unseen>>
    BY DEF ReplaceLinks
  <1>3. Counted'
    <2>1. Done' = Done
      BY <1>1 DEF Done, TransactionInv
    <2>2. QED
      BY <1>1, <2>1, CountedStays DEF TransactionInv
  <1>4. \A v \in Writer : WriterInv(v)'
    BY <1>1 DEF TransactionInv, WriterInv
  <1>5. QED
    BY <1>1, <1>3, <1>4 DEF TransactionInv

LEMMA BumpStep ==
  ASSUME TransactionInv, NEW w \in Writer, BumpStorefrontRevisions(w)
  PROVE  TransactionInv'
  <1>1. /\ phase[w] = "written" /\ phase' = [phase EXCEPT ![w] = "bumping"]
        /\ todo' = [todo EXCEPT ![w] = Selected(Apply(db, write[w]), write[w])]
        /\ UNCHANGED <<db, revision, write, held, unseen>>
    BY DEF BumpStorefrontRevisions
  <1>2. LegalWrite(write[w])
    BY <1>1 DEF TransactionInv, WriterInv
  <1>3. Selected(Apply(db, write[w]), write[w]) \subseteq Store
    BY <1>2, SelectedAreStores
  <1>4. Counted'
    <2>1. Done' = Done
      BY <1>1 DEF Done, TransactionInv
    <2>2. QED
      BY <1>1, <2>1, CountedStays DEF TransactionInv
  <1>5. \A v \in Writer : WriterInv(v)'
    BY <1>1, <1>2, <1>3 DEF TransactionInv, WriterInv
  <1>6. QED
    BY <1>1, <1>4, <1>5 DEF TransactionInv

LEMMA LockStep ==
  ASSUME TransactionInv, NEW w \in Writer, LockRevision(w)
  PROVE  TransactionInv'
  <1>1. PICK s \in todo[w] \ held[w] :
          /\ \A v \in Writer : s \notin held[v]
          /\ held' = [held EXCEPT ![w] = @ \cup {s}]
          /\ UNCHANGED <<db, revision, phase, write, todo, unseen>>
    BY DEF LockRevision
  <1>2. /\ held'[w] = held[w] \cup {s}
        /\ \A v \in Writer : v # w => held'[v] = held[v]
    BY <1>1 DEF TransactionInv
  <1>3. Counted'
    <2>1. Done' = Done
      BY <1>1 DEF Done
    <2>2. QED
      BY <1>1, <2>1, CountedStays DEF TransactionInv
  <1>4. ASSUME NEW v \in Writer
        PROVE  WriterInv(v)'
    <2>1. held'[v] \subseteq todo[v]
      BY <1>1, <1>2 DEF TransactionInv, WriterInv
    <2>2. QED
      BY <1>1, <2>1 DEF TransactionInv, WriterInv
  <1>5. ASSUME NEW u \in Writer, NEW v \in Writer, u # v
        PROVE  held'[u] \cap held'[v] = {}
    <2>1. held[u] \cap held[v] = {} /\ s \notin held[u] /\ s \notin held[v]
      BY <1>1, <1>5 DEF TransactionInv
    <2>2. QED
      BY <1>2, <1>5, <2>1
  <1>6. QED
    BY <1>1, <1>3, <1>4, <1>5 DEF TransactionInv

\* A transaction that ends adds one to those done; its commit adds one to the
\* generation of a store at most.
LEMMA EndStep ==
  ASSUME TransactionInv, NEW w \in Writer, phase[w] \in {"waiting", "written", "bumping"},
         End(w), db' \in Database, unseen' \in [Store -> BOOLEAN],
         revision' \in [Store -> Nat],
         \A s \in Store : revision[s] <= revision'[s] /\ revision'[s] <= revision[s] + 1
  PROVE  TransactionInv'
  <1>1. /\ phase' = [phase EXCEPT ![w] = "done"] /\ write' = [write EXCEPT ![w] = NoWrite]
        /\ todo' = [todo EXCEPT ![w] = {}] /\ held' = [held EXCEPT ![w] = {}]
    BY DEF End
  <1>2. Done' = Done \cup {w} /\ w \notin Done
    BY <1>1 DEF TransactionInv, Done
  <1>3. Cardinality(Done') = Cardinality(Done) + 1
    BY <1>2, DoneFinite, FS_AddElement
  <1>4. Counted'
    <2>1. ASSUME NEW s \in Store
          PROVE  1 <= revision'[s] /\ revision'[s] <= 1 + Cardinality(Done')
      <3>1. 1 <= revision[s] /\ revision[s] <= 1 + Cardinality(Done) /\ revision[s] \in Nat
        BY DEF TransactionInv, Counted
      <3>2. revision'[s] \in Nat /\ Cardinality(Done) \in Nat
        BY DoneFinite
      <3>3. QED
        BY <1>3, <3>1, <3>2
    <2>2. QED
      BY <2>1 DEF Counted
  <1>5. ASSUME NEW v \in Writer
        PROVE  WriterInv(v)'
    BY <1>1 DEF TransactionInv, WriterInv
  <1>6. \A u, v \in Writer : u # v => held'[u] \cap held'[v] = {}
    BY <1>1 DEF TransactionInv
  <1>7. QED
    BY <1>1, <1>4, <1>5, <1>6 DEF TransactionInv

LEMMA CommitTransaction ==
  ASSUME TransactionInv, NEW w \in Writer, Commit(w)
  PROVE  TransactionInv'
  <1>1. /\ phase[w] = "bumping" /\ db' = Apply(db, write[w]) /\ revision' = Bumped(w)
        /\ unseen' = [s \in Store |-> /\ s \notin held[w]
                                      /\ unseen[s] \/ Output(db', s) # Output(db, s)]
        /\ End(w)
    BY DEF Commit
  <1>2. db' \in Database
    BY <1>1, Applied DEF TransactionInv, WriterInv
  <1>3. unseen' \in [Store -> BOOLEAN]
    BY <1>1, Zenon
  <1>4. /\ revision' \in [Store -> Nat]
        /\ \A s \in Store : revision[s] <= revision'[s] /\ revision'[s] <= revision[s] + 1
    BY <1>1 DEF Bumped, TransactionInv, Counted
  <1>5. QED
    BY <1>1, <1>2, <1>3, <1>4, EndStep

LEMMA AbortTransaction ==
  ASSUME TransactionInv, NEW w \in Writer, Abort(w)
  PROVE  TransactionInv'
  <1>1. /\ phase[w] \in {"waiting", "written", "bumping"} /\ End(w)
        /\ UNCHANGED <<db, revision, unseen>>
    BY DEF Abort
  <1>2. \A s \in Store : revision[s] <= revision[s] + 1 /\ revision[s] <= revision[s]
    BY DEF TransactionInv, Counted
  <1>3. QED
    BY <1>1, <1>2, EndStep DEF TransactionInv, Counted

\* A step of a reader, and none.
LEMMA ReaderStep ==
  ASSUME TransactionInv, UNCHANGED <<db, revision, writing, unseen>>
  PROVE  TransactionInv'
  <1>1. UNCHANGED <<phase, write, todo, held>>
    BY DEF writing
  <1>2. Done' = Done
    BY <1>1 DEF Done
  <1>3. Counted'
    BY <1>2, CountedStays DEF TransactionInv
  <1>4. \A w \in Writer : WriterInv(w)'
    BY <1>1 DEF TransactionInv, WriterInv
  <1>5. QED
    BY <1>1, <1>3, <1>4 DEF TransactionInv

LEMMA NextTransactions == TransactionInv /\ [Next]_vars => TransactionInv'
  <1> SUFFICES ASSUME TransactionInv, [Next]_vars PROVE TransactionInv'
    OBVIOUS
  <1>1. ASSUME NEW r \in Reader, Resolve(r) \/ ReadLabel(r) \/ ReadPart(r)
        PROVE  TransactionInv'
    BY <1>1, ReaderStep DEF Resolve, ReadLabel, ReadPart
  <1>2. CASE UNCHANGED vars
    BY <1>2, ReaderStep DEF vars
  <1>3. CASE Next
    BY <1>1, <1>3, OperationStep, ReplaceLinksStep, BumpStep, LockStep, CommitTransaction,
       AbortTransaction DEF Next
  <1>4. QED
    BY <1>2, <1>3

\* The bump statement misses a store only when the store comes into reach after it.
LEMMA CommitFinds ==
  ASSUME TransactionInv, NEW w \in Writer, Commit(w), NEW s \in Store,
         Output(db', s) # Output(db, s), write[w].rule # "none"
  PROVE  revision'[s] = revision[s] + 1 \/ s \in Selected(db', write[w]) \ held[w]
  <1>1. db' = Apply(db, write[w]) /\ revision' = Bumped(w) /\ phase[w] = "bumping"
    BY DEF Commit
  <1>2. s \in Selected(db', write[w])
    BY <1>1, SelectorsComplete DEF TransactionInv, WriterInv
  <1>3. s \in held[w] => revision'[s] = revision[s] + 1
    BY <1>1 DEF Bumped
  <1>4. QED
    BY <1>2, <1>3

-----------------------------------------------------------------------------
(* The readers *)

Steps == {"idle", "label", "read", "cached"}

IsSequence(p) == p \in Seq({p[i] : i \in 1..Len(p)})

\* The parts read so far, and what they are worth under the label of the read.
Labelled(r) ==
  LET q == request[r] IN
  /\ label[r] \in Nat
  /\ label[r] <= revision[q.store]
  /\ \A i \in 1..Len(parts[r]) : parts[r][i] # None
  /\ label[r] = revision[q.store] /\ ~unseen[q.store] =>
       \A i \in 1..Len(parts[r]) : parts[r][i] = Part(db, q, Statements[q.page][i])

ReaderInv(r) ==
  /\ IsSequence(parts[r])
  /\ step[r] # "idle" => request[r] \in Request
  /\ step[r] = "label" => Len(parts[r]) = 0
  /\ step[r] = "read" => Len(parts[r]) < Len(Statements[request[r].page])
  /\ step[r] = "cached" => Len(parts[r]) = Len(Statements[request[r].page])
  /\ step[r] \in {"read", "cached"} => Labelled(r)

Typed ==
  /\ revision \in [Store -> Nat]
  /\ step \in [Reader -> Steps]
  /\ DOMAIN request = Reader
  /\ DOMAIN label = Reader
  /\ DOMAIN parts = Reader

Inv == Typed /\ \A r \in Reader : ReaderInv(r)

LEMMA InitInv == Init => Inv
  <1> SUFFICES ASSUME Init PROVE Inv
    OBVIOUS
  <1>1. Typed
    BY DEF Init, Typed, Steps
  <1>2. \A r \in Reader : ReaderInv(r)
    <2>1. IsSequence(<<>>) /\ Len(<<>>) = 0
      BY DEF IsSequence
    <2>2. QED
      BY <2>1 DEF Init, ReaderInv, Steps
  <1>3. QED
    BY <1>1, <1>2 DEF Inv

\* A step that changes neither the rows nor the reader changes nothing about it.
LEMMA Undisturbed ==
  ASSUME Inv, NEW r \in Reader,
         step'[r] = step[r], request'[r] = request[r], label'[r] = label[r],
         parts'[r] = parts[r], UNCHANGED <<db, revision, unseen>>
  PROVE  ReaderInv(r)'
  BY DEF Inv, ReaderInv, Labelled, IsSequence

\* No write disturbs a reader before it commits.
LEMMA WriterStep ==
  ASSUME Inv, UNCHANGED <<db, revision, reading, unseen>>
  PROVE  Inv'
  <1>1. Typed'
    BY DEF Inv, Typed, reading
  <1>2. \A r \in Reader : ReaderInv(r)'
    BY Undisturbed DEF reading
  <1>3. QED
    BY <1>1, <1>2 DEF Inv

\* A commit bumps the store of a reader, records that its output changed
\* unbumped, or leaves its page as it was.
LEMMA CommitStep ==
  ASSUME Inv, NEW w \in Writer, Commit(w)
  PROVE  Inv'
  <1>1. /\ UNCHANGED <<step, request, label, parts>>
        /\ revision' = Bumped(w)
        /\ unseen' = [s \in Store |-> /\ s \notin held[w]
                                      /\ unseen[s] \/ Output(db', s) # Output(db, s)]
    BY DEF Commit, reading
  <1>2. Typed'
    BY <1>1 DEF Inv, Typed, Bumped
  <1>3. ASSUME NEW r \in Reader
        PROVE  ReaderInv(r)'
    <2> DEFINE q == request[r]
               s == q.store
    <2>1. ReaderInv(r)
      BY DEF Inv
    <2>2. ASSUME step[r] \in {"read", "cached"}
          PROVE  Labelled(r)'
      <3>1. q \in Request /\ s \in Store
        BY <2>1, <2>2, RequestFacts DEF ReaderInv
      <3>2. Labelled(r) /\ revision[s] \in Nat
        BY <2>1, <2>2, <3>1 DEF ReaderInv, Inv, Typed
      <3>3. CASE s \in held[w]
        <4>1. revision'[s] = revision[s] + 1
          BY <1>1, <3>1, <3>3 DEF Bumped
        <4>2. label[r] # revision'[s] /\ label[r] <= revision'[s]
          BY <4>1, <3>2 DEF Labelled
        <4>3. QED
          BY <1>1, <3>2, <4>2 DEF Labelled
      <3>4. CASE s \notin held[w]
        <4>1. revision'[s] = revision[s]
          BY <1>1, <3>1, <3>4 DEF Bumped
        <4>2. ASSUME label[r] = revision[s], ~unseen'[s], NEW i \in 1..Len(parts[r])
              PROVE  parts[r][i] = Part(db', q, Statements[q.page][i])
          <5>1. ~unseen[s] /\ Output(db', s) = Output(db, s)
            BY <1>1, <3>1, <3>4, <4>2
          <5>2. Page(db, q) = Page(db', q)
            <6>1. q \in {p \in Request : p.store = s}
              BY <3>1
            <6>2. Output(db, s)[q] = Page(db, q) /\ Output(db', s)[q] = Page(db', q)
              BY <6>1 DEF Output
            <6>3. QED
              BY <5>1, <6>2
          <5>3. \A j \in 1..Len(parts[r]) : parts[r][j] = Part(db, q, Statements[q.page][j])
            BY <3>2, <4>2, <5>1 DEF Labelled
          <5>4. Len(parts[r]) \in Nat
            BY <2>1 DEF ReaderInv, IsSequence
          <5>5. q.page = "product" => Part(db, q, "product") # None
            <6>1. 1 \in 1..Len(parts[r])
              BY <4>2, <5>4
            <6>2. parts[r][1] # None
              BY <3>2, <6>1 DEF Labelled
            <6>3. QED
              BY <5>3, <6>1, <6>2, <3>1, RequestFacts, StatementFacts
          <5>6. i \in DOMAIN Statements[q.page]
            <6>1. Len(parts[r]) <= Len(Statements[q.page])
              BY <2>1, <2>2, <5>4, <3>1, RequestFacts, StatementFacts DEF ReaderInv
            <6>2. QED
              BY <6>1, <5>4, <4>2, <3>1, RequestFacts, StatementFacts
          <5>7. Part(db, q, Statements[q.page][i]) = Part(db', q, Statements[q.page][i])
            BY <5>2, <5>5, <5>6, <3>1, SamePage
          <5>8. QED
            BY <5>3, <5>7, <4>2
        <4>3. QED
          BY <1>1, <3>2, <4>1, <4>2 DEF Labelled
      <3>5. QED
        BY <3>3, <3>4
    <2>3. QED
      BY <1>1, <2>1, <2>2 DEF ReaderInv, IsSequence
  <1>4. QED
    BY <1>2, <1>3 DEF Inv

\* The three steps of a reader; the others do not see them.
LEMMA ResolveStep ==
  ASSUME Inv, NEW r \in Reader, Resolve(r)
  PROVE  Inv'
  <1>1. PICK q \in Request :
          /\ step' = [step EXCEPT ![r] = "label"]
          /\ request' = [request EXCEPT ![r] = q]
          /\ parts' = [parts EXCEPT ![r] = <<>>]
          /\ label' = [label EXCEPT ![r] = 0]
          /\ UNCHANGED <<db, revision, unseen>>
    BY DEF Resolve
  <1>2. Typed'
    BY <1>1 DEF Inv, Typed, Steps
  <1>3. ASSUME NEW p \in Reader
        PROVE  ReaderInv(p)'
    <2>1. CASE p = r
      <3>1. step'[r] = "label" /\ request'[r] = q /\ parts'[r] = <<>>
        BY <1>1 DEF Inv, Typed
      <3>2. IsSequence(<<>>) /\ Len(<<>>) = 0
        BY DEF IsSequence
      <3>3. QED
        BY <2>1, <3>1, <3>2 DEF ReaderInv, IsSequence, Steps
    <2>2. CASE p # r
      BY <1>1, <2>2, Undisturbed DEF Inv, Typed
    <2>3. QED
      BY <2>1, <2>2
  <1>4. QED
    BY <1>2, <1>3 DEF Inv

LEMMA ReadLabelStep ==
  ASSUME Inv, NEW r \in Reader, ReadLabel(r)
  PROVE  Inv'
  <1>1. /\ step[r] = "label"
        /\ label' = [label EXCEPT ![r] = revision[request[r].store]]
        /\ step' = [step EXCEPT ![r] = "read"]
        /\ UNCHANGED <<db, revision, request, parts, unseen>>
    BY DEF ReadLabel
  <1>2. Typed'
    BY <1>1 DEF Inv, Typed, Steps
  <1>3. ASSUME NEW p \in Reader
        PROVE  ReaderInv(p)'
    <2>1. CASE p = r
      <3>1. step'[r] = "read" /\ label'[r] = revision[request[r].store]
        BY <1>1 DEF Inv, Typed
      <3>2. /\ request[r] \in Request
            /\ Len(parts[r]) = 0
            /\ IsSequence(parts[r])
        BY <1>1 DEF Inv, ReaderInv
      <3>3. revision[request[r].store] \in Nat
        BY <3>2, RequestFacts DEF Inv, Typed
      <3>4. Len(Statements[request[r].page]) \in Nat \ {0}
        BY <3>2, RequestFacts, StatementFacts
      <3>5. Labelled(r)'
        BY <1>1, <3>1, <3>2, <3>3 DEF Labelled
      <3>6. QED
        BY <1>1, <2>1, <3>1, <3>2, <3>4, <3>5 DEF ReaderInv, IsSequence, Steps
    <2>2. CASE p # r
      BY <1>1, <2>2, Undisturbed DEF Inv, Typed
    <2>3. QED
      BY <2>1, <2>2
  <1>4. QED
    BY <1>2, <1>3 DEF Inv

LEMMA AppendFacts ==
  ASSUME NEW p, IsSequence(p), NEW x
  PROVE  /\ IsSequence(Append(p, x))
         /\ Len(p) \in Nat
         /\ Len(Append(p, x)) = Len(p) + 1
         /\ Append(p, x)[Len(p) + 1] = x
         /\ \A i \in 1..Len(p) : Append(p, x)[i] = p[i]
  <1> DEFINE S == {p[i] : i \in 1..Len(p)} \cup {x}
             a == Append(p, x)
  <1>1. p \in Seq(S) /\ x \in S
    BY DEF IsSequence
  <1>2. Len(p) \in Nat /\ a \in Seq(S) /\ Len(a) = Len(p) + 1 /\ a[Len(p) + 1] = x
    BY <1>1
  <1>3. \A i \in 1..Len(p) : a[i] = p[i]
    BY <1>1
  <1>4. a \in Seq({a[i] : i \in 1..Len(a)})
    BY <1>2
  <1>5. QED
    BY <1>2, <1>3, <1>4 DEF IsSequence

LEMMA ReadPartStep ==
  ASSUME Inv, NEW r \in Reader, ReadPart(r)
  PROVE  Inv'
  <1> DEFINE q == request[r]
             n == Len(parts[r])
             found == Part(db, q, Statements[q.page][n + 1])
             read == Append(parts[r], found)
  <1>1. /\ step[r] = "read"
        /\ step' = [step EXCEPT ![r] = IF found = None THEN "idle"
                                 ELSE IF Len(read) = Len(Statements[q.page]) THEN "cached"
                                 ELSE "read"]
        /\ parts' = [parts EXCEPT ![r] = IF found = None THEN <<>> ELSE read]
        /\ label' = [label EXCEPT ![r] = IF found = None THEN 0 ELSE label[r]]
        /\ request' = [request EXCEPT ![r] = IF found = None THEN NoRequest ELSE request[r]]
        /\ UNCHANGED <<db, revision, unseen>>
    BY DEF ReadPart
  <1>2. Typed'
    BY <1>1 DEF Inv, Typed, Steps
  <1>3. ASSUME NEW p \in Reader
        PROVE  ReaderInv(p)'
    <2>1. CASE p = r /\ found = None
      <3>1. step'[r] = "idle" /\ parts'[r] = <<>>
        BY <1>1, <2>1 DEF Inv, Typed
      <3>2. IsSequence(<<>>)
        BY DEF IsSequence
      <3>3. QED
        BY <2>1, <3>1, <3>2 DEF ReaderInv, IsSequence, Steps
    <2>2. CASE p = r /\ found # None
      <3>1. /\ step'[r] = IF Len(read) = Len(Statements[q.page]) THEN "cached" ELSE "read"
            /\ parts'[r] = read
            /\ label'[r] = label[r]
            /\ request'[r] = q
        BY <1>1, <2>2 DEF Inv, Typed
      <3>2. /\ q \in Request
            /\ IsSequence(parts[r])
            /\ n < Len(Statements[q.page])
            /\ Labelled(r)
        BY <1>1 DEF Inv, ReaderInv
      <3>3. /\ n \in Nat
            /\ IsSequence(read)
            /\ Len(read) = n + 1
            /\ read[n + 1] = found
            /\ \A i \in 1..n : read[i] = parts[r][i]
        BY <3>2, AppendFacts
      <3>4. Len(Statements[q.page]) \in Nat
        BY <3>2, RequestFacts, StatementFacts
      <3> HIDE DEF q, n, found, read
      <3>5. \A i \in 1..Len(read) : read[i] # None
        BY <2>2, <3>2, <3>3 DEF Labelled, n
      <3>6. label[r] = revision[q.store] /\ ~unseen[q.store] =>
              \A i \in 1..Len(read) : read[i] = Part(db, q, Statements[q.page][i])
        <4> SUFFICES ASSUME label[r] = revision[q.store], ~unseen[q.store],
                            NEW i \in 1..Len(read)
                     PROVE  read[i] = Part(db, q, Statements[q.page][i])
          OBVIOUS
        <4>1. CASE i = n + 1
          BY <4>1, <3>3 DEF found
        <4>2. CASE i \in 1..n
          BY <4>2, <3>2, <3>3 DEF Labelled, n, q
        <4>3. QED
          BY <4>1, <4>2, <3>3
      <3>7. Labelled(r)'
        BY <1>1, <3>1, <3>2, <3>5, <3>6 DEF Labelled, q
      <3>8. QED
        BY <2>2, <3>1, <3>2, <3>3, <3>4, <3>7 DEF ReaderInv, IsSequence, Steps
    <2>3. CASE p # r
      BY <1>1, <2>3, Undisturbed DEF Inv, Typed
    <2>4. QED
      BY <2>1, <2>2, <2>3
  <1>4. QED
    BY <1>2, <1>3 DEF Inv

\* The first statement of a transaction changes no committed row.
LEMMA OperationsWriteNothing ==
  ASSUME NEW w \in Writer, Operations(w)
  PROVE  UNCHANGED <<db, revision, reading, unseen>>
  <1>1. ASSUME NEW table, NEW key, NEW value, NEW rule, NEW id,
               Change(w, table, key, value, rule, id)
        PROVE  UNCHANGED <<db, revision, reading, unseen>>
    BY <1>1 DEF Change
  <1>2. CASE UpdateStoreStatus(w) \/ UpdateStoreProfile(w) \/ PublishTheme(w)
    BY <1>1, <1>2 DEF UpdateStoreStatus, UpdateStoreProfile, PublishTheme
  <1>3. CASE UpdateProductStatus(w) \/ UpdateProduct(w) \/ UpsertProductTranslation(w)
    BY <1>1, <1>3 DEF UpdateProductStatus, UpdateProduct, UpsertProductTranslation
  <1>4. CASE CreateVariant(w) \/ CreateSKU(w)
    BY <1>1, <1>4 DEF CreateVariant, CreateSKU
  <1>5. CASE UpdateCategoryStatus(w) \/ UpdateCategory(w) \/ UpsertCategoryTranslation(w)
    BY <1>1, <1>5 DEF UpdateCategoryStatus, UpdateCategory, UpsertCategoryTranslation
  <1>6. CASE SetProductCategories(w)
    BY <1>6 DEF SetProductCategories
  <1>7. CASE \/ CreateSellerListing(w)
             \/ UpdateSellerListingStatus(w)
             \/ SetSellerListingPrice(w)
    BY <1>1, <1>7 DEF CreateSellerListing, UpdateSellerListingStatus, SetSellerListingPrice
  <1>8. CASE \/ UpdateSupplierOfferStatus(w)
             \/ SetSupplierOfferAvailability(w)
             \/ UpdateFulfillmentLocationStatus(w)
    BY <1>1, <1>8 DEF UpdateSupplierOfferStatus, SetSupplierOfferAvailability,
                      UpdateFulfillmentLocationStatus
  <1>9. CASE CreateInventorySnapshot(w) \/ AdjustInventory(w) \/ ReserveInventory(w)
    BY <1>1, <1>9 DEF CreateInventorySnapshot, AdjustInventory, ReserveInventory
  <1>10. CASE HoldReservation(w) \/ ReturnStock(w)
    BY <1>1, <1>10 DEF HoldReservation, ReturnStock
  <1>11. QED
    BY <1>2, <1>3, <1>4, <1>5, <1>6, <1>7, <1>8, <1>9, <1>10 DEF Operations

LEMMA NextInv == Inv /\ [Next]_vars => Inv'
  <1> SUFFICES ASSUME Inv, [Next]_vars PROVE Inv'
    OBVIOUS
  <1>1. \A w \in Writer : Operations(w) => UNCHANGED <<db, revision, reading, unseen>>
    BY OperationsWriteNothing
  <1>2. ASSUME NEW w \in Writer,
               \/ ReplaceLinks(w)
               \/ BumpStorefrontRevisions(w)
               \/ LockRevision(w)
               \/ Abort(w)
        PROVE  UNCHANGED <<db, revision, reading, unseen>>
    BY <1>2 DEF ReplaceLinks, BumpStorefrontRevisions, LockRevision, Abort
  <1>3. CASE UNCHANGED vars
    <2>1. UNCHANGED <<db, revision, reading, unseen>>
      BY <1>3 DEF vars
    <2>2. QED
      BY <2>1, WriterStep
  <1>4. CASE Next
    BY <1>1, <1>2, <1>4, WriterStep, CommitStep, ResolveStep, ReadLabelStep, ReadPartStep
       DEF Next
  <1>5. QED
    BY <1>3, <1>4

\* A complete entry under the current label of a store whose output did not
\* change unbumped is the page of now.
LEMMA InvServed == Inv => ServedIsCurrent
  <1> SUFFICES ASSUME Inv, NEW r \in Reader, Served(r), ~unseen[request[r].store]
               PROVE  parts[r] = Page(db, request[r])
    BY DEF ServedIsCurrent
  <1> DEFINE q == request[r]
             N == Len(Statements[q.page])
  <1>1. step[r] = "cached" /\ label[r] = revision[q.store]
    BY DEF Served
  <1>2. q \in Request /\ IsSequence(parts[r]) /\ Len(parts[r]) = N /\ Labelled(r)
    BY <1>1 DEF Inv, ReaderInv
  <1>3. N \in Nat \ {0} /\ DOMAIN Statements[q.page] = 1..N
    BY <1>2, RequestFacts, StatementFacts
  <1>4. \A i \in 1..N : parts[r][i] = Part(db, q, Statements[q.page][i]) /\ parts[r][i] # None
    BY <1>1, <1>2 DEF Labelled
  <1>5. Page(db, q) = [i \in 1..N |-> Part(db, q, Statements[q.page][i])]
    <2>1. q.page = "product" => Part(db, q, "product") # None
      BY <1>2, <1>3, <1>4, RequestFacts, StatementFacts
    <2>2. QED
      BY <1>3, <2>1 DEF Page
  <1>6. parts[r] = [i \in 1..N |-> parts[r][i]]
    BY <1>2 DEF IsSequence
  <1>7. QED
    BY <1>4, <1>5, <1>6

-----------------------------------------------------------------------------
(* What holds of every behaviour *)

\* Rows change by commits alone.
LEMMA OnlyCommitsWrite ==
  ASSUME Next, db' # db
  PROVE  \E w \in Writer : Commit(w)
  <1>1. \A w \in Writer : Operations(w) => UNCHANGED db
    BY OperationsWriteNothing
  <1>2. \A w \in Writer :
          ReplaceLinks(w) \/ BumpStorefrontRevisions(w) \/ LockRevision(w) \/ Abort(w)
            => UNCHANGED db
    BY DEF ReplaceLinks, BumpStorefrontRevisions, LockRevision, Abort
  <1>3. \A r \in Reader : Resolve(r) \/ ReadLabel(r) \/ ReadPart(r) => UNCHANGED db
    BY DEF Resolve, ReadLabel, ReadPart
  <1>4. QED
    BY <1>1, <1>2, <1>3 DEF Next

\* storefrontRead labels a page with the revision it read first, so that an
\* entry a downstream cache still serves shows the rows of now in all its
\* parts, unless a write changed its store's output without a bump.
THEOREM ServedIsCurrentCorrect == Spec => []ServedIsCurrent
  <1>1. Spec => []Inv
    BY InitInv, NextInv, PTL DEF Spec
  <1>2. QED
    BY <1>1, InvServed, PTL

\* storefront_revision.go and its callers: a writer's transaction is where its
\* statements put it, holds revisions it found and no other holds, and leaves
\* rows of the schema; a revision counts no more than the transactions done.
THEOREM TypeCorrect == Spec => []TypeOK
  <1>1. Spec => []TransactionInv
    BY InitTransactions, NextTransactions, PTL DEF Spec
  <1>2. Spec => []Inv
    BY InitInv, NextInv, PTL DEF Spec
  <1>3. TransactionInv /\ Inv => TypeOK
    <2> SUFFICES ASSUME TransactionInv, Inv PROVE TypeOK
      OBVIOUS
    <2>1. \A s \in Store : revision[s] \in 1..(1 + Cardinality(Writer))
      BY DoneFinite DEF TransactionInv, Counted
    <2>2. phase \in [Writer -> {"new", "waiting", "written", "bumping", "done"}]
      BY DEF TransactionInv
    <2>3. step \in [Reader -> {"idle", "label", "read", "cached"}]
      BY DEF Inv, Typed, Steps
    <2>4. QED
      BY <2>1, <2>2, <2>3 DEF TransactionInv, WriterInv, TypeOK
  <1>4. QED
    BY <1>1, <1>2, <1>3, PTL

\* bumpStorefrontRevisions: a commit that changes what a store shows bumps the
\* store, unless it is an order's stock movement or the store came into reach
\* of the write after the bump statement had looked.
THEOREM OnlyLateStoresAreMissedCorrect == Spec => OnlyLateStoresAreMissed
  <1> DEFINE A == \A w \in Writer, s \in Store :
                    phase[w] = "bumping" /\ phase'[w] = "done" /\ Output(db', s) # Output(db, s) =>
                      \/ revision'[s] = revision[s] + 1
                      \/ write[w].rule = "none"
                      \/ s \in Selected(db', write[w]) \ held[w]
  <1>1. Spec => []TransactionInv
    BY InitTransactions, NextTransactions, PTL DEF Spec
  <1>2. TransactionInv /\ [Next]_vars => [A]_vars
    <2> SUFFICES ASSUME TransactionInv, Next, NEW w \in Writer, NEW s \in Store,
                        phase[w] = "bumping", phase'[w] = "done",
                        Output(db', s) # Output(db, s)
                 PROVE  \/ revision'[s] = revision[s] + 1
                        \/ write[w].rule = "none"
                        \/ s \in Selected(db', write[w]) \ held[w]
      OBVIOUS
    <2>1. PICK v \in Writer : Commit(v)
      <3>1. db' # db
        OBVIOUS
      <3>2. QED
        BY <3>1, OnlyCommitsWrite
    <2>2. v = w
      BY <2>1 DEF Commit, End, TransactionInv
    <2>3. QED
      BY <2>1, <2>2, CommitFinds
  <1>3. QED
    BY <1>1, <1>2, PTL DEF Spec, OnlyLateStoresAreMissed
=============================================================================
