------------------------- MODULE MCStorefrontCache -------------------------
(***************************************************************************)
(* An instance of StorefrontCache small enough for TLC.  Two stores list   *)
(* one product: s1 from its own stock (listing 1) and, later, from the     *)
(* supplier m (listing 3); s2 from the supplier (listing 2).  Category 2   *)
(* is below category 1 and holds the product.                              *)
(***************************************************************************)
EXTENDS StorefrontCache, TLC

CONSTANTS s1, s2, p, v, o, m, here, there, n1, n2, a, b, w1, w2, r

Products == 1 :> p @@ 2 :> p @@ 3 :> p @@ v :> p
ListingStores == 1 :> s1 @@ 2 :> s2 @@ 3 :> s1
Offers == 1 :> None @@ 2 :> o @@ 3 :> o
Owners == o :> m @@ here :> s1 @@ there :> m
Variants == n1 :> v @@ n2 :> v
Places == n1 :> here @@ n2 :> there

Shop ==
  [store |-> [s \in Store |-> [text |-> a, active |-> TRUE]],
   theme |-> [s \in Store |-> a],
   product |-> p :> [slug |-> a, active |-> TRUE],
   words |-> p :> a,
   variant |-> v :> "sku",
   link |-> p :> {2},
   category |-> 1 :> [slug |-> a, active |-> TRUE, parent |-> None]
             @@ 2 :> [slug |-> a, active |-> TRUE, parent |-> 1],
   label |-> [c \in Category |-> a],
   listing |-> 1 :> "active" @@ 2 :> "active" @@ 3 :> "absent",
   price |-> 1 :> a @@ 2 :> a @@ 3 :> None,
   offer |-> o :> TRUE,
   available |-> o :> TRUE,
   location |-> here :> TRUE @@ there :> TRUE,
   stock |-> n1 :> "some" @@ n2 :> "some"]

\* The product is listed and has no SKU, no stock and no category yet.
Fresh == [Shop EXCEPT !.variant[v] = "absent", !.link[p] = {},
                      !.stock = [n \in Snapshot |-> "absent"]]

\* s1 sells from the supplier, its own stock being gone.
Imported == [Shop EXCEPT !.listing[3] = "active", !.price[3] = b, !.stock[n1] = "none"]

Catalogues == {Shop, Fresh, Imported}

All == {"store", "product", "variant", "category", "link", "listing", "supplier",
        "stock", "order"}

\* Any two writes together; each page under the writes its parts depend on.
Loads ==
  {[writes |-> All, pages |-> {}],
   [writes |-> {"store"}, pages |-> {"bootstrap"}],
   [writes |-> {"link", "product"}, pages |-> {"categories"}],
   [writes |-> {"listing", "supplier"}, pages |-> {"browse"}],
   [writes |-> {"product", "variant", "stock", "order"}, pages |-> {"product"}]}

\* A product page while orders take and return stock.
Orders == {[writes |-> {"order"}, pages |-> {"product"}]}

Symmetry == Permutations({w1, w2})
=============================================================================
