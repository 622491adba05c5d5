SPECIFICATION Spec
CONSTANTS
  s1 = s1  s2 = s2  p = p  v = v  o = o  m = m  here = here  there = there
  n1 = n1  n2 = n2  a = a  b = b  w1 = w1  w2 = w2  r = r
  None = None
  Store = {s1, s2}
  Product = {p}
  Category = {1, 2}
  Variant = {v}
  Listing = {1, 2, 3}
  Offer = {o}
  Location = {here, there}
  Snapshot = {n1, n2}
  ProductOf <- Products
  StoreOf <- ListingStores
  OfferOf <- Offers
  Owner <- Owners
  VariantOf <- Variants
  At <- Places
  Text = {a, b}
  Writer = {w1, w2}
  Reader = {r}
  Traffic <- Loads
  Seed <- Catalogues
SYMMETRY Symmetry
INVARIANTS
  TypeOK
  ServedIsCurrent
PROPERTIES
  OnlyLateStoresAreMissed
CHECK_DEADLOCK FALSE
