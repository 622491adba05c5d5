SPECIFICATION FairSpec
CONSTANTS
  s1 = s1  s2 = s2  c1 = c1  c2 = c2
  o1 = o1  t1 = t1  t2 = t2  p1 = p1
  x1 = x1  x2 = x2  x3 = x3
  None = None
  Session = {s1, s2}
  Cart = {c1, c2}
  Order = {o1}
  Snapshot = {1, 2, 3}
  Reservation = {1, 2}
  Store = {t1, t2}
  Product = {p1}
  Tx = {x1, x2, x3}
  CartOf <- Carts
  StoreOf <- Stores
  Candidates <- Sources
  Ordered <- Goods
  Items <- Lines
  SnapshotOf <- Places
  Publishers <- Shown
  Listers <- Catalog
INVARIANTS
  TypeOK
  
  
PROPERTIES
  EveryTransactionEnds
