SPECIFICATION Spec
CONSTANTS
  c1 = c1  c2 = c2
  s1 = s1  s2 = s2  s3 = s3
  t1 = t1  t2 = t2  w1 = w1  w2 = w2
  q1 = q1  q2 = q2
  Store = {t1}
  Cart = {c1, c2}
  Session = {s1, s3}
  Listing = {1, 2}
  Snapshot = {1, 2}
  Token = {k1}
  Request = {q1}
  Worker = {w1}
  CartStore <- OneStore
  SessionCart <- OwnCarts
  Eligible <- Overlapping
  InitialStock <- TwoOnOne
  MaxLineQuantity = 1
  SessionLifetime = 1
  ConfirmationDuration = 1
  BatchSize = 1
  NoFingerprint = NoFingerprint
  MaxClock = 1
  Adjustments <- RestockOrShrink
  MaxOnHand = 2
INVARIANTS
  TypeOK
  ReservedIsHeld
  StockCovered
  LedgerExplainsStock
  OrdersCanSettle
