SPECIFICATION Spec
CONSTANTS
  c1 = c1  c2 = c2
  s1 = s1  s2 = s2  s3 = s3
  t1 = t1  t2 = t2  w1 = w1  w2 = w2
  q1 = q1  q2 = q2
  Store = {t1}
  Cart = {c1, c2}
  Session = {s1, s2, s3}
  Listing = {1, 2}
  Snapshot = {1, 2}
  Token = {}
  Request = {q1, q2}
  Worker = {}
  CartStore <- OneStore
  SessionCart <- SharedCart
  Eligible <- Overlapping
  InitialStock <- TwoOnOne
  MaxLineQuantity = 2
  SessionLifetime = 1
  ConfirmationDuration = 1
  BatchSize = 1
  NoFingerprint = NoFingerprint
  MaxClock = 1
  Adjustments <- NoAdjustment
  MaxOnHand = 2
INVARIANTS
  OneOrderPerCart
  NumbersGapless
  AnswersMatchOrder
PROPERTIES
  AcceptedCartFrozen
CHECK_DEADLOCK FALSE
