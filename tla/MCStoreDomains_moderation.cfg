SPECIFICATION FairSpec
CONSTANTS
  p = p  c1 = c1  c2 = c2  t = t
  s1 = s1  s2 = s2  s3 = s3
  Domain = {p, c1, c2}
  Platform = {p}
  Store = {t}
  StoreOf <- OneStore
  Session = {s1, s2, s3}
  Seller = {s1, s2}
  Admin = {s2, s3}
  None = None
INVARIANTS
  TypeOK
  PrimaryIsServed
  DeadlocksNeedDisable
PROPERTIES
  ModerationHolds
  HostHandedOver
  EveryCallReturns
