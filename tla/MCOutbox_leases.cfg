SPECIFICATION Spec
CONSTANTS
  e1 = e1  e2 = e2  e3 = e3
  p1 = p1  p2 = p2
  None = None
  Orphan = Orphan
  Event = {e1, e2}
  Malformed = {e2}
  Publisher = {p1, p2}
  Lease = 2
  Margin = 1
  ConfirmTimeout = 1
  BatchSize = 2
  BackoffCap = 1
SYMMETRY PublisherSymmetry
INVARIANTS
  TypeOK
  OverlapOnlyAfterLease
  ClaimsAreWorkedOn
PROPERTIES
  ForeignClaimsUntouched
  ImplementsDelivery
