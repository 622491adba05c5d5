SPECIFICATION PromptSpec
CONSTANTS
  e1 = e1  e2 = e2  e3 = e3
  p1 = p1  p2 = p2
  None = None
  Orphan = Orphan
  Event = {e1, e2, e3}
  Malformed = {}
  Publisher = {p1}
  Lease = 4
  Margin = 1
  ConfirmTimeout = 3
  BatchSize = 3
  BackoffCap = 0
INVARIANTS
  BatchKeepsLeases
