SPECIFICATION Spec
CONSTANTS
  m1 = m1  m2 = m2  c1 = c1  c2 = c2  r1 = r1  r2 = r2
  None = none
  Measurements = {m1, m2}
  Ipcs = {c1, c2}
  Items = {1, 2}
  Quantity <- TwoAndOne
  MaxLines = 1
  Requests = {r1, r2}
  Retentions = {5, 10}
SYMMETRY Symmetric
CHECK_DEADLOCK FALSE
INVARIANTS CertifiedWithinApproved SnapshotsStack NoDeadlock
PROPERTIES RetentionIsCurrent
