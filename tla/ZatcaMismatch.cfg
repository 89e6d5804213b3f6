SPECIFICATION Spec
CONSTANTS
  i1 = i1  i2 = i2  p1 = p1  p2 = p2  p3 = p3
  s1 = s1  s2 = s2  s3 = s3  id1 = id1  id2 = id2
  None = None
  Preparers = {p1}
  Invoices = {i1}
  Submitters = {s1, s2, s3}
  Identities = {id1, id2}
  Faults = {}
  MaxEdits = 2
  MaxClock = 0
CHECK_DEADLOCK FALSE
INVARIANTS OneCallInFlight
