SPECIFICATION Spec
CONSTANTS
  v1 = v1  v2 = v2  v3 = v3  c1 = c1  c2 = c2  m1 = m1  i1 = i1  r1 = r1  r2 = r2
  None = None
  Revisions = {v1, v2, v3}
  Ipcs = {c1, c2}
  Measurements = {m1}
  Items = {i1}
  Requests = {r1, r2}
CHECK_DEADLOCK FALSE
PROPERTIES NoActivityAfterEnd
