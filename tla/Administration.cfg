SPECIFICATION Spec
CONSTANTS
  u1 = u1  u2 = u2  s1 = s1  s2 = s2  t1 = t1  i1 = i1  c1 = c1  c2 = c2  j1 = j1  f1 = f1
  n1 = n1  n2 = n2  e1 = e1  e2 = e2  d1 = d1  o1 = o1  o2 = o2  o3 = o3  l1 = l1  l2 = l2
  x1 = x1  x2 = x2  g1 = g1  k1 = k1  h1 = h1  v1 = v1  v2 = v2  r1 = r1  r2 = r2  r3 = r3
  p1 = p1  p2 = p2  q1 = q1
  None = None
  Parts = {"accounts", "documents", "operators", "flags", "incidents", "plans", "tax"}
  Users = {u1, u2}
  Sessions = {s1}
  Resets = {t1}
  Invites = {i1}
  Changes = {c1, c2}
  Joins = {j1}
  Files = {f1}
  Clients = {n1}
  PortalSessions = {e1}
  Readers = {d1}
  MaxSignups = 1
  Operators = {o1, o2, o3}
  Logins = {l1, l2}
  Transfers = {x1, x2}
  Support = {g1}
  Looks = {k1}
  Uses = {h1}
  Overrides = {v1, v2}
  Reports = {r1, r2, r3}
  Patches = {p1, p2}
  Limits = {1, 2}
  Countries = {"SA", "MA"}
  Days = {20200801, 20260201, 20260301}
  Rates = {9}
  TaxOverrides = {c1, c2}
  Calculations = {q1}
  MaxSwitches = 2
SYMMETRY Symmetric
CHECK_DEADLOCK FALSE
INVARIANTS CheckedKeepsOwner ResetEndsSessions RestoredRowsHaveBytes OneOwner CountriesNotMixed
PROPERTIES OtherCountryUntouched
