SPECIFICATION ProjectsSpec
CONSTANTS
  b1 = b1  b2 = b2  r1 = r1  r2 = r2  c1 = c1  c2 = c2  e1 = e1  a1 = a1  a2 = a2  q1 = q1  q2 = q2  t1 = t1  t2 = t2  t3 = t3  p1 = p1  x1 = x1  s1 = s1  s2 = s2
  m1 = m1  m2 = m2  w1 = w1  n1 = n1  n2 = n2  h1 = h1  g1 = g1  i1 = i1  o1 = o1  o2 = o2  o3 = o3
  None = None
  BudgetItems = {b1, b2}
  BudgetRevisions = {r1, r2}
  ChangeOrders = {c1, c2}
  Expenses = {e1}
  Alerts = {a1, a2}
  ControlRequests = {q1, q2}
  Amounts = {5, 6}
  ScheduleTasks = {t1, t2, t3}
  PunchItems = {p1}
  Entries = {x1}
  SiteRequests = {s1, s2}
  PayPeriods = {m1, m2}
  Employees = {w1}
  Allocations = {n1, n2}
  Clerks = {q1, q2}
  Windows <- TwoDays
  Nets = {1, 2}
  Whole = 2
  WorkPeriods = {h1}
  Snapshots = {g1}
  Nitaqat = {}
  Gosi = {i1}
  Exceptions = {x1}
  ReportRequests = {q1, q2}
  Heads = {0, 1}
  Themes = {"orders", "items", "alerts", "snapshots", "deletion", "schedule", "punch", "pay", "dates", "counts", "verification", "exceptions", "onboarding"}
  Together = 1
  Officers = {o1, o2, o3}
  Asked = {"csr", "confirm_compliance", "confirm_production", "credential", "clear", "deactivate",
           "verify", "compliance_csid", "invoice", "onboard", "renew"}
SYMMETRY Symmetric
CHECK_DEADLOCK FALSE
INVARIANTS BudgetTotalAccounted ScheduleAcyclic CountsAddUp PointerResolves CertificateFitsKey
PROPERTIES HistoryNeverDestroyed ReviewedIsFixed
