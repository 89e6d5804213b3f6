SPECIFICATION Spec
CONSTANTS
  r1 = r1  r2 = r2  b1 = b1  b2 = b2  s1 = s1  s2 = s2  s3 = s3  c1 = c1  c2 = c2
  None = None
  Themes = {"transfer", "forms", "screens"}
  Requests = {r1, r2}
  Bodies = {b1, b2}
  Sends = {s1, s2, s3}
  MaxAttempts = 2
  MaxKeys = 2
  InUse <- AllForms
  ClaimsLost = TRUE
  Clicks = {c1, c2}
  MaxElsewhere = 1
SYMMETRY Symmetry
CHECK_DEADLOCK FALSE
INVARIANTS ArrivesWhole KnownFailures OneRecordUnlessRedrawn UpToDateOffersAccepted ShowsWhatItDid
