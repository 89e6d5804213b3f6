SPECIFICATION Spec
CONSTANTS
  Commitments = {k1, k2}
  Ipcs = {i1, i2}
  Lines = {l1, l2}
  Linked = {k1}
  Subcontracts = {k2}
  Amount <- TwoEach
  MaxAmount = 2
  Ceiling <- OneEach
  MaxClaim = 1
  Rates = {low, high}
  Terms <- SubcontractTerms
  Requests = {r1, r2}
  None = None
SYMMETRY Symmetry
INVARIANTS RevisedIsSum CertifiedWithinCommitted
PROPERTIES SubmittedIsFixed
