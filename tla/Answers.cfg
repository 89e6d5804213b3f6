SPECIFICATION AnswersSpec
CONSTANTS
  p1 = p1  p2 = p2  p3 = p3  None = None
  Requests <- TwoRequests
  BodyOf <- MCBodyOf
  Faults <- LocalFaults
  LeaseTicks = 3
  HeartbeatTicks = 1
  MaxMissed = 1
  ClaimAttempts = 2
  PollAttempts = 1
  qA = qA  qB = qB  iA = iA  r1 = r1  r2 = r2  r3 = r3  r4 = r4
  Quotes = {qA, qB}
  Invoices = {iA}
  SalesRequests = {r1, r2, r3, r4}
  PoolSize = 2
  SalesFaults = TRUE
CHECK_DEADLOCK FALSE
INVARIANTS NumbersUnique ShownStays OneDecision
PROPERTIES EveryRequestAnswered EveryRequestEnds
