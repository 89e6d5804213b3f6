CONSTANTS
  p1 = p1  p2 = p2  p3 = p3  None = None
  Requests <- MCRequests
  BodyOf <- MCBodyOf
  Faults <- LocalFaults
  LeaseTicks = 3
  HeartbeatTicks = 1
  MaxMissed = 1
  ClaimAttempts = 2
  PollAttempts = 1
SPECIFICATION Spec
CHECK_DEADLOCK FALSE
SYMMETRY Callers
INVARIANTS LiveLeaderKeepsClaim OneDocument
PROPERTIES KeepsPromise
