\* One session: what its client hears of a failed request.
CONSTANTS
  s1 = s1
  s2 = s2
  r1 = r1
  r2 = r2
  r3 = r3
  Sessions = {s1}
  Requests = {r1, r2}
  Owner <- MCOneOwner
  NoRequest = NoRequest
  KindsOf <- MCAnyKind
  RecursionLimit = 5
SPECIFICATION Spec
INVARIANTS
  FailureReported
\* Once every session has ended there is nothing left to do.
CHECK_DEADLOCK FALSE
