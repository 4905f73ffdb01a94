\* One session, two envelopes of any kind, one round of tools.
CONSTANTS
  s1 = s1
  s2 = s2
  r1 = r1
  r2 = r2
  r3 = r3
  Sessions = {s1}
  Requests = {r1, r2}
  Owner <- MCOneOwner
  NoRequest = NoRequest
  KindsOf <- MCAnyKind
  RecursionLimit = 5
SPECIFICATION Spec
SYMMETRY MCSymmetry
INVARIANTS
  TypeOK
  OnePipelinePerSession
  WireFollowsScript
  RepliesRemembered
  OneOutcome
PROPERTIES
  ImplementsService
\* Once every session has ended there is nothing left to do.
CHECK_DEADLOCK FALSE
