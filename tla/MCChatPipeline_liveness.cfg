\* A client that sends a prompt and a ping, and one whose line ends its session.
CONSTANTS
  s1 = s1
  s2 = s2
  r1 = r1
  r2 = r2
  r3 = r3
  Sessions = {s1, s2}
  Requests = {r1, r2, r3}
  Owner <- MCTwoOwners
  NoRequest = NoRequest
  KindsOf <- MCOneOfEach
  RecursionLimit = 3
SPECIFICATION FairSpec
PROPERTIES
  PipelineSettles
  InboxServed
  DisconnectNoticed
\* Once every session has ended there is nothing left to do.
CHECK_DEADLOCK FALSE
