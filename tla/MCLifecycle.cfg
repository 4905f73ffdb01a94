\* Two clients, and Ctrl-C up to the point where it breaks the shutdown off.
CONSTANTS
  c1 = c1
  c2 = c2
  Clients = {c1, c2}
  MaxInterrupts = 3
SPECIFICATION FairSpec
INVARIANTS
  TypeOK
  CleanExit
  ClientsServed
PROPERTIES
  StopsInReverse
  ShutdownEnds
\* A process whose run is over is done.
CHECK_DEADLOCK FALSE
