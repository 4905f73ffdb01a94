\* Two connected servers: what shutdown leaves running.
CONSTANTS
  m1 = m1
  m2 = m2
  t1 = t1
  t2 = t2
  c1 = c1
  c2 = c2
  Servers = {m1, m2}
  Config <- MCConfig
  Tools = {t1, t2}
  Offers <- MCOffers
  Calls = {c1, c2}
  NoServer = NoServer
SPECIFICATION Spec
INVARIANTS
  AllStopped
\* A manager that has stopped, or could not start, is done.
CHECK_DEADLOCK FALSE
