\* Two requests side by side; the store outgrows a page with the second.
CONSTANTS
  r1 = r1
  r2 = r2
  f1 = f1
  f2 = f2
  f3 = f3
  e1 = e1
  NoEdge = NoEdge
  Requests = {r1, r2}
  Past = 2
  Facts = {f1, f2, f3}
  Extractions <- MCExtractions
  Edges = {e1}
  EdgeOf <- MCEdgeOf
  PageSize = 3
  HistoryLimit = 2
  MaxRecent = 1
  MaxErrors = 2
SPECIFICATION Spec
SYMMETRY MCSymmetry
INVARIANTS
  TypeOK
  RecallComplete
  MemoryTruthful
  FactsAllOrNone
  RecentIsNewest
\* Requests end.
CHECK_DEADLOCK FALSE
