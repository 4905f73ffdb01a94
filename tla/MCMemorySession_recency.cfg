\* One request that recalls three episodes and shows two of them.
CONSTANTS
  r1 = r1
  r2 = r2
  f1 = f1
  f2 = f2
  f3 = f3
  e1 = e1
  NoEdge = NoEdge
  Requests = {r1}
  Past = 4
  Facts = {f1, f2, f3}
  Extractions <- MCExtractions
  Edges = {e1}
  EdgeOf <- MCEdgeOf
  PageSize = 5
  HistoryLimit = 3
  MaxRecent = 2
  MaxErrors = 1
SPECIFICATION Spec
INVARIANT MostRecentShown
CHECK_DEADLOCK FALSE
