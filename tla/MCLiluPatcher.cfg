SPECIFICATION MCSpec
CONSTANTS
  Plugins = {p1, p2, p3, p4}
  Keeping = {p1, p2, p3}
  Callers = {c1, c2}
  Original = org
  Null = null
  Orderly = TRUE
  Clients = {k1, k2, k3}
  N = 2
  Addresses = {4, 5, 7}
  KextStart = 4
  Size = 3
  Forces = {TRUE, FALSE}
INVARIANTS NoNullCall EveryHookRuns RegisteredStays 
PROPERTIES  CallsEnd 
