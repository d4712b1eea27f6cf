SPECIFICATION Spec
CONSTANTS
  Workers = {w1, w2}
  Sites = {s1}
  MaxDay = 1
  MaxVersion = 1
  MaxRuns = 2
  Disruptions = {}
INVARIANT IncompleteUnknown
CHECK_DEADLOCK FALSE
