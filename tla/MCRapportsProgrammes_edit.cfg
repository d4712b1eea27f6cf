SPECIFICATION Spec
CONSTANTS
  r1 = r1
  r2 = r2
  u1 = u1
  w1 = w1
  w2 = w2
  e1 = e1
  Reports = {r1}
  Users = {u1}
  Workers = {w1, w2}
  Editors = {e1}
  Frequencies = {1}
  Broken = {}
  NoReport = NoReport
  NoUser = NoUser
  NoRow = NoRow
  EditsOverlap = TRUE
  Disruptions = {}
  MaxFaults = 0
  MaxNow = 2
  MaxEdits = 1
INVARIANTS
  OneMailPerEcheance
