SPECIFICATION FairSpec
CONSTANTS
  r1 = r1
  r2 = r2
  u1 = u1
  w1 = w1
  w2 = w2
  e1 = e1
  Reports = {r1, r2}
  Users = {u1}
  Workers = {w1, w2}
  Editors = {e1}
  Frequencies = {1, 2}
  Broken = {r2}
  NoReport = NoReport
  NoUser = NoUser
  NoRow = NoRow
  EditsOverlap = FALSE
  Disruptions = {"smtp", "crash"}
  MaxFaults = 1
  MaxNow = 2
  MaxEdits = 1
INVARIANTS
  TypeOK
  OneMailPerEcheance
  NoOptimisticTrace
PROPERTIES
  DueIsTaken
