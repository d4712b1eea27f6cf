SPECIFICATION Spec
CONSTANTS
  w1 = w1
  w2 = w2
  t1 = t1
  t2 = t2
  a1 = a1
  Procs = {w1}
  Callers = {t1}
  Admins = {a1}
  ProcOf <- OneWorker
  Tokens = {k1, k2, k3}
  k1 = k1
  k2 = k2
  k3 = k3
  k4 = k4
  k5 = k5
  NoToken = NoToken
  NoThread = NoThread
  Disruptions = {}
  MaxFaults = 0
  Mixed = TRUE
PROPERTIES
  ServiceAccountKept
