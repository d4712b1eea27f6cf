SPECIFICATION Spec
CONSTANTS
  p1 = p1
  p2 = p2
  t1 = t1
  t2 = t2
  t3 = t3
  a1 = a1
  Procs = {p1, p2}
  Requests = {t1, t3}
  Admins = {a1}
  ProcOf <- TwoProcesses
  Uids = {7, 8}
  NoUid = NoUid
  NoThread = NoThread
  Disruptions = {"refuse", "recreate", "expire", "network", "crash"}
INVARIANTS
  TypeOK
  NoLoop
  OneFlightAcrossProcesses
PROPERTIES
  CooldownNeedsRefusal
CHECK_DEADLOCK FALSE
