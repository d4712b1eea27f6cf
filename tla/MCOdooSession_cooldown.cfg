SPECIFICATION Spec
CONSTANTS
  p1 = p1
  p2 = p2
  t1 = t1
  t2 = t2
  t3 = t3
  a1 = a1
  Procs = {p1}
  Requests = {t1, t2}
  Admins = {}
  ProcOf <- OneProcess
  Uids = {7}
  NoUid = NoUid
  NoThread = NoThread
  Disruptions = {}
PROPERTIES
  CooldownHonoured
CHECK_DEADLOCK FALSE
