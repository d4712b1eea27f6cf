SPECIFICATION FairSpec
CONSTANTS
  p1 = p1
  p2 = p2
  t1 = t1
  t2 = t2
  t3 = t3
  a1 = a1
  Procs = {p1, p2}
  Requests = {t1, t2}
  Admins = {a1}
  ProcOf <- TwoProcesses
  Uids = {7}
  NoUid = NoUid
  NoThread = NoThread
  Disruptions = {"refuse", "network", "cache", "slow", "crash"}
INVARIANTS
  OneFlightPerProcess
PROPERTIES
  NoAuthenticateWithUid
  RequestsEnd
CHECK_DEADLOCK FALSE
