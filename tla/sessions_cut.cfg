CONSTANTS
  Clients = {p1, p2}
  Ids = {A, B}
  Managers = {m1, m2}
  MaxFd = 6
  MaxDeaths = 0
  MaxRequests = 0
  MaxSignals = 0
  Nobody = nobody
  Free = free
SPECIFICATION Spec
CHECK_DEADLOCK FALSE
INVARIANTS ConnectedIsServed
