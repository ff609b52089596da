CONSTANTS
  p1 = p1
  p2 = p2
  p3 = p3
  A = A
  B = B
  C = C
  Clients = {p1, p2, p3}
  Ids = {A, B, C}
  Managers = {m1, m2}
  MaxFd = 6
  MaxDeaths = 1
  MaxRequests = 1
  MaxSignals = 1
  Nobody = nobody
  Free = free
SPECIFICATION MCSpec
INVARIANTS TypeOK OnlyReuseOrSignalStopsServer NoDescriptorLeak
CHECK_DEADLOCK FALSE
PROPERTIES ConnectEnds
