CONSTANTS
  Clients = {c1, c2, c3}
  Signals = {s1}
  Managers = {m1, m2}
  Host = host
  MAX_BUFFER_SIZE = 2
  PipeCapacity = 2
  NoMsg = noMsg
  NoThread = noThread
SPECIFICATION FairSpec
INVARIANTS TypeOK LockDiscipline RingConsistent HostNotForgotten ManagersNotForgotten
PROPERTIES TakenOnceInOrder EveryClientAttended
CHECK_DEADLOCK FALSE
