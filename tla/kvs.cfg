CONSTANTS
  a = a
  b = b
  c = c
  v1 = v1
  v2 = v2
  Keys <- MCKeys
  hash <- MCHash
  Values = {v1, v2}
  TABLE_SIZE = 2
  Missing = missing
  Fds = {f1}
  Jobs = {j1, j2}
  Managers = {m1}
  JobCommands <- AllCommands
  NotifCapacity = 1
  MaxSubscribers = 2
  NoThread = noThread
  NoFd = noFd
  NoCommand = noCommand
  NoNotif = noNotif
SPECIFICATION MCSpec
INVARIANTS TypeOK LockProtectsTable TableWellFormed ToldCurrentValue
PROPERTIES CommandsAtomic CommandEndsUnlessLeaked
