CONSTANTS
  a = a
  b = b
  c = c
  v1 = v1
  v2 = v2
  Keys <- TwoKeys
  hash <- TwoHash
  Values = {v1, v2}
  TABLE_SIZE = 2
  Missing = missing
  Fds = {f1}
  Jobs = {j1}
  Managers = {m1}
  JobCommands <- DisconnectCommands
  NotifCapacity = 1
  MaxSubscribers = 1
  NoThread = noThread
  NoFd = noFd
  NoCommand = noCommand
  NoNotif = noNotif
SPECIFICATION Spec
INVARIANTS DisconnectForgets
