CONSTANTS
  a = a
  b = b
  c = c
  v1 = v1
  v2 = v2
  Keys <- OneKey
  hash <- OneHash
  Values = {v1, v2}
  TABLE_SIZE = 1
  Missing = missing
  Fds = {f1}
  Jobs = {j1}
  Managers = {m1}
  JobCommands <- LiveCommands
  NotifCapacity = 1
  MaxSubscribers = 1
  NoThread = noThread
  NoFd = noFd
  NoCommand = noCommand
  NoNotif = noNotif
SPECIFICATION FairSpec
PROPERTIES CommandEnds
