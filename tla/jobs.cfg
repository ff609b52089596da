CONSTANTS
  f1 = f1
  f2 = f2
  f3 = f3
  Jobs = {j1, j2}
  max_backups = 1
  Files = {f1, f2, f3, other}
  JobFiles = {f1, f2, f3}
  BlockSize = 2
  MaxBackups = 1
  MaxSignals = 1
  NoThread = noThread
  NoFile = noFile
SPECIFICATION MCSpec
INVARIANTS TypeOK EachJobOnce OwnFile NoJobForgotten ChildrenBounded BackupNamedUnlessRefilled
PROPERTIES BackupEndsUnlessLeaked ThreadsEndUnlessLeaked
