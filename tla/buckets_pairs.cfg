SPECIFICATION MCSpec
CONSTANTS
  t1 = t1
  t2 = t2
  A = A
  B = B
  C = C
  Jobs = {t1, t2}
  k1 = k1
  k2 = k2
  k3 = k3
  Keys = {k1, k2, k3}
  rank <- MCRank
  Values = {"v", "w"}
  Missing = Missing
  TABLE_SIZE = 2
  hash <- MCHash
  Commands <- MCCommands
  max_backup = 1
  MaxBackups = 3
  JobFiles = {A, B, C}
  MAX_JOB_FILES = 2
  NoFile = NoFile
  NoThread = NoThread
  NoCommand = NoCommand
INVARIANTS WritesItsPairs
CHECK_DEADLOCK FALSE
