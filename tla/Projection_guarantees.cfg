SPECIFICATION FairSpec
CONSTANTS
  w1 = w1
  w2 = w2
  c1 = c1
  Writer = {w1, w2}
  Restarting = {w2}
  Client = {c1}
  KeepSnapshots = 1
  PruneLog = TRUE
  MaxCommits = 3
  MaxUpsets = 1
  NoTail = NoTail
  NoFile = NoFile
INVARIANTS
  TypeOK
  EveryFileIsAFold
  Recoverable
PROPERTIES
  OnlyForward
  CatchesUp
