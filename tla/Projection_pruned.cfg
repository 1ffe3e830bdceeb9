SPECIFICATION Spec
CONSTANTS
  w1 = w1
  w2 = w2
  c1 = c1
  Writer = {w1, w2}
  Restarting = {w2}
  Client = {c1}
  KeepSnapshots = 1
  PruneLog = TRUE
  MaxCommits = 2
  MaxUpsets = 0
  NoTail = NoTail
  NoFile = NoFile
INVARIANT
  NothingLost
