SPECIFICATION FairTxSpec
CONSTANTS
  m1 = m1
  m2 = m2
  t1 = t1
  t2 = t2
  t3 = t3
  x = x
  y = y
  Writer = {m1, m2}
  Event = {t1, t2}
  Call = {t1, t2}
  EventsOf <- OneRecordEach
  Revalidating = {m1, m2}
  MaxEvents = 1
  MaxAttempts = 2
  TailHint <- NoHint
  History = 0
  OldEvent = OldEvent
  NoTail = NoTail
  Faults = {"putErrorAfter", "crash"}
  Key = {x, y}
  ManagerOf <- Managers
  ReadsOf <- Increments
  OpsOf <- PairOps
  Recoverer = {m2}
  NoObject = NoObject
INVARIANTS
  MarkedIsApplied
PROPERTIES
  RecoveryCompletes
  CommitEnds
