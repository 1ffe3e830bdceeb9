SPECIFICATION TxSpec
CONSTANTS
  m1 = m1
  m2 = m2
  t1 = t1
  t2 = t2
  t3 = t3
  x = x
  y = y
  Writer = {m1, m2}
  Event = {t1, t2, t3}
  Call = {t1, t2, t3}
  EventsOf <- OneRecordEach
  Revalidating = {m1, m2}
  MaxEvents = 1
  MaxAttempts = 2
  TailHint <- NoHint
  History = 0
  OldEvent = OldEvent
  NoTail = NoTail
  Faults = {"conflict", "putErrorAfter", "cancelAppend"}
  Key = {x, y}
  ManagerOf <- Managers
  ReadsOf <- Transfers
  OpsOf <- TransferOps
  Recoverer = {}
  NoObject = NoObject
INVARIANTS
  TxTypeOK
  NoMissedConflictWhenWarm
  SerializableWhenCalm
  ConflictLeavesNoTrace
