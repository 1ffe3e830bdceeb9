SPECIFICATION TxSpec
CONSTANTS
  m1 = m1
  m2 = m2
  t1 = t1
  t2 = t2
  t3 = t3
  x = x
  y = y
  Writer = {m1}
  Event = {t1, t2}
  Call = {t1, t2}
  EventsOf <- OneRecordEach
  Revalidating = {m1}
  MaxEvents = 1
  MaxAttempts = 2
  TailHint <- NoHint
  History = 0
  OldEvent = OldEvent
  NoTail = NoTail
  Faults = {}
  Key = {x}
  ManagerOf <- OneManager
  ReadsOf <- Increments
  OpsOf <- IncrementOps
  Recoverer = {}
  NoObject = NoObject
INVARIANTS
  Serializable
