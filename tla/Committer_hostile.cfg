SPECIFICATION Spec
CONSTANTS
  c1 = c1
  c2 = c2
  e1 = e1
  e2 = e2
  e3 = e3
  a1 = a1
  a2 = a2
  a3 = a3
  Writer = {c1, c2}
  Event = {e1, e2, e3}
  Call = {a1, a2}
  EventsOf <- PairAndSingle
  Revalidating = {c1}
  MaxEvents = 2
  MaxAttempts = 2
  TailHint <- Hints
  History = 1
  OldEvent = OldEvent
  NoTail = NoTail
  Faults = {"conflict", "putError", "putErrorAfter", "putRetried", "readError", "hookError", "cancelAppend", "cancelClose", "crash"}
INVARIANTS
  TypeOK
  DenseLog
  KnownPrefix
  AckedDurably
  CloseDrains
PROPERTIES
  LogGrowsAtEnd
