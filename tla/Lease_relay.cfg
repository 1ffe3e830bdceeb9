SPECIFICATION Spec
CONSTANTS
  w1 = w1
  w2 = w2
  w3 = w3
  h1 = h1
  h2 = h2
  o1 = o1
  Worker = {w1, w2, w3}
  HolderOf <- Relay
  Outsider = {}
  NoHolder = NoHolder
  NoDoc = NoDoc
  NoLease = NoLease
  Ttl = 1
  Offset <- Together
  MaxOffset = 0
  AcquireAttempts = 2
  PutAttempts = 2
  UpdateAttempts = 2
  MaxTime = 1
  MaxEpoch = 2
  MaxCalls = 5
  Restarting = {}
  Faults = {}
PROPERTIES
  NoEarlySteal
\* The workers need make no further call, and each step of one is free to run.
CHECK_DEADLOCK FALSE
