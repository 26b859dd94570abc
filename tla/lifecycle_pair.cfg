CONSTANTS
  a = a
  b = b
  Job = {a,b}
  Kind <- Mixed
  KeyOf <- OwnKeys
  MaxRecovery = 1
  MaxTries = 1
  KeepResult = FALSE
  MaxStops = 1
  Continuations = {}
  Faults = {}
SPECIFICATION Spec
INVARIANT AttemptHoldsEntry
PROPERTY KeepsPromise
CHECK_DEADLOCK FALSE
