CONSTANTS
  a = a
  b = b
  Job = {a}
  Kind <- Downloads
  KeyOf <- OwnKeys
  MaxRecovery = 0
  MaxTries = 2
  KeepResult = TRUE
  MaxStops = 1
  Continuations = {}
  Faults = {}
SPECIFICATION FairSpec
PROPERTY InterruptedJobsSettle
CHECK_DEADLOCK FALSE
