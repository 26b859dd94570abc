CONSTANTS
  a = a
  b = b
  Job = {a}
  Kind <- Downloads
  KeyOf <- OwnKeys
  MaxRecovery = 2
  MaxTries = 2
  KeepResult = TRUE
  MaxStops = 2
  Continuations = {}
  Faults = {"enqueue_error", "tail_error", "lost_quarantine"}
SPECIFICATION FairSpec
PROPERTIES EntriesDrain RequestsSettle
CHECK_DEADLOCK FALSE
