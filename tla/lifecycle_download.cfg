CONSTANTS
  a = a
  b = b
  Job = {a}
  Kind <- Downloads
  KeyOf <- OwnKeys
  MaxRecovery = 2
  MaxTries = 2
  KeepResult = TRUE
  MaxStops = 2
  Continuations = {a}
  Faults = {"enqueue_error", "ambiguous_enqueue", "timeout", "tail_error", "lost_quarantine"}
SPECIFICATION Spec
INVARIANT RepeatUploadExplained
PROPERTY CancelIsFinal
CHECK_DEADLOCK FALSE
