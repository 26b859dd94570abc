CONSTANTS
  a = a
  b = b
  c = c
  site1 = site1
  site2 = site2
  Job = {a, b, c}
  Site = {site1, site2}
  SiteOf <- MCSiteOf
  OwnerOf <- MCOwnerOf
  FailedFirst <- MCFailedFirst
  FailedFor <- MCFailedFor
  MarkedFirst <- MCMarkedFirst
  TrayJobs = {c}
  BatchSize = 2
  WindowFactor = 1
  PerUser = 1
  Threshold = 2
  MaxRecovery = 1
  ReconcileSize = 1
  MaxVersion = 2
  MaxIncidents = 1
SPECIFICATION RecoverySpec
CHECK_DEADLOCK FALSE
PROPERTIES BacklogDrains RecoveryIsBounded
