CONSTANTS
  LastUpdate = 2
  MaxAttempts = 2
  Choice <- LinkAfterChoice
  BatchLimit = 2
  ReplayLimit = 1
  MaxSerializeFailures = 2
  MaxCrashes = 1
SPECIFICATION FairSpec
INVARIANTS AckedIsDurable FirstRunsInOrder SendsExplained AcceptedLinkIsQueued
PROPERTIES EveryUpdateRuns
