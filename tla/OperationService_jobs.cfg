SPECIFICATION FairSpec
CONSTANTS
  Job = {j1}
  Canceller = {c1}
  Waiter = {w1}
  NoJob = NoJob
  Persistent = TRUE
  MaxFaults = 1
  MaxExits = 1
  MaxEvents = 4
INVARIANTS
  VerdictIsPersisted
  NothingAfterVerdict
  CancelledWasRequested
  CancelFindsUnsettled
  NoOrphan
  WaitSeesFinal
PROPERTIES
  FinalIsFinal
  LifecycleSpec
  JobsSettle
  WaitersReturn
CHECK_DEADLOCK FALSE
